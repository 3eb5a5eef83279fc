---------------------------- MODULE MCController ----------------------------
(* Small numbers for Controller.                                           *)
EXTENDS Controller

MCCarStates == {[s |-> 0, vs |-> 1], [s |-> 5, vs |-> 3]}

Obstacle(s, vs, static, visible) ==
    [s_start |-> s, s_center |-> s, vs |-> vs, is_static |-> static,
     is_visible |-> visible]

(* What tracking publishes: static obstacles, then at most one dynamic one.*)
Near == Obstacle(1, 0, TRUE, TRUE)
Far == Obstacle(4, 0, TRUE, FALSE)
Moving == Obstacle(2, 2, FALSE, TRUE)
MCObstacleArrays ==
    { <<>>, <<Far>>, <<Near, Moving>>, <<Far, Moving>>, <<Far, Near>>, <<Moving>> }
=============================================================================
