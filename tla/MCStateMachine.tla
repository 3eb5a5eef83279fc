--------------------------- MODULE MCStateMachine ---------------------------
(* Small tracks, lines and obstacles for StateMachine.                     *)
EXTENDS StateMachine

(* A track of four waypoints with a horizon of two: the obstacle at 0 is   *)
(* ahead of both positions, of the second one across the start line.       *)
MCTrackLengths == {4}
MCCarPositions == {<<0, 0>>, <<3, 2>>}
Obstacle(s, d) == [s_center |-> s, d_center |-> d]
MCObstacleArrays ==
    { {}, {Obstacle(0, 0)}, {Obstacle(1, 0), Obstacle(0, 2)} }

(* One sector; it ends at waypoint 0 and the check adds one.               *)
MCSectors == {1}
MCSectorStart == <<0>>
MCSectorEnd == <<0>>

(* A wide line, clear of the obstacles on the raceline, and a line that    *)
(* comes back to the raceline at waypoint 1.                               *)
Point(s, d) == [s_m |-> s, d_m |-> d]
MCAvoidanceLines == { <<Point(0, 1), Point(1, 1)>>, <<Point(0, 1), Point(1, 0)>> }
MCAvoidanceMsgs == [wpnts : MCAvoidanceLines, since_switch : {0, 2}]

(* For the fair run: an obstacle array that a check of one obstacle alone  *)
(* would misjudge, and the second line only once the side is settled.      *)
MCFewObstacles == { {}, {Obstacle(1, 0), Obstacle(0, 2)} }
MCFewMsgs == {m \in MCAvoidanceMsgs : m.since_switch = 2 \/ m.wpnts[2].d_m = 1}
=============================================================================
