---------------------------- MODULE MCOvertaking ----------------------------
(* A short track and its opponents.                                        *)
EXTENDS Overtaking

Opponent(s, l, r, v_s, v_d) ==
    [s_center |-> s, d_center |-> (l + r) \div 2, d_left |-> l, d_right |-> r,
     vs |-> v_s, vd |-> v_d]
OnTheLeft  == Opponent(1, 2, 0, 0, 0)
OnTheRight == Opponent(1, 0, -2, 1, 0)
Blocking   == Opponent(1, 3, -3, 0, 0)
Swerving   == Opponent(1, 1, -2, 0, 1)     \* from the right to the left

MCObstacleArrays == { {}, {OnTheLeft}, {OnTheRight}, {Blocking} }
MCFewArrays == { {}, {Swerving} }
MCTrackLengths == {4}
MCCarPositions == {<<0, 0>>, <<0, 1>>}
MCSectors == {1}
MCSectorStart == <<0>>
MCSectorEnd == <<0>>

(* The lines and messages the spliner can plan here.                       *)
MCAvoidanceLines ==
    { <<[s_m |-> s, d_m |-> d], [s_m |-> (s + 1) % 4, d_m |-> 0]>> :
        s \in 0..3, d \in -3..3 }
MCAvoidanceMsgs ==
    [wpnts : MCAvoidanceLines, ot_side : {"left", "right"}, since_switch : 0..3]
=============================================================================
