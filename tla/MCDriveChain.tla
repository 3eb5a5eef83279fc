---------------------------- MODULE MCDriveChain ----------------------------
(* The topics of mux.yaml and the commands of joy_teleop.yaml; one speed of *)
(* the controller and one of the operator.                                 *)
EXTENDS DriveChain

MCTopics == {"navigation", "joystick"}
MCTimeout == [navigation |-> 1, joystick |-> 1]
MCPriority == [navigation |-> 10, joystick |-> 100]
MCPosition == [navigation |-> 2, joystick |-> 1]

MCCommands == {"default", "human_control", "autonomous_control"}
MCButtons ==
    [default |-> {}, human_control |-> {"LB"}, autonomous_control |-> {"RB"}]
MCStatic ==
    [default |-> FALSE, human_control |-> FALSE, autonomous_control |-> TRUE]

MCCarStates == {[s |-> 0, vs |-> 0]}
MCObstacleArrays == {<<>>}
MCSpeedMin == -3

(* There is no obstacle to prefer.                                         *)
MCInit == ChainInit /\ prioritize_dyn
MCSpec == MCInit /\ [][ChainNext]_chain_vars /\ ChainFairness
=============================================================================
