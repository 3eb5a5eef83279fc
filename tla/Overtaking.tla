----------------------------- MODULE Overtaking -----------------------------
(***************************************************************************)
(* The overtaking pipeline: perception feeds the spliner and the state     *)
(* machine, the spliner sends its messages to the state machine through a  *)
(* topic.  The two nodes are processes of their own, so the same obstacles *)
(* reach them at different times and messages wait in the topic's queue.   *)
(***************************************************************************)
EXTENDS StateMachine

CONSTANTS
    gb_max_s, d_left, d_right, evasion_dist, spline_bound_mindist,
    spline_resolution, obs_traj_tresh, lookahead, prediction_range,
    side_switch_d, post_apex,
    Depth                  \* depth of the subscription's queue

VARIABLES
    obs, last_switch_age, last_ot_side, evasion,  \* the spliner's
    world,            \* what perception published last
    otwpnts,          \* the topic: messages not yet delivered
    abort_age,        \* ghost: time since the spliner last aborted
    held_abort_age,   \* ghost: abort_age when the held message was sent
    passing           \* ghost: the side being overtaken on, or ""

SP == INSTANCE Spliner

ASSUME GeometryAssumption == SP!Geometry

\* The state machine may receive what the spliner may plan, and perception may
\* see nothing.
ASSUME MessagesAssumption ==
    /\ SP!PlannedMsgs \subseteq AvoidanceMsgs
    /\ {} \in ObstacleArrays
    /\ Depth \in Nat \ {0}

sm_vars == vars
sp_own == <<obs, last_switch_age, last_ot_side, evasion>>
ghosts == <<abort_age, held_abort_age, passing>>
all_vars == <<sm_vars, sp_own, world, otwpnts, ghosts>>

\* The state machine's variables but the position of the car, which both
\* nodes take from the same topic.
sm_own == <<state, track_length, obstacles, ot_flag, spline_vars, params, out>>

SystemInit ==
    /\ Init
    /\ SP!Init
    /\ ot_flag = [i \in Sectors |-> TRUE]
    /\ world = {}
    /\ otwpnts = <<>>
    /\ abort_age = AgeCap
    /\ held_abort_age = AgeCap
    /\ passing = ""

\* Perception publishes new obstacles.
Perception ==
    /\ world' \in ObstacleArrays
    /\ UNCHANGED <<sm_vars, sp_own, otwpnts, ghosts>>

ObstaclesToStateMachine ==
    /\ obstacles_cb(world)
    /\ UNCHANGED <<sp_own, world, otwpnts, ghosts>>

ObstaclesToSpliner ==
    /\ SP!obs_cb(world)
    /\ UNCHANGED <<sm_own, world, otwpnts, ghosts>>

Drive ==
    /\ \E pos \in CarPositions : car_state_frenet_cb(pos)
    /\ UNCHANGED <<sp_own, world, otwpnts, ghosts>>

\* A full queue loses its oldest message.
Enqueue(queue, m) ==
    IF Len(queue) < Depth THEN Append(queue, m) ELSE Append(Tail(queue), m)

SplinerLoop ==
    /\ SP!spliner_loop
    /\ otwpnts' = Enqueue(otwpnts, [msg |-> evasion', abort_age |-> abort_age])
    /\ abort_age' = IF SP!Abort THEN SP!NextAge(0) ELSE SP!NextAge(abort_age)
    /\ UNCHANGED <<sm_own, world, held_abort_age, passing>>

Deliver ==
    /\ otwpnts # <<>>
    /\ avoidance_cb(Head(otwpnts).msg)
    /\ otwpnts' = Tail(otwpnts)
    /\ held_abort_age' =
          IF Head(otwpnts).msg = NoWpnts THEN held_abort_age
          ELSE Head(otwpnts).abort_age
    /\ UNCHANGED <<sp_own, world, abort_age, passing>>

MainLoop ==
    /\ main_loop_callback
    /\ passing' = IF out'.state = "OVERTAKE" THEN avoidance_wpnts.ot_side ELSE ""
    /\ UNCHANGED <<sp_own, world, otwpnts, abort_age, held_abort_age>>

SystemNext ==
    \/ Perception
    \/ ObstaclesToStateMachine
    \/ ObstaclesToSpliner
    \/ Drive
    \/ SplinerLoop
    \/ Deliver
    \/ MainLoop

SystemSpec == SystemInit /\ [][SystemNext]_all_vars

\* Timers of spinning nodes fire, and reliable topics deliver.
FairSystem ==
    /\ SystemSpec
    /\ WF_all_vars(ObstaclesToStateMachine)
    /\ WF_all_vars(ObstaclesToSpliner)
    /\ WF_all_vars(SplinerLoop)
    /\ WF_all_vars(Deliver)
    /\ WF_all_vars(MainLoop)

-----------------------------------------------------------------------------
(* Correctness.                                                            *)

\* Every line the spliner publishes evades the obstacle it is for.
LinesEvade == SP!LineEvades

\* An aborted evasion cools the state machine down ("This fools the
\* statemachine to cool down", spline_planner.py): whatever waits in the topic
\* and however the loops interleave, no message planned within the hysteresis
\* after an abort is overtaken on.
CoolDown ==
    [][MainLoop /\ out'.state = "OVERTAKE" =>
          held_abort_age >= splini_hyst_timer_sec]_all_vars

\* When the opponents are gone for good and the car is near the raceline, the
\* car ends up in GB_TRACK, although the state machine drops the empty
\* messages that tell it so.
ReturnsToRaceline ==
    <>[](world = {} /\ check_close_to_raceline) => <>[](out.state = "GB_TRACK")

\* README.md says of splini_hyst_timer_sec "Time that overtake state is blocked
\* when switching side for overtaking": an overtake never goes over to the
\* other side from one loop to the next.
NoSideSwapWhileOvertaking ==
    [][passing # "" /\ passing' # "" => passing' = passing]_passing
=============================================================================
