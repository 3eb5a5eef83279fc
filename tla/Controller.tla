----------------------------- MODULE Controller -----------------------------
(***************************************************************************)
(* The controller (ROS node "controller"): a timer computes a drive        *)
(* command from what the callbacks stored.  MAP and PP follow the local    *)
(* waypoints and trail an opponent; FTG, which would follow the gaps of    *)
(* the laser scan, does not get through the constructor.  A single         *)
(* threaded executor: callbacks and loops are atomic.                      *)
(*                                                                         *)
(* A waypoint array is given by the speed at the waypoint the car looks    *)
(* ahead to.                                                               *)
(***************************************************************************)
EXTENDS Integers, Sequences, SequencesExt

CONSTANTS
    Modes,               \* values of the parameter mode to start with
    TrackLength,         \* length of the global waypoints
    CarStates,           \* [s, vs]: Frenet states the car may report
    ObstacleArrays,      \* sequences of obstacles perception may publish
    WaypointSpeeds,      \* speeds of the local waypoints
    StateStrings,        \* texts the state machine publishes on /state
    None,                \* nothing received yet, or no opponent
    SafetyLimit,         \* rate / state_machine_rate * 10
    trailing_gap, trailing_p_gain, trailing_i_gain, trailing_d_gain,
    IMax,                \* bound of the gap integral (10, in 1 / loop_rate)
    blind_trailing_speed,
    SteerTargets,        \* steering angles the lateral control may ask for
    SteerThreshold       \* limit of the change of the steering angle

ASSUME ControllerAssumption ==
    /\ Modes \subseteq {"MAP", "PP", "FTG"}
    /\ TrackLength \in Nat \ {0} /\ SafetyLimit \in Nat \ {0}
    /\ IMax \in Nat /\ SteerThreshold \in Nat
    /\ WaypointSpeeds \subseteq Nat /\ blind_trailing_speed \in Nat
    /\ SteerTargets \subseteq Int

\* The messages the pursuit controllers trail by.  The gains are not negative
\* (l1_params.yaml), speeds may be.
Obstacles == [s_start : Int, s_center : Int, vs : Int,
              is_static : BOOLEAN, is_visible : BOOLEAN]

ASSUME TrailingAssumption ==
    /\ CarStates \subseteq [s : Int, vs : Int]
    /\ ObstacleArrays \subseteq Seq(Obstacles)
    /\ trailing_gap \in Nat /\ trailing_p_gain \in Nat
    /\ trailing_i_gain \in Nat /\ trailing_d_gain \in Nat

\* Tracking publishes the opponent, if it does, as the last obstacle.
ASSUME PublishedAssumption ==
    \A obstacles \in ObstacleArrays :
        \A k \in 1..(Len(obstacles) - 1) : obstacles[k].is_static

VARIABLES
    mode,
    phase,                   \* "waiting" for messages, "running", "crashed"
    track_length, car, waypoints,            \* None before the first message
    state,                   \* the text received last
    opponent,                \* self.opponent
    prioritize_dyn,          \* read from l1_params.yaml at the start
    waypoint_safety_counter,
    i_gap, curr_steering_angle,     \* of the MAP or PP controller
    drive,                   \* the command published last, or None
    quiet                    \* ghost: loops since the last local waypoints

heard == <<track_length, car, waypoints, state, opponent>>
control == <<waypoint_safety_counter, i_gap, curr_steering_angle, drive, quiet>>
vars == <<mode, phase, heard, prioritize_dyn, control>>

Init ==
    /\ mode \in Modes
    /\ phase = "waiting"
    /\ track_length = None /\ car = None /\ waypoints = None
    /\ state = "GB_TRACK"
    /\ opponent = None
    /\ prioritize_dyn \in IF mode = "FTG" THEN {FALSE} ELSE BOOLEAN
    /\ waypoint_safety_counter = 0
    /\ i_gap = 0
    /\ curr_steering_angle = 0
    /\ drive = None
    /\ quiet = 0

Clip(x, low, high) == IF x < low THEN low ELSE IF x > high THEN high ELSE x
Smaller(a, b) == IF a < b THEN a ELSE b
Larger(a, b) == IF a < b THEN b ELSE a
Magnitude(x) == IF x < 0 THEN -x ELSE x

-----------------------------------------------------------------------------
(* The callbacks.                                                          *)

track_length_cb ==
    /\ phase # "crashed"
    /\ track_length' = TrackLength
    /\ UNCHANGED <<mode, phase, car, waypoints, state, opponent,
                   prioritize_dyn, control>>

\* Speed, pose and Frenet state, as one message.
car_state_cb(reported) ==
    /\ phase # "crashed"
    /\ car' = reported
    /\ UNCHANGED <<mode, phase, track_length, waypoints, state, opponent,
                   prioritize_dyn, control>>

local_waypoint_cb(speed) ==
    /\ phase # "crashed"
    /\ waypoints' = speed
    /\ waypoint_safety_counter' = 0
    /\ quiet' = 0
    /\ UNCHANGED <<mode, phase, track_length, car, state, opponent,
                   prioritize_dyn, i_gap, curr_steering_angle, drive>>

state_cb(text) ==
    /\ phase # "crashed"
    /\ state' = text
    /\ UNCHANGED <<mode, phase, track_length, car, waypoints, opponent,
                   prioritize_dyn, control>>

\* Distance ahead of the car, with wrapping.
AheadOfCar(s) == (s - car.s) % track_length

\* Faulty: a nearer obstacle only, whatever it is.
NearestOnly(best, obs) ==
    IF AheadOfCar(obs.s_start) < best.closest_opp
    THEN [closest_opp |-> AheadOfCar(obs.s_start), obstacle |-> obs,
          static_flag |-> FALSE]
    ELSE best

\* A round of the loop of obstacle_cb: the nearest obstacle, but a dynamic one
\* also in the place of a static one if prioritize_dyn.
Prefer(best, obs) ==
    IF \/ AheadOfCar(obs.s_start) < best.closest_opp
       \/ best.static_flag /\ ~obs.is_static
    THEN [closest_opp |-> AheadOfCar(obs.s_start), obstacle |-> obs,
          static_flag |-> obs.is_static /\ prioritize_dyn]
    ELSE best

ChosenObstacle(obstacles) ==
    LET best[k \in 0..Len(obstacles)] ==
            IF k = 0
            THEN [closest_opp |-> track_length, obstacle |-> None, static_flag |-> FALSE]
            ELSE Prefer(best[k - 1], obstacles[k])
    IN  best[Len(obstacles)].obstacle

obstacle_cb(obstacles) ==
    /\ phase # "crashed"
    /\ opponent' = IF obstacles = <<>> \/ car = None \/ track_length = None
                   THEN None ELSE ChosenObstacle(obstacles)
    /\ UNCHANGED <<mode, phase, track_length, car, waypoints, state,
                   prioritize_dyn, control>>

\* The constructor blocks until what the loop needs is there, whatever the
\* mode, and then declares parameters with the values of self.l1_params, which
\* init_ftg_controller does not set: in mode FTG it raises.
wait_for_messages ==
    /\ phase = "waiting"
    /\ track_length # None /\ car # None /\ waypoints # None
    /\ phase' = IF mode = "FTG" THEN "crashed" ELSE "running"
    /\ UNCHANGED <<mode, heard, prioritize_dyn, control>>

-----------------------------------------------------------------------------
(* map.py and pp.py, which are one program but for the text that stands    *)
(* for TRAILING.                                                           *)

TrailingText == [MAP |-> "StateType.TRAILING", PP |-> "TRAILING"]
Trails == state = TrailingText[mode] /\ opponent # None

Gap == AheadOfCar(opponent.s_center)
GapError == trailing_gap - Gap

\* Faulty: the integral is not bounded.
WindsUp == i_gap + GapError

NextIGap == Clip(i_gap + GapError, -IMax, IMax)

\* Faulty: an opponent out of sight is passed at the blind trailing speed.
AlwaysBlindSpeed(global_speed) ==
    Larger(blind_trailing_speed,
           Clip(opponent.vs - GapError * trailing_p_gain
                  - NextIGap * trailing_i_gain
                  - (car.vs - opponent.vs) * trailing_d_gain, 0, global_speed))

trailing_controller(global_speed) ==
    LET p_value == GapError * trailing_p_gain
        i_value == NextIGap * trailing_i_gain
        d_value == (car.vs - opponent.vs) * trailing_d_gain
        trailing_command ==
            Clip(opponent.vs - p_value - i_value - d_value, 0, global_speed)
    IN  IF ~opponent.is_visible /\ Gap > trailing_gap
        THEN Larger(blind_trailing_speed, trailing_command)
        ELSE trailing_command

\* speed_adjust_lat_err multiplies by a factor between 1 / e and 1.
speed_adjust_lat_err(speed) == {v \in 0..speed : 3 * v >= speed}

calc_speed_command(speed) ==
    /\ i_gap' = IF Trails THEN NextIGap ELSE 0
    /\ speed \in speed_adjust_lat_err(
                    IF Trails THEN trailing_controller(waypoints) ELSE waypoints)

calc_steering_angle ==
    \E target \in SteerTargets :
        curr_steering_angle' = Clip(target, curr_steering_angle - SteerThreshold,
                                            curr_steering_angle + SteerThreshold)

\* Faulty: only the first loop without waypoints for long enough stops.
StopsOnce == waypoint_safety_counter + 1 = SafetyLimit

\* Faulty: the counter is looked at before it counts this loop.
StopsLate == waypoint_safety_counter >= SafetyLimit

\* No local waypoints for too many loops.
Stops == waypoint_safety_counter + 1 >= SafetyLimit

\* map_cycle and pp_cycle
pursuit_cycle ==
    /\ mode \in {"MAP", "PP"}
    /\ \E speed \in 0..Larger(waypoints, blind_trailing_speed) :
          /\ calc_speed_command(speed)
          /\ calc_steering_angle
          /\ drive' = IF Stops THEN [speed |-> 0, steer |-> 0]
                      ELSE [speed |-> speed, steer |-> curr_steering_angle']
    /\ waypoint_safety_counter' =
          Smaller(waypoint_safety_counter + 1, SafetyLimit)   \* bound
    /\ UNCHANGED phase

\* Only the mode decides; the state FTGONLY does not bring FTG in.
control_loop ==
    /\ phase = "running"
    /\ pursuit_cycle
    /\ quiet' = Smaller(quiet + 1, SafetyLimit)   \* bound
    /\ UNCHANGED <<mode, heard, prioritize_dyn>>

Hear ==
    \/ track_length_cb
    \/ \E reported \in CarStates : car_state_cb(reported)
    \/ \E speed \in WaypointSpeeds : local_waypoint_cb(speed)
    \/ \E text \in StateStrings : state_cb(text)
    \/ \E obstacles \in ObstacleArrays : obstacle_cb(obstacles)

Next == Hear \/ wait_for_messages \/ control_loop

Spec == Init /\ [][Next]_vars

-----------------------------------------------------------------------------
(* Correctness.                                                            *)

DriveCommands == [speed : Nat, steer : Int]

TypeOK ==
    /\ mode \in Modes
    /\ phase \in {"waiting", "running", "crashed"}
    /\ track_length \in {TrackLength, None}
    /\ car \in CarStates \cup {None}
    /\ waypoints \in WaypointSpeeds \cup {None}
    /\ state \in StateStrings \cup {"GB_TRACK"}
    /\ prioritize_dyn \in BOOLEAN
    /\ waypoint_safety_counter \in 0..SafetyLimit
    /\ i_gap \in (-IMax)..IMax
    /\ curr_steering_angle \in Int
    /\ drive \in DriveCommands \cup {None}
    /\ quiet \in 0..SafetyLimit

\* README.md: prioritize_dyn means "Ignore static obstacles, when a dynamic
\* obstacle is present".  The loop of obstacle_cb does so in the order in
\* which tracking publishes, the dynamic obstacle last; among obstacles of a
\* kind it takes the nearest.
PrefersDynamic ==
    [][\A obstacles \in ObstacleArrays :
          opponent' # None /\ obstacle_cb(obstacles) =>
              /\ opponent' \in Range(obstacles)
              /\ prioritize_dyn /\ (\E obs \in Range(obstacles) : ~obs.is_static) =>
                    ~opponent'.is_static
              /\ ~prioritize_dyn \/ opponent'.is_static =>
                    \A obs \in Range(obstacles) :
                        AheadOfCar(opponent'.s_start) <= AheadOfCar(obs.s_start)
      ]_<<opponent, phase, waypoints, car>>

\* In a loop that trails nearer to the opponent than the gap asked for, so near
\* that the proportional term outweighs the integral at its bound, the car is
\* not told to drive faster than the opponent, but for what the differential
\* term adds when the car is the slower one; and to stop for an opponent that
\* comes back.  However long the car had fallen behind before, the integral
\* does not push it into the opponent (trailing_controller of map.py).
TooCloseYields ==
    [][ ( /\ phase = "running" /\ Trails
          /\ GapError > 0 /\ GapError * trailing_p_gain >= IMax * trailing_i_gain
          /\ control_loop )
        => drive'.speed <=
              Larger(opponent.vs
                       + Larger(opponent.vs - car.vs, 0) * trailing_d_gain, 0)
      ]_control

\* README.md of the controller on both MAP and PP: the velocity is "computed
\* by the trailing controller if the car is trailing an opponent and therefore
\* in the Trailing state".
TrailingStateTrails ==
    [][ ( /\ mode \in {"MAP", "PP"} /\ phase = "running"
          /\ state = "StateType.TRAILING" /\ opponent # None
          /\ control_loop )
        => drive'.speed <= trailing_controller(waypoints) ]_control

\* However messages and loops interleave, the car is told to stop once the
\* loops have gone without local waypoints for long enough (map_cycle).
SilenceStops ==
    quiet >= SafetyLimit => drive = [speed |-> 0, steer |-> 0]
=============================================================================
