---------------------------- MODULE StateMachine ----------------------------
(***************************************************************************)
(* The behaviour planner (ROS node "state_machine") in head_to_head mode   *)
(* with overtake_mode "spliner".  The node runs on a single threaded       *)
(* executor: every callback below is one atomic action, and between two    *)
(* runs of the main loop timer any callbacks may run in any order.         *)
(*                                                                         *)
(* Lengths along the track are in units of waypoints_dist, so cur_s stands *)
(* for cur_s / waypoints_dist.  Time is counted in main loop periods.      *)
(***************************************************************************)
EXTENDS Integers, Sequences

CONSTANTS
    TrackLengths,          \* track lengths a global waypoints message may carry
    CarPositions,          \* Frenet positions <<cur_s, cur_d>> the car may report
    ObstacleArrays,        \* obstacle arrays perception may publish (as sets)
    Sectors,               \* numbers of the overtaking sectors
    sector_start,          \* first waypoint of each sector
    sector_end,            \* last waypoint of each sector
    AvoidanceLines,        \* non-empty waypoint lists the spliner may publish
    AvoidanceMsgs,         \* its non-empty messages: the waypoints (wpnts) and
                           \* header.stamp - last_switch_time (since_switch)
    NoWpnts,               \* no waypoints: None, or an array of length 0
    initial_state,
    OperatorStates,        \* states the operator may force or set
    TtlChoices,            \* values int(splini_ttl * rate_hz) may be given
    TtlMax,                \* the largest of them
    AgeCap,                \* the ghost ages stop counting here
    gb_ego_width_m, lateral_width_gb_m, lateral_width_ot_m,
    gb_horizon_m, overtaking_horizon_m, splini_hyst_timer_sec

StateType == {"GB_TRACK", "TRAILING", "OVERTAKE", "FTGONLY"}

ASSUME StatesAssumption ==
    initial_state \in StateType /\ OperatorStates \subseteq StateType

ASSUME TtlAssumption ==
    /\ TtlMax \in Nat /\ AgeCap \in Nat /\ TtlMax < AgeCap
    /\ TtlChoices \subseteq 1..TtlMax
    /\ splini_hyst_timer_sec \in Nat

ASSUME WpntsAssumption ==
    /\ NoWpnts \notin AvoidanceLines
    /\ \A msg \in AvoidanceMsgs : msg.wpnts \in AvoidanceLines

ASSUME PositionsAssumption ==
    /\ CarPositions # {} /\ CarPositions \subseteq Nat \X Int
    /\ TrackLengths # {} /\ TrackLengths \subseteq Nat \ {0}

VARIABLES
    state,                       \* self.state
    car,                         \* <<self.cur_s, self.cur_d>>
    track_length,                \* set with the global waypoints
    obstacles,                   \* self.obstacles
    ot_flag,                     \* the ot_flag of each entry of self.ot_sectors
    avoidance_wpnts,             \* the last non-empty message, or NoWpnts
    last_valid_avoidance_wpnts,  \* the cached spline, or NoWpnts
    splini_ttl_counter,
    params,                      \* the parameters changed at run time
    out,                         \* what the last main loop published
    msg_age,                     \* ghost: periods since avoidance_wpnts came
    cache_age                    \* ghost: periods since the message of the
                                 \* cached spline came

spline_vars == <<avoidance_wpnts, last_valid_avoidance_wpnts,
                 splini_ttl_counter, msg_age, cache_age>>
sensed == <<car, track_length, obstacles, ot_flag>>
vars == <<state, sensed, spline_vars, params, out>>

cur_s == car[1]
cur_d == car[2]

Params == [force_state : BOOLEAN, force_state_choice : StateType,
           splini_ttl : TtlChoices]

(* out.line is the spline fused into the published local waypoints; NoWpnts*)
(* when they are the plain raceline, or nothing (state FTGONLY).  The state *)
(* is "none" until the first main loop.                                    *)
Outputs == [state : StateType \cup {"none"}, forced : BOOLEAN,
            line : AvoidanceLines \cup {NoWpnts}, age : 0..AgeCap]

Init ==
    /\ state = initial_state
    /\ car \in CarPositions
    /\ track_length \in TrackLengths
    /\ obstacles = {}
    /\ ot_flag \in [Sectors -> BOOLEAN]
    /\ avoidance_wpnts = NoWpnts
    /\ last_valid_avoidance_wpnts = NoWpnts
    /\ splini_ttl_counter = 0
    /\ params \in [force_state : {FALSE}, force_state_choice : {"GB_TRACK"},
                   splini_ttl : TtlChoices]
    /\ out = [state |-> "none", forced |-> FALSE, line |-> NoWpnts, age |-> 0]
    /\ msg_age = 0
    /\ cache_age = 0

-----------------------------------------------------------------------------
(* The conditions the transitions read.                                    *)

Abs(x) == IF x < 0 THEN -x ELSE x

\* The obstacle lies within the horizon in front of the car, with wrapping.
Ahead(obs, horizon) == (obs.s_center - cur_s) % track_length < horizon

check_gbfree ==
    \A obs \in obstacles :
        Ahead(obs, gb_horizon_m) => Abs(obs.d_center) >= lateral_width_gb_m

check_close_to_raceline == Abs(cur_d) < gb_ego_width_m

check_ot_sector ==
    \E i \in Sectors :
        /\ ot_flag[i]
        /\ sector_start[i] <= cur_s
        /\ cur_s <= sector_end[i] + 1

\* The list of follow-the-gap zones is created empty and never filled, and
\* the standstill timer is switched off by ftg_disabled.
only_ftg_zones == {}
check_only_ftg_zone ==
    \E z \in only_ftg_zones : z[1] <= cur_s /\ cur_s <= z[2]
ftg_disabled == TRUE
check_ftg == ~ftg_disabled

\* Lateral offset of the line at its waypoint nearest to s (argmin: the
\* first of the nearest ones; the distance is not wrapped).
OffsetAt(line, s) ==
    LET Dist(i) == Abs(line[i].s_m - s)
        nearest == {i \in DOMAIN line : \A j \in DOMAIN line : Dist(i) <= Dist(j)}
    IN  line[CHOOSE i \in nearest : \A j \in nearest : i <= j].d_m

check_ofree(line) ==
    \/ line = NoWpnts
    \/ \A obs \in obstacles :
          Ahead(obs, overtaking_horizon_m) =>
              Abs(OffsetAt(line, obs.s_center) - obs.d_center) >= lateral_width_ot_m

\* Without its side effect, which is UpdatedCache below.
check_availability_splini_wpts ==
    /\ avoidance_wpnts # NoWpnts
    /\ avoidance_wpnts.since_switch >= splini_hyst_timer_sec

\* Whether the transition evaluates _check_availability_splini_wpts at all:
\* TRAILING stops at the first conjunct that fails, OVERTAKE always asks.
EvaluatesAvailability ==
    /\ ~check_only_ftg_zone
    /\ \/ state = "TRAILING" /\ ~check_ftg /\ ~check_gbfree /\ check_ot_sector
       \/ state = "OVERTAKE"

\* The message is copied into the cache when it is found available.
Refreshes ==
    ~params.force_state /\ EvaluatesAvailability /\ check_availability_splini_wpts
UpdatedCache ==
    IF Refreshes THEN avoidance_wpnts.wpnts ELSE last_valid_avoidance_wpnts

-----------------------------------------------------------------------------
(* transitions.py; line is the cache after its update.                     *)

SpliniGlobalTrackingTransition ==
    CASE check_only_ftg_zone                   -> "FTGONLY"
      [] ~check_only_ftg_zone /\ check_gbfree  -> "GB_TRACK"
      [] ~check_only_ftg_zone /\ ~check_gbfree -> "TRAILING"

\* Faulty: checks the line cached before this period's message.
TrailingChecksOldLine(line) ==
    IF check_gbfree /\ check_close_to_raceline
    THEN "GB_TRACK"
    ELSE IF /\ ~check_gbfree
            /\ check_ot_sector
            /\ check_availability_splini_wpts
            /\ check_ofree(last_valid_avoidance_wpnts)
    THEN "OVERTAKE"
    ELSE "TRAILING"

SpliniTrailingTransition(line) ==
    IF check_only_ftg_zone \/ check_ftg
    THEN "FTGONLY"
    ELSE IF check_gbfree /\ check_close_to_raceline
    THEN "GB_TRACK"
    ELSE IF /\ ~check_gbfree
            /\ check_ot_sector
            /\ check_availability_splini_wpts
            /\ check_ofree(line)
    THEN "OVERTAKE"
    ELSE "TRAILING"

\* Faulty: keeps overtaking only while the raceline is free.
OvertakingNeedsRaceline(line) ==
    IF ~check_ofree(line)
    THEN "TRAILING"
    ELSE IF check_ot_sector /\ check_availability_splini_wpts /\ check_gbfree
    THEN "OVERTAKE"
    ELSE IF check_gbfree
    THEN "GB_TRACK"
    ELSE "TRAILING"

SpliniOvertakingTransition(line) ==
    IF check_only_ftg_zone
    THEN "FTGONLY"
    ELSE IF ~check_ofree(line)
    THEN "TRAILING"
    ELSE IF check_ot_sector /\ check_availability_splini_wpts
    THEN "OVERTAKE"
    ELSE IF ~check_ot_sector /\ check_gbfree
    THEN "GB_TRACK"
    ELSE "TRAILING"

\* Faulty: returns to the raceline only in an overtaking sector.
FTGOnlyNeedsSector ==
    IF check_ot_sector /\ check_close_to_raceline /\ check_gbfree
    THEN "GB_TRACK"
    ELSE "FTGONLY"

SpliniFTGOnlyTransition ==
    IF ~check_only_ftg_zone /\ check_close_to_raceline /\ check_gbfree
    THEN "GB_TRACK"
    ELSE "FTGONLY"

head_to_head_transition(line) ==
    CASE state = "GB_TRACK" -> SpliniGlobalTrackingTransition
      [] state = "TRAILING" -> SpliniTrailingTransition(line)
      [] state = "OVERTAKE" -> SpliniOvertakingTransition(line)
      [] state = "FTGONLY"  -> SpliniFTGOnlyTransition

\* Faulty: GB_TRACK keeps following a cached spline.
EveryStateFuses(st, line) == IF st # "FTGONLY" THEN line ELSE NoWpnts

\* states.py: TRAILING and OVERTAKE fuse the cached spline, if there is one,
\* into the raceline; GB_TRACK passes the raceline, FTGONLY nothing.
DefaultStateLogic(st, line) ==
    IF st \in {"TRAILING", "OVERTAKE"} THEN line ELSE NoWpnts

-----------------------------------------------------------------------------
(* The callbacks.                                                          *)

glb_wpnts_scaled_cb(length) ==
    /\ track_length' = length
    /\ UNCHANGED <<state, car, obstacles, ot_flag, spline_vars, params, out>>

car_state_frenet_cb(pos) ==
    /\ car' = pos
    /\ UNCHANGED <<state, track_length, obstacles, ot_flag, spline_vars,
                   params, out>>

\* Faulty: an empty array is dropped, as an empty message of the spliner is.
EmptyIsDropped(data) ==
    /\ obstacles' = IF data # {} THEN data ELSE obstacles
    /\ UNCHANGED <<state, car, track_length, ot_flag, spline_vars, params, out>>

obstacles_cb(data) ==
    /\ obstacles' = data
    /\ UNCHANGED <<state, car, track_length, ot_flag, spline_vars, params, out>>

ot_flag_cb(i, value) ==
    /\ ot_flag' = [ot_flag EXCEPT ![i] = value]
    /\ UNCHANGED <<state, car, track_length, obstacles, spline_vars, params, out>>

\* Faulty: an empty message restarts the time to live, too.
AnyMessageRenews(data) ==
    /\ splini_ttl_counter' = params.splini_ttl
    /\ IF data # NoWpnts
       THEN avoidance_wpnts' = data /\ msg_age' = 0
       ELSE UNCHANGED <<avoidance_wpnts, msg_age>>
    /\ UNCHANGED <<state, sensed, last_valid_avoidance_wpnts, cache_age,
                   params, out>>

\* Every non-empty message restarts the time to live; an empty one is dropped.
avoidance_cb(data) ==
    /\ IF data # NoWpnts
       THEN /\ splini_ttl_counter' = params.splini_ttl
            /\ avoidance_wpnts' = data
            /\ msg_age' = 0
       ELSE UNCHANGED <<splini_ttl_counter, avoidance_wpnts, msg_age>>
    /\ UNCHANGED <<state, sensed, last_valid_avoidance_wpnts, cache_age,
                   params, out>>

set_force_state(value) ==
    /\ params' = [params EXCEPT !.force_state = value]
    /\ UNCHANGED <<state, sensed, spline_vars, out>>

set_force_state_choice(value) ==
    /\ params' = [params EXCEPT !.force_state_choice = value]
    /\ UNCHANGED <<state, sensed, spline_vars, out>>

\* Setting the parameter initial_state at run time moves the machine.
set_initial_state(value) ==
    /\ state' = value
    /\ UNCHANGED <<sensed, spline_vars, params, out>>

set_splini_ttl(value) ==
    /\ params' = [params EXCEPT !.splini_ttl = value]
    /\ UNCHANGED <<state, sensed, spline_vars, out>>

parameters_callback ==
    \/ \E value \in BOOLEAN : set_force_state(value)
    \/ \E value \in OperatorStates : set_force_state_choice(value)
    \/ \E value \in OperatorStates : set_initial_state(value)
    \/ \E value \in TtlChoices : set_splini_ttl(value)

\* The ghost ages grow by one period, up to the cap.
Older(age) == IF age < AgeCap THEN age + 1 ELSE age

\* Faulty: one period late; the counter is not reset; nothing is dropped.
ExpiredLate == splini_ttl_counter - 1 < 0
CountedOn == splini_ttl_counter - 1
KeptAnyway(wpnts) == wpnts

\* The time to live runs out with this period; the counter then rests at -1,
\* and what was held or cached is dropped.
Expired == splini_ttl_counter - 1 <= 0
CountedDown == IF Expired THEN -1 ELSE splini_ttl_counter - 1
Kept(wpnts) == IF Expired THEN NoWpnts ELSE wpnts

NextState(line) ==
    IF params.force_state THEN params.force_state_choice
    ELSE head_to_head_transition(line)

main_loop_callback ==
    LET line == UpdatedCache
        age  == IF Refreshes THEN msg_age ELSE cache_age
        next == NextState(line)
        used == DefaultStateLogic(next, line)
    IN  /\ state' = next
        /\ out' = [state |-> next, forced |-> params.force_state, line |-> used,
                   age |-> IF used = NoWpnts THEN 0 ELSE age]
        /\ splini_ttl_counter' = CountedDown
        /\ last_valid_avoidance_wpnts' = Kept(line)
        /\ avoidance_wpnts' = Kept(avoidance_wpnts)
        /\ msg_age' = IF avoidance_wpnts' = NoWpnts THEN 0 ELSE Older(msg_age)
        /\ cache_age' = IF last_valid_avoidance_wpnts' = NoWpnts THEN 0
                        ELSE Older(age)
        /\ UNCHANGED <<sensed, params>>

Sense ==
    \/ \E length \in TrackLengths : glb_wpnts_scaled_cb(length)
    \/ \E pos \in CarPositions : car_state_frenet_cb(pos)
    \/ \E data \in ObstacleArrays : obstacles_cb(data)
    \/ \E i \in Sectors, value \in BOOLEAN : ot_flag_cb(i, value)

Avoid == \E data \in AvoidanceMsgs \cup {NoWpnts} : avoidance_cb(data)

Next == Sense \/ Avoid \/ parameters_callback \/ main_loop_callback

Spec == Init /\ [][Next]_vars

\* The main loop is a wall timer of a node that spins for ever.
FairSpec == Spec /\ WF_vars(main_loop_callback)

-----------------------------------------------------------------------------
(* Correctness.                                                            *)

\* Every variable has its type.
TypeOK ==
    /\ state \in StateType
    /\ car \in Nat \X Int
    /\ track_length \in TrackLengths
    /\ ot_flag \in [Sectors -> BOOLEAN]
    /\ avoidance_wpnts \in AvoidanceMsgs \cup {NoWpnts}
    /\ last_valid_avoidance_wpnts \in AvoidanceLines \cup {NoWpnts}
    /\ splini_ttl_counter \in -1..TtlMax
    /\ params \in Params
    /\ out \in Outputs
    /\ msg_age \in 0..AgeCap
    /\ cache_age \in 0..AgeCap

\* A held message never outlives the time to live it was received with, and
\* a cached spline is never kept without a held message: both are dropped in
\* the same period, whatever the order of messages, loops and changes of
\* splini_ttl (avoidance_cb, main_loop_callback).
CacheUnderLease ==
    /\ avoidance_wpnts # NoWpnts =>
          splini_ttl_counter >= 1 /\ splini_ttl_counter + msg_age <= TtlMax
    /\ last_valid_avoidance_wpnts # NoWpnts => avoidance_wpnts # NoWpnts

\* Unless it is forced, a published OVERTAKE comes with a spline, and that
\* spline was received less than a time to live ago: the car never passes an
\* opponent on the plain raceline or on an old line.
OvertakeOnLiveLine ==
    out.state = "OVERTAKE" /\ ~out.forced =>
        out.line # NoWpnts /\ out.age < TtlMax

\* The cached spline is never older than its time to live: README.md says of
\* splini_ttl "Tim to live in seconds for a cached overtaking trajectory".
\* The code restarts the counter with every message, also with those that
\* the transitions never copy into the cache.
CachedLineWithinTtl ==
    last_valid_avoidance_wpnts # NoWpnts => cache_age <= TtlMax

\* The line is clear of every obstacle within the overtaking horizon.
LineClear(line) ==
    \A obs \in obstacles :
        Ahead(obs, overtaking_horizon_m) =>
            Abs(OffsetAt(line, obs.s_center) - obs.d_center) >= lateral_width_ot_m

\* The loop that publishes OVERTAKE by itself has checked the very line it
\* publishes, not the one it cached before: it is the line of the newest
\* message, clear of all known obstacles, inside an enabled sector and not
\* within the hysteresis of a side switch.
OvertakeIsChecked ==
    [][main_loop_callback /\ out'.state = "OVERTAKE" /\ ~out'.forced =>
          /\ avoidance_wpnts # NoWpnts
          /\ out'.line = avoidance_wpnts.wpnts
          /\ LineClear(out'.line)
          /\ avoidance_wpnts.since_switch >= splini_hyst_timer_sec
          /\ check_ot_sector]_vars

\* The planner keeps its promise to the controller (BehaviourPlanner): a
\* spline is followed only under a lease that messages renew.
BP == INSTANCE BehaviourPlanner WITH
          mode  <- state,
          pub   <- [state |-> out.state, forced |-> out.forced,
                    onLine |-> out.line # NoWpnts],
          lease <- IF avoidance_wpnts = NoWpnts THEN 0 ELSE splini_ttl_counter
ImplementsPlanner == BP!Spec

\* From some point on no operator interferes.
Undisturbed ==
    /\ <>[][~parameters_callback]_vars
    /\ <>[]~params.force_state

\* From some point on no spline comes.
SplinerSilent ==
    <>[][\A data \in AvoidanceMsgs : ~avoidance_cb(data)]_vars

\* When the spliner falls silent the car stops following its last spline and
\* stops overtaking (time to live of main_loop_callback).
SplineForgotten ==
    SplinerSilent /\ Undisturbed =>
        <>[](out.line = NoWpnts /\ out.state # "OVERTAKE")

\* Once the raceline stays clear, the car close to it and the spliner silent,
\* every state, OVERTAKE and FTGONLY included, leads back to GB_TRACK.
BackToRaceline ==
    SplinerSilent /\ Undisturbed
    /\ <>[](check_gbfree /\ check_close_to_raceline) =>
        <>[](out.state = "GB_TRACK")

\* An overtake that stays possible (raceline blocked, enabled sector, an
\* available and clear line) is started and kept up, unless the machine is
\* in FTGONLY, which a blocked raceline never leaves.
OvertakePossible ==
    /\ state # "FTGONLY" /\ ~check_gbfree /\ check_ot_sector
    /\ check_availability_splini_wpts /\ LineClear(avoidance_wpnts.wpnts)
EventuallyOvertakes ==
    Undisturbed /\ <>[]OvertakePossible => <>[](out.state = "OVERTAKE")
=============================================================================
