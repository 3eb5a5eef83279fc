------------------------------ MODULE Tracking ------------------------------
(***************************************************************************)
(* The opponent tracking (node "tracking"): it associates the measured     *)
(* obstacles with those it tracks, classifies them as static or dynamic,   *)
(* and keeps one Kalman filter for the opponent.  A single threaded        *)
(* executor: callbacks and loops are atomic.                               *)
(*                                                                         *)
(* Positions are cells of the track, counted along the path; the lateral   *)
(* position is left out, and so is what only markers and messages show     *)
(* (ids, sizes, laps, visibility).  What depends on the spread of the      *)
(* positions or on the filter's gains is left open.                        *)
(***************************************************************************)
EXTENDS Integers, Sequences, SequencesExt

CONSTANTS
    TrackLength,
    Messages,            \* sequences of positions detection may publish
    CarPositions,        \* cells the car may be in
    Views,               \* sets of cells the laser scan may see into
    None,                \* no car state received yet
    max_dist, aggro_multiplier,
    MinVs, MaxVs,        \* bounds of a plausible speed, in cells per 3 loops
    min_nb_meas, ttl_static, ttl_dynamic,
    dist_deletion,
    MinUpdates,          \* updates after which vs_list may be long enough
    MaxTracked           \* bound: obstacles tracked at a time

Cells == 0..(TrackLength - 1)

ASSUME TrackingAssumption ==
    /\ TrackLength \in Nat \ {0}
    /\ Messages \subseteq Seq(Cells) /\ <<>> \in Messages
    /\ Views \subseteq SUBSET Cells /\ CarPositions \subseteq Cells
    /\ None \notin Cells
    /\ max_dist \in Nat /\ aggro_multiplier \in Nat \ {0}
    /\ MinVs \in Int /\ MaxVs \in Int
    /\ min_nb_meas \in Nat \ {0}     \* three positions when one is classified
    /\ ttl_static \in Nat \ {0} /\ ttl_dynamic \in Nat \ {0}
    /\ MinUpdates \in Nat /\ dist_deletion \in Nat

VARIABLES
    path_known, car_s,
    meas_obstacles,      \* the message received last; a loop does not clear it
    view,                \* where an obstacle would be seen: pose and scan
    publish_static, noMemoryMode,
    tracked_obstacles,
    opponent,
    unseen,              \* ghost: loops since a dynamic obstacle was measured
    dropped              \* ghost: loops in a row that ended without opponent
                         \* although they measured one obstacle, a dynamic one

inputs == <<path_known, car_s, meas_obstacles, view>>
tracking_vars == <<inputs, publish_static, noMemoryMode, tracked_obstacles,
                   opponent, unseen, dropped>>

TrackingInit ==
    /\ path_known = FALSE /\ car_s = None
    /\ meas_obstacles = <<>> /\ view = {}
    /\ publish_static = TRUE /\ noMemoryMode = FALSE
    /\ tracked_obstacles = <<>>
    /\ opponent = [isInitialised |-> FALSE, s |-> 0, ttl |-> 0, updates |-> 0,
                   useTargetVel |-> FALSE]
    /\ unseen = ttl_dynamic /\ dropped = 0

Distance(a, b) == IF a < b THEN b - a ELSE a - b

\* ObstacleSD.__init__; staticFlag None, True and False is "unknown", "static"
\* and "dynamic", and seen is a ghost: measured in the last loop.
NewObstacle(s) ==
    [measurments_s |-> <<s>>, mean |-> s, nb_meas |-> 0, kind |-> "unknown",
     ttl |-> ttl_static, seen |-> TRUE]

-----------------------------------------------------------------------------
(* Association and update of a tracked obstacle.                           *)

\* The place in left of the position nearest to s within reach, or 0; there
\* is no wrapping at the start line.
get_closest_pos(reach, s, left) ==
    IF \A k \in DOMAIN left : Distance(left[k], s) >= reach THEN 0
    ELSE CHOOSE k \in DOMAIN left : \A j \in DOMAIN left :
            \/ Distance(left[k], s) < Distance(left[j], s)
            \/ Distance(left[k], s) = Distance(left[j], s) /\ k <= j

\* A dynamic obstacle is looked for where the filter is, then at its mean.
verify_position(obstacle, opp, left) ==
    LET reach == max_dist * aggro_multiplier
        predicted == get_closest_pos(reach, opp.s, left)
    IN  IF obstacle.kind # "dynamic" THEN get_closest_pos(max_dist, obstacle.mean, left)
        ELSE IF predicted # 0 THEN predicted
        ELSE get_closest_pos(reach, obstacle.mean, left)

\* The mean moves towards the measurement; the votes of isStatic are open.
update_tracked_obstacle(obstacle, s) ==
    LET positions == Append(obstacle.measurments_s, s)
        nb_meas == IF obstacle.nb_meas > min_nb_meas THEN obstacle.nb_meas   \* bound
                   ELSE obstacle.nb_meas + 1
    IN  [ measurments_s : {SubSeq(positions, IF Len(positions) > 3 THEN 2 ELSE 1,
                                  Len(positions))},
          mean : IF obstacle.nb_meas = 0 THEN {s} ELSE {s, obstacle.mean},
          nb_meas : {nb_meas},
          kind : IF nb_meas > min_nb_meas THEN {"static", "dynamic"} ELSE {"unknown"},
          ttl : {ttl_static}, seen : {TRUE} ]

\* The speed of the last three positions, which jumps at the start line.
Vs(p) == LET n == Len(p) IN 2 * (p[n] - p[n - 1]) + (p[n - 1] - p[n - 2])
Plausible(obstacle) ==
    MinVs < Vs(obstacle.measurments_s) /\ Vs(obstacle.measurments_s) < MaxVs

\* Faulty: the filter runs on beyond the start line.
RunsOn(opp) ==
    IF ~opp.isInitialised THEN {opp} ELSE {[opp EXCEPT !.s = s] : s \in {opp.s, opp.s + 1}}

\* Opponent_state.predict
predict(opp) ==
    IF ~opp.isInitialised THEN {opp}
    ELSE {[opp EXCEPT !.s = s] : s \in {opp.s, (opp.s + 1) % TrackLength}}

\* What is not read before the next initialisation is cleared.
NotInitialised(opp) ==
    [opp EXCEPT !.isInitialised = FALSE, !.useTargetVel = FALSE, !.updates = 0, !.ttl = 0]

\* Opponent_state.update, and what the loop sets before and after it.
UpdatedOpponent(opp, obstacle) ==
    IF Plausible(obstacle)
    THEN [opp EXCEPT !.s = Last(obstacle.measurments_s),
                     !.updates = IF @ < MinUpdates THEN @ + 1 ELSE @,   \* bound
                     !.useTargetVel = FALSE, !.ttl = ttl_dynamic]
    ELSE NotInitialised(opp)

\* Faulty: a new opponent has to have a plausible speed, too.
PlausibleStart(opp, obstacle) ==
    [opp EXCEPT !.isInitialised = Plausible(obstacle), !.updates = 0,
                !.s = Last(obstacle.measurments_s), !.ttl = ttl_dynamic]

initialize_dynamic_obstacle(opp, obstacle) ==
    [opp EXCEPT !.isInitialised = TRUE, !.updates = 0,
                !.s = Last(obstacle.measurments_s), !.ttl = ttl_dynamic]

\* The possible opponents and obstacles when a dynamic obstacle is measured; a
\* slow opponent of some updates becomes a static obstacle.
Follow(opp, obstacle) ==
    IF obstacle.kind # "dynamic" THEN {<<opp, obstacle>>}
    ELSE IF ~opp.isInitialised
    THEN {<<initialize_dynamic_obstacle(opp, obstacle), obstacle>>}
    ELSE {<<UpdatedOpponent(opp, obstacle), obstacle>>} \cup
         (IF opp.updates < MinUpdates \/ ~publish_static THEN {}
          ELSE {<<NotInitialised(opp), [obstacle EXCEPT !.kind = "static", !.nb_meas = 0]>>})

-----------------------------------------------------------------------------
(* The loop.                                                               *)

NearCar(obstacle) ==
    (Last(obstacle.measurments_s) - car_s) % TrackLength < dist_deletion

\* Faulty: the time to live of a dynamic obstacle does not run down.
MissedStatic(obstacle) ==
    [obstacle EXCEPT !.seen = FALSE, !.ttl = IF obstacle.kind = "dynamic" THEN @ ELSE @ - 1]

\* An obstacle that was not measured: a static one loses time only in view
\* near the car, where it should have been seen.
Missed(obstacle) ==
    LET InView == NearCar(obstacle) /\ obstacle.mean \in view
    IN  IF obstacle.kind # "static" \/ noMemoryMode
        THEN [obstacle EXCEPT !.seen = FALSE, !.ttl = @ - 1]
        ELSE [obstacle EXCEPT !.seen = FALSE, !.ttl = IF InView THEN @ - 1 ELSE @]

\* Faulty: a measurement can be assigned again.
LeftAsIs(left, k) == left

Without(left, k) == RemoveAt(left, k)

\* One round of the loop over the tracked obstacles, from an outcome of the
\* rounds before (measurements not yet assigned, opponent, obstacles kept), when
\* the measurement of the obstacle is at place k of them, or missing.
AssociateOne(o, obstacle, k) ==
    IF k # 0
    THEN UNION { { [left |-> Without(o.left, k), opp |-> followed[1],
                    kept |-> Append(o.kept, followed[2]),
                    dynamic |-> o.dynamic \/ updated.kind = "dynamic"] :
                   followed \in Follow(o.opp, updated) } :
                 updated \in update_tracked_obstacle(obstacle, o.left[k]) }
    ELSE IF obstacle.ttl <= 0
    THEN { [o EXCEPT !.opp.useTargetVel = @ \/ obstacle.kind = "dynamic"] }
    ELSE { [o EXCEPT !.kept = Append(@, Missed(obstacle))] }

Associate(outcomes, obstacle) ==
    UNION { AssociateOne(o, obstacle, verify_position(obstacle, o.opp, o.left)) :
            o \in outcomes }

\* Faulty: the opponent's time to live does not run down.
StaysAlive(opp) == opp

\* The opponent's time to live, also in the loop that has set it.
CountedDown(opp) ==
    IF ~opp.isInitialised THEN opp
    ELSE IF opp.ttl <= 0 THEN NotInitialised(opp)
    ELSE [opp EXCEPT !.ttl = @ - 1]

Outcomes ==
    LET after[k \in 0..Len(tracked_obstacles)] ==
            IF k = 0
            THEN {[left |-> meas_obstacles, opp |-> opp, kept |-> <<>>, dynamic |-> FALSE] :
                    opp \in predict(opponent)}
            ELSE Associate(after[k - 1], tracked_obstacles[k])
    IN  after[Len(tracked_obstacles)]

loop ==
    /\ path_known /\ car_s # None
    /\ UNCHANGED <<inputs, publish_static, noMemoryMode>>
    /\ \E o \in Outcomes :
          /\ tracked_obstacles' = o.kept \o [k \in DOMAIN o.left |-> NewObstacle(o.left[k])]
          /\ opponent' = CountedDown(o.opp)
          /\ unseen' = IF o.dynamic THEN 0
                       ELSE IF opponent'.isInitialised /\ unseen < ttl_dynamic
                       THEN unseen + 1 ELSE ttl_dynamic     \* bound
          /\ dropped' = IF ~o.dynamic \/ opponent'.isInitialised \/ Len(meas_obstacles) # 1
                        THEN 0 ELSE IF dropped < 2 THEN dropped + 1 ELSE 2      \* bound
    /\ Len(tracked_obstacles') <= MaxTracked

\* What publishObstacles makes of it: the opponent, unless the filter is too
\* uncertain, and the obstacles that are not dynamic if publish_static.
PublishesOpponent == opponent.isInitialised

-----------------------------------------------------------------------------
(* The callbacks.                                                          *)

obstacleCallback(data) ==
    /\ meas_obstacles' = data
    /\ UNCHANGED <<path_known, car_s, view, publish_static, noMemoryMode,
                   tracked_obstacles, opponent, unseen, dropped>>

\* Only the first path is taken.
pathCallback ==
    /\ path_known' = TRUE
    /\ UNCHANGED <<car_s, meas_obstacles, view, publish_static, noMemoryMode,
                   tracked_obstacles, opponent, unseen, dropped>>

carStateCallback(s) ==
    /\ car_s' = s
    /\ UNCHANGED <<path_known, meas_obstacles, view, publish_static, noMemoryMode,
                   tracked_obstacles, opponent, unseen, dropped>>

\* scansCallback and carStateGlobCallback
scansCallback(seen) ==
    /\ view' = seen
    /\ UNCHANGED <<path_known, car_s, meas_obstacles, publish_static, noMemoryMode,
                   tracked_obstacles, opponent, unseen, dropped>>

\* aggro_multi is stored where nothing reads it.
dyn_param_cb ==
    /\ publish_static' \in BOOLEAN /\ noMemoryMode' \in BOOLEAN
    /\ UNCHANGED <<inputs, tracked_obstacles, opponent, unseen, dropped>>

TrackingNext ==
    \/ \E data \in Messages : obstacleCallback(data)
    \/ pathCallback
    \/ \E s \in CarPositions : carStateCallback(s)
    \/ \E seen \in Views : scansCallback(seen)
    \/ dyn_param_cb
    \/ loop

\* The timer fires whatever the callbacks do.
TrackingSpec ==
    TrackingInit /\ [][TrackingNext]_tracking_vars /\ WF_tracking_vars(loop)

-----------------------------------------------------------------------------
(* Correctness.                                                            *)

Obstacles ==
    [measurments_s : Seq(Cells), mean : Cells, nb_meas : 0..(min_nb_meas + 1),
     kind : {"unknown", "static", "dynamic"}, ttl : 0..ttl_static,
     seen : BOOLEAN]

TrackingTypeOK ==
    /\ path_known \in BOOLEAN /\ car_s \in CarPositions \cup {None}
    /\ meas_obstacles \in Messages /\ view \in Views \cup {{}}
    /\ publish_static \in BOOLEAN /\ noMemoryMode \in BOOLEAN
    /\ \A k \in DOMAIN tracked_obstacles : tracked_obstacles[k] \in Obstacles
    /\ opponent \in [isInitialised : BOOLEAN, s : Cells, ttl : 0..ttl_dynamic,
                     updates : 0..MinUpdates,
                     useTargetVel : BOOLEAN]
    /\ unseen \in 0..ttl_dynamic /\ dropped \in 0..2

\* README.md: "ttl_dynamic: The time-to-live of the dynamic prediction for the
\* opponent obstacle".  The opponent is published for less than that many loops
\* after a dynamic obstacle was measured, whatever was initialised, reset or
\* removed meanwhile.
Forgets == PublishesOpponent => unseen < ttl_dynamic

\* A measured obstacle is that of one tracked obstacle, although a dynamic one
\* looks where the filter is, not where it was itself: none is lost between two
\* that want it, and none keeps two alive (update).
OneObstacleEach ==
    [][Cardinality({k \in DOMAIN tracked_obstacles' : tracked_obstacles'[k].seen})
          = Len(meas_obstacles)]_tracked_obstacles

\* An opponent that crosses the start line gets an implausible speed and is
\* dropped (Opponent_state.update); if it stays in sight that lasts one loop.
ComesBack == dropped <= 1

\* When nothing is measured for good, the opponent is forgotten, and what is
\* still tracked in the end is static and out of the car's sight.
Vanishes ==
    \A s \in CarPositions :
        <>[](path_known /\ car_s = s /\ meas_obstacles = <<>> /\ view = Cells) =>
            <>[]( /\ ~PublishesOpponent
                  /\ \A k \in DOMAIN tracked_obstacles :
                        /\ tracked_obstacles[k].kind = "static"
                        /\ ~NearCar(tracked_obstacles[k]) )
=============================================================================
