--------------------------- MODULE OvertakingProofs ---------------------------
(***************************************************************************)
(* Proofs about the state machine, for every track, obstacle array,        *)
(* sector, waypoint list, time to live and threshold, and about the        *)
(* overtaking pipeline it is part of: there it runs by its own             *)
(* specification, and so does the spliner.                                 *)
(***************************************************************************)
EXTENDS Overtaking, TLAPS

USE DEF StateType

-----------------------------------------------------------------------------
(* What the helpers return.                                                *)

\* The transition function returns a state of the machine from every state.
LEMMA TransitionType ==
    ASSUME state \in StateType, NEW line
    PROVE  head_to_head_transition(line) \in StateType
<1>1. CASE state = "GB_TRACK"
  <2>1. SpliniGlobalTrackingTransition \in StateType
    BY DEF SpliniGlobalTrackingTransition
  <2> QED BY <1>1, <2>1 DEF head_to_head_transition
<1>2. CASE state = "TRAILING"
  <2>1. SpliniTrailingTransition(line) \in StateType
    BY DEF SpliniTrailingTransition
  <2> QED BY <1>2, <2>1 DEF head_to_head_transition
<1>3. CASE state = "OVERTAKE"
  <2>1. SpliniOvertakingTransition(line) \in StateType
    BY DEF SpliniOvertakingTransition
  <2> QED BY <1>3, <2>1 DEF head_to_head_transition
<1>4. CASE state = "FTGONLY"
  <2>1. SpliniFTGOnlyTransition \in StateType
    BY DEF SpliniFTGOnlyTransition
  <2> QED BY <1>4, <2>1 DEF head_to_head_transition
<1> QED BY <1>1, <1>2, <1>3, <1>4

\* The transition function returns OVERTAKE only from TRAILING or OVERTAKE,
\* inside an enabled sector, with an available message and a clear line.
LEMMA OvertakeGuard ==
    ASSUME state \in StateType, NEW line,
           head_to_head_transition(line) = "OVERTAKE"
    PROVE  /\ state \in {"TRAILING", "OVERTAKE"}
           /\ EvaluatesAvailability
           /\ check_availability_splini_wpts
           /\ check_ofree(line)
           /\ check_ot_sector
<1>1. state # "GB_TRACK"
  BY DEF head_to_head_transition, SpliniGlobalTrackingTransition
<1>2. state # "FTGONLY"
  BY DEF head_to_head_transition, SpliniFTGOnlyTransition
<1>3. CASE state = "TRAILING"
  <2>1. SpliniTrailingTransition(line) = "OVERTAKE"
    BY <1>3 DEF head_to_head_transition
  <2> QED BY <1>3, <2>1 DEF SpliniTrailingTransition, EvaluatesAvailability
<1>4. CASE state = "OVERTAKE"
  <2>1. SpliniOvertakingTransition(line) = "OVERTAKE"
    BY <1>4 DEF head_to_head_transition
  <2> QED BY <1>4, <2>1 DEF SpliniOvertakingTransition, EvaluatesAvailability
<1> QED BY <1>1, <1>2, <1>3, <1>4

\* No follow-the-gap zone exists and the standstill timer is off, so the
\* transition function returns FTGONLY only from FTGONLY.
LEMMA FtgGuard ==
    ASSUME state \in StateType, NEW line,
           head_to_head_transition(line) = "FTGONLY"
    PROVE  state = "FTGONLY"
<1>1. ~check_only_ftg_zone /\ ~check_ftg
  BY DEF check_only_ftg_zone, only_ftg_zones, check_ftg, ftg_disabled
<1>2. state # "GB_TRACK"
  BY <1>1 DEF head_to_head_transition, SpliniGlobalTrackingTransition
<1>3. state # "TRAILING"
  BY <1>1 DEF head_to_head_transition, SpliniTrailingTransition
<1>4. state # "OVERTAKE"
  BY <1>1 DEF head_to_head_transition, SpliniOvertakingTransition
<1> QED BY <1>2, <1>3, <1>4

\* What a main loop that publishes OVERTAKE by itself has found: the cache
\* was refreshed from the held message, so that is the line it publishes.
LEMMA UnforcedOvertake ==
    ASSUME TypeOK, main_loop_callback,
           out'.state = "OVERTAKE", ~out'.forced
    PROVE  /\ state \in {"TRAILING", "OVERTAKE"}
           /\ Refreshes
           /\ check_ot_sector
           /\ check_ofree(avoidance_wpnts.wpnts)
           /\ avoidance_wpnts # NoWpnts
           /\ avoidance_wpnts.wpnts \in AvoidanceLines
           /\ avoidance_wpnts.wpnts # NoWpnts
           /\ out'.line = avoidance_wpnts.wpnts
           /\ out'.age = msg_age
<1> DEFINE line == UpdatedCache
<1>1. ~params.force_state /\ NextState(line) = "OVERTAKE"
  BY DEF main_loop_callback
<1>2. head_to_head_transition(line) = "OVERTAKE"
  BY <1>1 DEF NextState
<1>3. /\ state \in {"TRAILING", "OVERTAKE"}
      /\ EvaluatesAvailability
      /\ check_availability_splini_wpts
      /\ check_ofree(line)
      /\ check_ot_sector
  <2>1. state \in StateType
    BY DEF TypeOK
  <2> HIDE DEF line
  <2> QED BY <1>2, <2>1, OvertakeGuard
<1>4. Refreshes
  BY <1>1, <1>3 DEF Refreshes
<1>5. line = avoidance_wpnts.wpnts
  BY <1>4 DEF UpdatedCache
<1>6. avoidance_wpnts # NoWpnts
  BY <1>3 DEF check_availability_splini_wpts
<1>7. avoidance_wpnts.wpnts \in AvoidanceLines
  BY <1>6, WpntsAssumption DEF TypeOK
<1>8. avoidance_wpnts.wpnts # NoWpnts
  BY <1>7, WpntsAssumption
<1>9. out'.line = line /\ out'.age = msg_age
  BY <1>1, <1>4, <1>5, <1>8 DEF main_loop_callback, DefaultStateLogic
<1> QED BY <1>3, <1>4, <1>5, <1>6, <1>7, <1>8, <1>9

-----------------------------------------------------------------------------
(* The inductive invariant.  CacheUnderLease bounds the age of the held    *)
(* message by what is left of its time to live; OvertakeOnLiveLine follows *)
(* for a loop that publishes OVERTAKE because that loop has just copied    *)
(* the held message.                                                       *)

\* The inductive invariant of the state machine alone: the lease that the
\* published line needs.
IInv == TypeOK /\ CacheUnderLease /\ OvertakeOnLiveLine

\* The initial states satisfy the invariant.
LEMMA InitIInv == Init => IInv
<1> SUFFICES ASSUME Init PROVE IInv
  OBVIOUS
<1> USE TtlAssumption, StatesAssumption, PositionsAssumption DEF Init
<1>1. TypeOK
  <2>1. car \in Nat \X Int
    OBVIOUS
  <2>2. params \in Params
    BY DEF Params
  <2>3. out \in Outputs
    BY DEF Outputs
  <2> QED BY <2>1, <2>2, <2>3 DEF TypeOK
<1>2. CacheUnderLease
  BY DEF CacheUnderLease
<1>3. OvertakeOnLiveLine
  BY DEF OvertakeOnLiveLine
<1> QED BY <1>1, <1>2, <1>3 DEF IInv

\* The callbacks of the sensors leave the planner's own variables alone.
LEMMA SenseIInv ==
    ASSUME IInv, Sense
    PROVE  IInv'
<1> USE DEF IInv, Sense, glb_wpnts_scaled_cb, car_state_frenet_cb,
            obstacles_cb, ot_flag_cb, spline_vars
<1>1. UNCHANGED <<state, spline_vars, params, out>>
  OBVIOUS
<1>2. TypeOK'
  <2>1. car' \in Nat \X Int
    BY PositionsAssumption DEF TypeOK
  <2>2. track_length' \in TrackLengths
    BY DEF TypeOK
  <2>3. ot_flag' \in [Sectors -> BOOLEAN]
    BY DEF TypeOK
  <2> QED BY <1>1, <2>1, <2>2, <2>3 DEF TypeOK
<1>3. CacheUnderLease'
  BY <1>1 DEF CacheUnderLease
<1>4. OvertakeOnLiveLine'
  BY <1>1 DEF OvertakeOnLiveLine
<1> QED BY <1>2, <1>3, <1>4

\* A message takes the lease; an empty one changes nothing.
LEMMA AvoidIInv ==
    ASSUME IInv, NEW data \in AvoidanceMsgs \cup {NoWpnts}, avoidance_cb(data)
    PROVE  IInv'
<1> USE TtlAssumption DEF IInv, avoidance_cb, sensed
<1>1. params.splini_ttl \in 1..TtlMax
  BY DEF TypeOK, Params
<1>2. TypeOK'
  BY <1>1 DEF TypeOK
<1>3. CacheUnderLease'
  BY <1>1 DEF CacheUnderLease, TypeOK
<1>4. OvertakeOnLiveLine'
  BY DEF OvertakeOnLiveLine
<1> QED BY <1>2, <1>3, <1>4

\* A change of a parameter leaves the cache, its lease and the last
\* publication alone.
LEMMA ParametersIInv ==
    ASSUME IInv, parameters_callback
    PROVE  IInv'
<1> USE DEF IInv, sensed, spline_vars
<1>1. /\ UNCHANGED <<sensed, spline_vars, out>>
      /\ state' \in StateType
      /\ params' \in Params
  <2> USE StatesAssumption DEF TypeOK, Params
  <2>1. CASE \E value \in BOOLEAN : set_force_state(value)
    BY <2>1 DEF set_force_state
  <2>2. CASE \E value \in OperatorStates : set_force_state_choice(value)
    BY <2>2 DEF set_force_state_choice
  <2>3. CASE \E value \in OperatorStates : set_initial_state(value)
    BY <2>3 DEF set_initial_state
  <2>4. CASE \E value \in TtlChoices : set_splini_ttl(value)
    BY <2>4 DEF set_splini_ttl
  <2> QED BY <2>1, <2>2, <2>3, <2>4 DEF parameters_callback
<1>2. TypeOK'
  BY <1>1 DEF TypeOK
<1>3. CacheUnderLease'
  BY <1>1 DEF CacheUnderLease
<1>4. OvertakeOnLiveLine'
  BY <1>1 DEF OvertakeOnLiveLine
<1> QED BY <1>2, <1>3, <1>4

\* The cache after its update is a line or nothing, and a line only if a
\* message is held.
LEMMA CacheType ==
    ASSUME TypeOK, CacheUnderLease
    PROVE  /\ UpdatedCache \in AvoidanceLines \cup {NoWpnts}
           /\ UpdatedCache # NoWpnts => avoidance_wpnts # NoWpnts
<1>1. CASE Refreshes
  <2>1. avoidance_wpnts # NoWpnts
    BY <1>1 DEF Refreshes, check_availability_splini_wpts
  <2>2. avoidance_wpnts.wpnts \in AvoidanceLines
    BY <2>1, WpntsAssumption DEF TypeOK
  <2> QED BY <1>1, <2>1, <2>2 DEF UpdatedCache
<1>2. CASE ~Refreshes
  BY <1>2 DEF UpdatedCache, TypeOK, CacheUnderLease
<1> QED BY <1>1, <1>2

\* One main loop.
LEMMA MainLoopIInv ==
    ASSUME IInv, main_loop_callback
    PROVE  IInv'
<1> USE DEF IInv
<1> DEFINE line == UpdatedCache
           age  == IF Refreshes THEN msg_age ELSE cache_age
           next == NextState(line)
           used == DefaultStateLogic(next, line)
<1>1. line \in AvoidanceLines \cup {NoWpnts} /\ (line # NoWpnts => avoidance_wpnts # NoWpnts)
  BY CacheType
<1>2. next \in StateType
  BY TransitionType DEF NextState, TypeOK, Params
<1>3. age \in 0..AgeCap
  BY DEF TypeOK
<1>4. used \in AvoidanceLines \cup {NoWpnts}
  BY <1>1 DEF DefaultStateLogic
<1>5. /\ state' = next
      /\ out' = [state |-> next, forced |-> params.force_state, line |-> used,
                 age |-> IF used = NoWpnts THEN 0 ELSE age]
      /\ splini_ttl_counter' = IF Expired THEN -1 ELSE splini_ttl_counter - 1
      /\ last_valid_avoidance_wpnts' = IF Expired THEN NoWpnts ELSE line
      /\ avoidance_wpnts' = IF Expired THEN NoWpnts ELSE avoidance_wpnts
      /\ msg_age' = IF avoidance_wpnts' = NoWpnts THEN 0 ELSE Older(msg_age)
      /\ cache_age' = IF last_valid_avoidance_wpnts' = NoWpnts THEN 0 ELSE Older(age)
      /\ UNCHANGED <<car, track_length, obstacles, ot_flag, params>>
  BY DEF main_loop_callback, sensed, CountedDown, Kept
<1> HIDE DEF line, next, used, age
<1>6. TypeOK'
  <2>1. out' \in Outputs
    <3>1. (IF used = NoWpnts THEN 0 ELSE age) \in 0..AgeCap
      BY <1>3, TtlAssumption
    <3>2. params.force_state \in BOOLEAN
      BY DEF TypeOK, Params
    <3> QED BY <1>2, <1>4, <1>5, <3>1, <3>2 DEF Outputs
  <2>2. splini_ttl_counter' \in -1..TtlMax
    BY <1>5, TtlAssumption DEF TypeOK, Expired
  <2>3. msg_age' \in 0..AgeCap /\ cache_age' \in 0..AgeCap
    BY <1>3, <1>5, TtlAssumption DEF TypeOK, Older
  <2>4. avoidance_wpnts' \in AvoidanceMsgs \cup {NoWpnts}
    BY <1>5 DEF TypeOK
  <2>5. last_valid_avoidance_wpnts' \in AvoidanceLines \cup {NoWpnts}
    BY <1>1, <1>5
  <2> QED BY <1>2, <1>5, <2>1, <2>2, <2>3, <2>4, <2>5 DEF TypeOK
<1>7. CacheUnderLease'
  <2>1. CASE Expired
    BY <1>5, <2>1 DEF CacheUnderLease
  <2>2. CASE ~Expired
    <3>1. avoidance_wpnts' # NoWpnts =>
              splini_ttl_counter' >= 1 /\ splini_ttl_counter' + msg_age' <= TtlMax
      BY <1>5, <2>2, TtlAssumption DEF CacheUnderLease, TypeOK, Expired, Older
    <3>2. last_valid_avoidance_wpnts' # NoWpnts => avoidance_wpnts' # NoWpnts
      BY <1>1, <1>5, <2>2
    <3> QED BY <3>1, <3>2 DEF CacheUnderLease
  <2> QED BY <2>1, <2>2
<1>8. OvertakeOnLiveLine'
  <2> SUFFICES ASSUME out'.state = "OVERTAKE", ~out'.forced
               PROVE  out'.line # NoWpnts /\ out'.age < TtlMax
    BY DEF OvertakeOnLiveLine
  <2>1. /\ avoidance_wpnts # NoWpnts
        /\ out'.line # NoWpnts
        /\ out'.age = msg_age
    BY UnforcedOvertake
  <2>2. splini_ttl_counter >= 1 /\ splini_ttl_counter + msg_age <= TtlMax
    BY <2>1 DEF CacheUnderLease
  <2> QED BY <2>1, <2>2, TtlAssumption DEF TypeOK
<1> QED BY <1>6, <1>7, <1>8

\* Every step keeps the invariant.
LEMMA NextIInv == IInv /\ [Next]_vars => IInv'
<1> SUFFICES ASSUME IInv, [Next]_vars PROVE IInv'
  OBVIOUS
<1>1. CASE Sense
  BY <1>1, SenseIInv
<1>2. CASE Avoid
  BY <1>2, AvoidIInv DEF Avoid
<1>3. CASE parameters_callback
  BY <1>3, ParametersIInv
<1>4. CASE main_loop_callback
  BY <1>4, MainLoopIInv
<1>5. CASE UNCHANGED vars
  BY <1>5 DEF vars, sensed, spline_vars, IInv, TypeOK, CacheUnderLease,
              OvertakeOnLiveLine
<1> QED BY <1>1, <1>2, <1>3, <1>4, <1>5 DEF Next

-----------------------------------------------------------------------------
(* The theorems.                                                           *)

\* The strengthened invariant holds in every reachable state.
THEOREM Invariance == Spec => []IInv
<1>1. Init => IInv
  BY InitIInv
<1>2. IInv /\ [Next]_vars => IInv'
  BY NextIInv
<1> QED BY <1>1, <1>2, PTL DEF Spec

\* Type correctness.
THEOREM TypeCorrect == Spec => []TypeOK
<1>1. IInv => TypeOK
  BY DEF IInv
<1> QED BY <1>1, Invariance, PTL

\* The held message and the cached spline live within their time to live.
THEOREM CacheLease == Spec => []CacheUnderLease
<1>1. IInv => CacheUnderLease
  BY DEF IInv
<1> QED BY <1>1, Invariance, PTL

\* An OVERTAKE that is not forced always follows a live spline.
THEOREM OvertakeLive == Spec => []OvertakeOnLiveLine
<1>1. IInv => OvertakeOnLiveLine
  BY DEF IInv
<1> QED BY <1>1, Invariance, PTL

\* The loop that publishes OVERTAKE has checked the line it publishes.
THEOREM OvertakeChecked == Spec => OvertakeIsChecked
<1> DEFINE Checked ==
      main_loop_callback /\ out'.state = "OVERTAKE" /\ ~out'.forced =>
          /\ avoidance_wpnts # NoWpnts
          /\ out'.line = avoidance_wpnts.wpnts
          /\ LineClear(out'.line)
          /\ avoidance_wpnts.since_switch >= splini_hyst_timer_sec
          /\ check_ot_sector
<1>1. TypeOK /\ [Next]_vars => [Checked]_vars
  <2> SUFFICES ASSUME TypeOK, main_loop_callback,
                      out'.state = "OVERTAKE", ~out'.forced
               PROVE  /\ avoidance_wpnts # NoWpnts
                      /\ out'.line = avoidance_wpnts.wpnts
                      /\ LineClear(out'.line)
                      /\ avoidance_wpnts.since_switch >= splini_hyst_timer_sec
                      /\ check_ot_sector
    OBVIOUS
  <2>1. /\ Refreshes
        /\ check_ot_sector
        /\ check_ofree(avoidance_wpnts.wpnts)
        /\ avoidance_wpnts # NoWpnts
        /\ avoidance_wpnts.wpnts # NoWpnts
        /\ out'.line = avoidance_wpnts.wpnts
    BY UnforcedOvertake
  <2>2. LineClear(avoidance_wpnts.wpnts)
    BY <2>1 DEF check_ofree, LineClear
  <2>3. avoidance_wpnts.since_switch >= splini_hyst_timer_sec
    BY <2>1 DEF Refreshes, check_availability_splini_wpts
  <2> QED BY <2>1, <2>2, <2>3
<1> QED BY <1>1, TypeCorrect, PTL DEF Spec, OvertakeIsChecked

-----------------------------------------------------------------------------
(* The refinement.                                                         *)

\* The published record and the lease the abstract specification sees.
PubOf == [state |-> out.state, forced |-> out.forced, onLine |-> out.line # NoWpnts]
LeaseOf == IF avoidance_wpnts = NoWpnts THEN 0 ELSE splini_ttl_counter

\* A new message renews the lease.
LEMMA AvoidRefines ==
    ASSUME IInv, NEW data \in AvoidanceMsgs \cup {NoWpnts}, avoidance_cb(data)
    PROVE  BP!Renew \/ UNCHANGED BP!vars
<1>1. UNCHANGED <<state, out>>
  BY DEF avoidance_cb
<1>2. CASE data = NoWpnts
  BY <1>1, <1>2 DEF avoidance_cb, BP!vars
<1>3. CASE data # NoWpnts
  <2>1. params.splini_ttl \in 1..TtlMax
    BY TtlAssumption DEF IInv, TypeOK, Params
  <2>2. avoidance_wpnts' # NoWpnts /\ splini_ttl_counter' = params.splini_ttl
    BY <1>3 DEF avoidance_cb
  <2> QED BY <1>1, <2>1, <2>2 DEF BP!Renew
<1> QED BY <1>2, <1>3

\* A main loop is a cycle.
LEMMA MainLoopRefines ==
    ASSUME IInv, main_loop_callback
    PROVE  BP!Cycle
<1> USE DEF IInv
<1> DEFINE line == UpdatedCache
           next == NextState(line)
           used == DefaultStateLogic(next, line)
           forced == params.force_state
           onLine == used # NoWpnts
<1>1. /\ state' = next
      /\ out'.state = next
      /\ out'.forced = forced
      /\ out'.line = used
      /\ splini_ttl_counter' = IF Expired THEN -1 ELSE splini_ttl_counter - 1
      /\ avoidance_wpnts' = IF Expired THEN NoWpnts ELSE avoidance_wpnts
  BY DEF main_loop_callback, CountedDown, Kept
<1>2. next \in StateType
  BY TransitionType DEF NextState, TypeOK, Params
<1>3. forced \in BOOLEAN /\ onLine \in BOOLEAN
  BY DEF TypeOK, Params
<1>4. LeaseOf' = IF LeaseOf = 0 THEN 0 ELSE LeaseOf - 1
  BY <1>1 DEF LeaseOf, CacheUnderLease, TypeOK, Expired
<1>5. onLine => LeaseOf > 0 /\ next \in {"TRAILING", "OVERTAKE"}
  <2> SUFFICES ASSUME onLine
               PROVE  LeaseOf > 0 /\ next \in {"TRAILING", "OVERTAKE"}
    OBVIOUS
  <2>1. next \in {"TRAILING", "OVERTAKE"} /\ used = line
    BY DEF DefaultStateLogic
  <2>2. avoidance_wpnts # NoWpnts
    BY <2>1, CacheType
  <2>3. LeaseOf > 0
    BY <2>2 DEF LeaseOf, CacheUnderLease, TypeOK
  <2> QED BY <2>1, <2>3
<1>6. ~forced /\ next = "OVERTAKE" => onLine /\ state \in {"TRAILING", "OVERTAKE"}
  <2> SUFFICES ASSUME ~forced, next = "OVERTAKE"
               PROVE  onLine /\ state \in {"TRAILING", "OVERTAKE"}
    OBVIOUS
  <2>1. out'.state = "OVERTAKE" /\ ~out'.forced
    BY <1>1
  <2>2. /\ state \in {"TRAILING", "OVERTAKE"}
        /\ avoidance_wpnts.wpnts # NoWpnts
        /\ out'.line = avoidance_wpnts.wpnts
    BY <2>1, UnforcedOvertake
  <2> QED BY <1>1, <2>2
<1>7. ~forced /\ next = "FTGONLY" => state = "FTGONLY"
  BY FtgGuard DEF NextState, TypeOK
<1>8. PubOf' = [state |-> state', forced |-> forced, onLine |-> onLine]
  BY <1>1 DEF PubOf
<1> HIDE DEF line, next, used, forced, onLine
<1> QED BY <1>1, <1>2, <1>3, <1>4, <1>5, <1>6, <1>7, <1>8
        DEF BP!Cycle, BP!StateType, LeaseOf, PubOf

\* StateMachine implements BehaviourPlanner: what it publishes follows a
\* spline only under a lease renewed by messages.
THEOREM Refinement == Spec => ImplementsPlanner
<1>1. Init => BP!Init
  <2> SUFFICES ASSUME Init PROVE BP!Init
    OBVIOUS
  <2>1. out.state = "none" /\ out.forced = FALSE /\ (out.line # NoWpnts) = FALSE
    BY DEF Init
  <2>2. avoidance_wpnts = NoWpnts /\ state = initial_state
    BY DEF Init
  <2> QED BY <2>1, <2>2, Zenon DEF BP!Init
<1>2. IInv /\ [Next]_vars => [BP!Next]_(BP!vars)
  <2> SUFFICES ASSUME IInv, [Next]_vars PROVE BP!Next \/ UNCHANGED BP!vars
    OBVIOUS
  <2>1. CASE Sense
    BY <2>1 DEF Sense, glb_wpnts_scaled_cb, car_state_frenet_cb, obstacles_cb,
                ot_flag_cb, spline_vars, BP!vars
  <2>2. CASE Avoid
    BY <2>2, AvoidRefines DEF Avoid, BP!Next
  <2>3. CASE parameters_callback
    <3>1. UNCHANGED <<spline_vars, out>> /\ state' \in StateType
      BY <2>3, StatesAssumption
         DEF parameters_callback, set_force_state, set_force_state_choice,
             set_initial_state, set_splini_ttl, IInv, TypeOK
    <3> QED BY <3>1 DEF spline_vars, BP!Next, BP!SetMode, BP!StateType
  <2>4. CASE main_loop_callback
    BY <2>4, MainLoopRefines DEF BP!Next
  <2>5. CASE UNCHANGED vars
    BY <2>5 DEF vars, spline_vars, BP!vars
  <2> QED BY <2>1, <2>2, <2>3, <2>4, <2>5 DEF Next
<1> QED BY <1>1, <1>2, Invariance, PTL DEF Spec, ImplementsPlanner, BP!Spec

-----------------------------------------------------------------------------
(* The pipeline: the spliner's lines.                                      *)

\* What is known of an obstacle near the raceline.
LEMMA PropagatedTypes ==
    ASSUME obs \subseteq SP!Obstacles
    PROVE  SP!Propagated \subseteq SP!Obstacles /\ SP!CloseObstacles \subseteq SP!Obstacles
<1> USE GeometryAssumption DEF SP!Geometry
<1>1. ASSUME NEW o \in SP!Obstacles PROVE SP!predict_obs_movement(o) \in SP!Obstacles
  <2>1. (o.s_center + o.vs) % gb_max_s \in 0..(gb_max_s - 1)
    BY DEF SP!Obstacles
  <2>2. o.d_left + o.vd \in Int /\ o.d_center + o.vd \in Int /\ o.d_right + o.vd \in Int
    BY DEF SP!Obstacles
  <2> QED  BY <2>1, <2>2 DEF SP!predict_obs_movement, SP!Obstacles
<1>2. SP!Propagated \subseteq SP!Obstacles
  BY <1>1 DEF SP!Propagated
<1>3. SP!CloseObstacles \subseteq SP!Obstacles
  BY <1>1 DEF SP!CloseObstacles
<1> QED  BY <1>2, <1>3

\* The apex is on the side that is chosen, beyond the obstacle by the distance
\* to be kept, and if it is not dangerous, it keeps off the bound of that side.
LEMMA ApexEvades ==
    ASSUME NEW o \in SP!Obstacles, NEW side, NEW d,
           SP!more_space(o) = <<side, d>>, ~SP!TooCloseToBounds(side, d)
    PROVE  /\ side \in SP!Sides /\ d \in SP!Offsets(side)
           /\ side = "left" => d >= 0 /\ d >= o.d_left + evasion_dist
           /\ side = "right" => d <= 0 /\ d <= o.d_right - evasion_dist
           /\ side = "left" /\ d > spline_resolution => d <= d_left - spline_bound_mindist
           /\ side = "right" /\ -d > spline_resolution => -d <= d_right - spline_bound_mindist
<1> USE GeometryAssumption DEF SP!Geometry
<1>1. /\ o.d_left \in Int /\ o.d_right \in Int
      /\ evasion_dist \in Nat /\ spline_bound_mindist \in Nat /\ spline_resolution \in Nat
      /\ d_left \in Nat /\ d_right \in Nat
  BY DEF SP!Obstacles
<1>2. <<side, d>> \in {<<"left", SP!LeftApex(o)>>, <<"right", SP!RightApex(o)>>}
  BY DEF SP!more_space
<1>3. CASE side = "left" /\ d = SP!LeftApex(o)
  <2>1. d \in Nat /\ d >= o.d_left + evasion_dist
    BY <1>1, <1>3 DEF SP!LeftApex
  <2>2. d > spline_resolution => d <= d_left - spline_bound_mindist
    BY <1>1, <1>3, <2>1 DEF SP!TooCloseToBounds, SP!Magnitude
  <2>3. d \in SP!Offsets(side)
    BY <1>1, <1>3, <2>1, <2>2 DEF SP!Offsets
  <2> QED  BY <1>3, <2>1, <2>2, <2>3 DEF SP!Sides
<1>4. CASE side = "right" /\ d = SP!RightApex(o)
  <2>1. d \in Int /\ d <= 0 /\ d <= o.d_right - evasion_dist
    BY <1>1, <1>4 DEF SP!RightApex
  <2>2. -d > spline_resolution => -d <= d_right - spline_bound_mindist
    BY <1>1, <1>4, <2>1 DEF SP!TooCloseToBounds, SP!Magnitude
  <2>3. d \in SP!Offsets(side)
    BY <1>1, <1>4, <2>1, <2>2 DEF SP!Offsets
  <2> QED  BY <1>4, <2>1, <2>2, <2>3 DEF SP!Sides
<1> QED  BY <1>2, <1>3, <1>4

\* What a loop that evades plans.
LEMMA EvadeTypes ==
    ASSUME obs \subseteq SP!Obstacles, last_switch_age \in 0..AgeCap, SP!Evade
    PROVE  /\ evasion' \in SP!PlannedMsgs
           /\ evasion'.since_switch = last_switch_age
           /\ \E o \in SP!CloseObstacles :
                 LET d == evasion'.wpnts[1].d_m
                 IN  /\ SP!Closest(o) /\ evasion'.wpnts[1].s_m = o.s_center
                     /\ evasion'.ot_side = "left" =>
                           /\ d >= 0 /\ d >= o.d_left + evasion_dist
                           /\ d > spline_resolution => d <= d_left - spline_bound_mindist
                     /\ evasion'.ot_side = "right" =>
                           /\ d <= 0 /\ d <= o.d_right - evasion_dist
                           /\ -d > spline_resolution => -d <= d_right - spline_bound_mindist
<1> DEFINE side(o) == SP!more_space(o)[1]
           d(o) == SP!more_space(o)[2]
<1>1. PICK o \in SP!CloseObstacles :
        /\ SP!Closest(o)
        /\ ~SP!Danger(side(o), d(o))
        /\ evasion' = [wpnts |-> SP!Line(o, d(o)), ot_side |-> side(o),
                       since_switch |-> last_switch_age]
  BY DEF SP!Evade
<1>2. o \in SP!Obstacles /\ o.s_center \in 0..(gb_max_s - 1)
  BY PropagatedTypes DEF SP!Obstacles
<1>3. SP!more_space(o) = <<side(o), d(o)>>
  BY DEF SP!more_space
<1>4. ~SP!TooCloseToBounds(side(o), d(o))
  BY <1>1 DEF SP!Danger
<1> HIDE DEF side, d
<1>5. /\ side(o) \in SP!Sides /\ d(o) \in SP!Offsets(side(o))
      /\ side(o) = "left" => d(o) >= 0 /\ d(o) >= o.d_left + evasion_dist
      /\ side(o) = "right" => d(o) <= 0 /\ d(o) <= o.d_right - evasion_dist
      /\ side(o) = "left" /\ d(o) > spline_resolution =>
            d(o) <= d_left - spline_bound_mindist
      /\ side(o) = "right" /\ -d(o) > spline_resolution =>
            -d(o) <= d_right - spline_bound_mindist
  BY <1>2, <1>3, <1>4, ApexEvades
<1>6. SP!Line(o, d(o)) = SP!Line([s_center |-> o.s_center], d(o))
  BY DEF SP!Line
<1>7. evasion' \in SP!PlannedMsgs
  BY <1>1, <1>2, <1>5, <1>6 DEF SP!PlannedMsgs
<1>8. evasion'.wpnts[1].d_m = d(o) /\ evasion'.wpnts[1].s_m = o.s_center
  BY <1>1 DEF SP!Line
<1> QED  BY <1>1, <1>5, <1>7, <1>8

-----------------------------------------------------------------------------
(* The pipeline: cooling down.  The spliner has not aborted since the last  *)
(* switch it knows of, so the time since that switch, which every message   *)
(* carries, is no more than the time since the last abort.                  *)

\* A message in the topic.
Queued ==
    {m \in [msg : SP!PlannedMsgs \cup {NoWpnts}, abort_age : 0..AgeCap] :
        m.msg # NoWpnts => m.msg.since_switch <= m.abort_age}

SplinerInv ==
    /\ obs \subseteq SP!Obstacles /\ world \in ObstacleArrays
    /\ last_switch_age \in 0..AgeCap /\ abort_age \in 0..AgeCap
    /\ last_switch_age <= abort_age

\* The message held is one the spliner planned, and its last switch is no older
\* than the last abort before it.
HeldInv ==
    /\ held_abort_age \in 0..AgeCap
    /\ avoidance_wpnts \in SP!PlannedMsgs \cup {NoWpnts}
    /\ avoidance_wpnts # NoWpnts => avoidance_wpnts.since_switch <= held_abort_age

\* No operator interferes.
NeverForced == ~params.force_state /\ state \in StateType

\* The inductive invariant of the pipeline: the order of the two ages in the
\* spliner, in every message on the topic and in the one held.
PipelineInv == SplinerInv /\ otwpnts \in Seq(Queued) /\ HeldInv /\ NeverForced

\* The age of the last switch that a message carries is within its cap.
LEMMA PlannedAge ==
    ASSUME NEW m \in SP!PlannedMsgs
    PROVE  m.since_switch \in 0..AgeCap
<1>1. PICK side \in SP!Sides :
        m \in {[wpnts |-> SP!Line([s_center |-> s], d), ot_side |-> side,
               since_switch |-> age] :
                s \in 0..(gb_max_s - 1), d \in SP!Offsets(side), age \in 0..AgeCap}
  BY DEF SP!PlannedMsgs
<1>2. PICK s \in 0..(gb_max_s - 1), d \in SP!Offsets(side), age \in 0..AgeCap :
        m = [wpnts |-> SP!Line([s_center |-> s], d), ot_side |-> side,
             since_switch |-> age]
  BY <1>1
<1> QED  BY <1>2

\* Ages grow, and keep their order, up to the cap.
LEMMA NextAgeType ==
    ASSUME NEW age \in 0..AgeCap
    PROVE  /\ SP!NextAge(age) \in 0..AgeCap /\ SP!NextAge(0) \in 0..AgeCap
           /\ SP!NextAge(0) <= SP!NextAge(age)
           /\ \A younger \in 0..age : SP!NextAge(younger) <= SP!NextAge(age)
BY TtlAssumption DEF SP!NextAge

\* One loop of the spliner.
LEMMA SplinerLoopInv ==
    ASSUME PipelineInv, SplinerLoop
    PROVE  SplinerInv' /\ otwpnts' \in Seq(Queued)
<1> DEFINE m == [msg |-> evasion', abort_age |-> abort_age]
<1>1. /\ obs' = SP!Propagated
      /\ SP!NothingClose \/ SP!Evade \/ SP!Abort
      /\ otwpnts' = Enqueue(otwpnts, m)
      /\ abort_age' = IF SP!Abort THEN SP!NextAge(0) ELSE SP!NextAge(abort_age)
      /\ world' = world
  BY DEF SplinerLoop, SP!spliner_loop
<1>2. /\ obs \subseteq SP!Obstacles /\ world \in ObstacleArrays
      /\ last_switch_age \in 0..AgeCap /\ abort_age \in 0..AgeCap
      /\ last_switch_age <= abort_age /\ otwpnts \in Seq(Queued)
  BY DEF PipelineInv, SplinerInv
<1>3. obs' \subseteq SP!Obstacles
  BY <1>1, <1>2, PropagatedTypes
<1>4. /\ SP!NextAge(0) \in 0..AgeCap
      /\ SP!NextAge(last_switch_age) \in 0..AgeCap /\ SP!NextAge(abort_age) \in 0..AgeCap
      /\ SP!NextAge(last_switch_age) <= SP!NextAge(abort_age)
      /\ SP!NextAge(0) <= SP!NextAge(abort_age)
  BY <1>2, NextAgeType
<1>5. /\ last_switch_age' \in {SP!NextAge(0), SP!NextAge(last_switch_age)}
      /\ SP!Abort => last_switch_age' = SP!NextAge(0)
  BY <1>1 DEF SP!NothingClose, SP!Evade, SP!Abort
<1>6. SplinerInv'
  BY <1>1, <1>2, <1>3, <1>4, <1>5 DEF SplinerInv
<1>7. m \in Queued
  <2>1. CASE SP!Evade
    <3>1. evasion' \in SP!PlannedMsgs /\ evasion'.since_switch = last_switch_age
      BY <1>2, <2>1, EvadeTypes
    <3> QED  BY <1>2, <3>1 DEF Queued
  <2>2. CASE SP!NothingClose \/ SP!Abort
    <3>1. evasion' = NoWpnts
      BY <2>2 DEF SP!NothingClose, SP!Abort
    <3> QED  BY <1>2, <3>1 DEF Queued
  <2> QED  BY <1>1, <2>1, <2>2
<1> HIDE DEF m
<1>8. otwpnts' \in Seq(Queued)
  <2>1. Depth > 0 /\ Depth \in Nat
    BY MessagesAssumption
  <2>2. CASE Len(otwpnts) < Depth
    BY <1>1, <1>2, <1>7, <2>2 DEF Enqueue
  <2>3. CASE ~(Len(otwpnts) < Depth)
    <3>1. otwpnts # <<>>
      BY <1>2, <2>1, <2>3
    <3>2. Tail(otwpnts) \in Seq(Queued)
      BY <1>2, <3>1
    <3> QED  BY <1>1, <1>7, <2>3, <3>2 DEF Enqueue
  <2> QED  BY <2>2, <2>3
<1> QED  BY <1>6, <1>8

\* A delivered message is held with the age it came with.
LEMMA DeliverInv ==
    ASSUME PipelineInv, Deliver
    PROVE  HeldInv' /\ otwpnts' \in Seq(Queued)
<1>1. otwpnts \in Seq(Queued) /\ otwpnts # <<>>
  BY DEF PipelineInv, Deliver
<1>2. Head(otwpnts) \in Queued /\ Tail(otwpnts) \in Seq(Queued)
  BY <1>1
<1> DEFINE m == Head(otwpnts)
<1>3. /\ avoidance_wpnts' = IF m.msg # NoWpnts THEN m.msg ELSE avoidance_wpnts
      /\ held_abort_age' = IF m.msg = NoWpnts THEN held_abort_age ELSE m.abort_age
      /\ otwpnts' = Tail(otwpnts)
  BY DEF Deliver, avoidance_cb
<1> HIDE DEF m
<1>4. /\ m.msg \in SP!PlannedMsgs \cup {NoWpnts} /\ m.abort_age \in 0..AgeCap
      /\ m.msg # NoWpnts => m.msg.since_switch <= m.abort_age
  BY <1>2 DEF Queued, m
<1>5. HeldInv
  BY DEF PipelineInv
<1> QED  BY <1>2, <1>3, <1>4, <1>5 DEF HeldInv

\* A main loop keeps or drops the message it holds, and stays unforced.
LEMMA MainLoopInv ==
    ASSUME PipelineInv, MainLoop
    PROVE  HeldInv' /\ NeverForced'
<1>1. /\ avoidance_wpnts' \in {avoidance_wpnts, NoWpnts} /\ params' = params
      /\ state' = NextState(UpdatedCache) /\ held_abort_age' = held_abort_age
  BY DEF MainLoop, main_loop_callback, Kept
<1>2. state' \in StateType
  BY <1>1, TransitionType DEF PipelineInv, NeverForced, NextState
<1> QED  BY <1>1, <1>2 DEF PipelineInv, NeverForced, HeldInv

\* Before the nodes start the topic is empty and no age is counted.
LEMMA PipelineInit == SystemInit => PipelineInv
<1> SUFFICES ASSUME SystemInit PROVE PipelineInv
  OBVIOUS
<1>1. 0 \in 0..AgeCap /\ AgeCap \in 0..AgeCap /\ 0 <= AgeCap
  BY TtlAssumption
<1>2. /\ Init /\ SP!Init /\ world = {} /\ otwpnts = <<>>
      /\ abort_age = AgeCap /\ held_abort_age = AgeCap
  BY DEF SystemInit
<1>3. SplinerInv
  BY <1>1, <1>2, MessagesAssumption DEF SplinerInv, SP!Init
<1>4. otwpnts \in Seq(Queued)
  BY <1>2
<1>5. HeldInv
  BY <1>1, <1>2 DEF HeldInv, Init
<1>6. NeverForced
  BY <1>2, StatesAssumption DEF NeverForced, Init
<1> QED  BY <1>3, <1>4, <1>5, <1>6 DEF PipelineInv

\* No step of either node or of the topic breaks the invariant.
LEMMA PipelineNext == PipelineInv /\ [SystemNext]_all_vars => PipelineInv'
<1> SUFFICES ASSUME PipelineInv, [SystemNext]_all_vars PROVE PipelineInv'
  OBVIOUS
<1> USE DEF PipelineInv
<1>1. CASE Perception
  BY <1>1 DEF Perception, SplinerInv, HeldInv, NeverForced, sp_own, ghosts, sm_vars,
              vars, spline_vars
<1>2. CASE ObstaclesToStateMachine
  BY <1>2 DEF ObstaclesToStateMachine, obstacles_cb, SplinerInv, HeldInv, NeverForced,
              sp_own, ghosts, spline_vars
<1>3. CASE ObstaclesToSpliner
  <2>1. obs' \subseteq SP!Obstacles
    BY <1>3, GeometryAssumption DEF ObstaclesToSpliner, SP!obs_cb, SplinerInv, SP!Geometry
  <2> QED
    BY <1>3, <2>1 DEF ObstaclesToSpliner, SP!obs_cb, SplinerInv, HeldInv, NeverForced,
                      ghosts, sm_own, spline_vars
<1>4. CASE Drive
  BY <1>4 DEF Drive, car_state_frenet_cb, SplinerInv, HeldInv, NeverForced,
              sp_own, ghosts, spline_vars
<1>5. CASE SplinerLoop
  <2>1. UNCHANGED <<state, params, avoidance_wpnts, held_abort_age>>
    BY <1>5 DEF SplinerLoop, sm_own, spline_vars
  <2>2. HeldInv' /\ NeverForced'
    BY <2>1 DEF HeldInv, NeverForced
  <2> QED  BY <1>5, <2>2, SplinerLoopInv
<1>6. CASE Deliver
  <2>1. UNCHANGED <<sp_own, world, abort_age, state, params>>
    BY <1>6 DEF Deliver, avoidance_cb
  <2>2. SplinerInv' /\ NeverForced'
    BY <2>1 DEF SplinerInv, NeverForced, sp_own
  <2> QED  BY <1>6, <2>2, DeliverInv
<1>7. CASE MainLoop
  <2>1. UNCHANGED <<sp_own, world, abort_age, otwpnts>>
    BY <1>7 DEF MainLoop
  <2>2. SplinerInv'
    BY <2>1 DEF SplinerInv, sp_own
  <2> QED  BY <1>7, <2>1, <2>2, MainLoopInv
<1>8. CASE UNCHANGED all_vars
  BY <1>8 DEF all_vars, sm_vars, vars, spline_vars, sp_own, ghosts, SplinerInv, HeldInv,
              NeverForced
<1> QED
  BY <1>1, <1>2, <1>3, <1>4, <1>5, <1>6, <1>7, <1>8 DEF SystemNext

\* In every reachable state of the pipeline the messages on the topic, and the
\* one held, are messages of the spliner whose ages are in order.
THEOREM PipelineInvariance == SystemSpec => []PipelineInv
BY PipelineInit, PipelineNext, PTL DEF SystemSpec

\* Every line the spliner publishes evades the obstacle it is for.
THEOREM EveryLineEvades == SystemSpec => LinesEvade
<1> DEFINE Evades ==
      SP!spliner_loop /\ evasion' # NoWpnts =>
        \E o \in SP!CloseObstacles :
            LET d == evasion'.wpnts[1].d_m
            IN  /\ SP!Closest(o) /\ evasion'.wpnts[1].s_m = o.s_center
                /\ evasion'.ot_side = "left" =>
                      /\ d >= 0 /\ d >= o.d_left + evasion_dist
                      /\ d > spline_resolution => d <= d_left - spline_bound_mindist
                /\ evasion'.ot_side = "right" =>
                      /\ d <= 0 /\ d <= o.d_right - evasion_dist
                      /\ -d > spline_resolution => -d <= d_right - spline_bound_mindist
<1>1. PipelineInv => Evades
  <2> SUFFICES ASSUME PipelineInv, SP!spliner_loop, evasion' # NoWpnts PROVE Evades
    OBVIOUS
  <2>1. SP!Evade
    BY DEF SP!spliner_loop, SP!NothingClose, SP!Abort
  <2>2. obs \subseteq SP!Obstacles /\ last_switch_age \in 0..AgeCap
    BY DEF PipelineInv, SplinerInv
  <2> QED  BY <2>1, <2>2, EvadeTypes
<1>2. PipelineInv /\ [SystemNext]_all_vars => [Evades]_(SP!vars)
  BY <1>1
<1> QED
  BY <1>2, PipelineInvariance, PTL DEF SystemSpec, LinesEvade, SP!LineEvades

\* Whatever waits in the topic and however the loops interleave, no message
\* planned within the hysteresis after an abort is overtaken on.
THEOREM AbortCoolsDown == SystemSpec => CoolDown
<1> DEFINE Cool == MainLoop /\ out'.state = "OVERTAKE" =>
                      held_abort_age >= splini_hyst_timer_sec
<1>1. PipelineInv /\ [SystemNext]_all_vars => [Cool]_all_vars
  <2> SUFFICES ASSUME PipelineInv, MainLoop, out'.state = "OVERTAKE"
               PROVE  held_abort_age >= splini_hyst_timer_sec
    OBVIOUS
  <2>1. /\ HeldInv /\ NeverForced
        /\ NextState(UpdatedCache) = "OVERTAKE"
    BY DEF PipelineInv, MainLoop, main_loop_callback
  <2>2. head_to_head_transition(UpdatedCache) = "OVERTAKE" /\ state \in StateType
    BY <2>1 DEF NextState, NeverForced
  <2>3. check_availability_splini_wpts
    BY <2>2, OvertakeGuard
  <2>4. /\ avoidance_wpnts # NoWpnts
        /\ avoidance_wpnts.since_switch >= splini_hyst_timer_sec
    BY <2>3 DEF check_availability_splini_wpts
  <2>5. /\ avoidance_wpnts.since_switch \in 0..AgeCap /\ held_abort_age \in 0..AgeCap
        /\ avoidance_wpnts.since_switch <= held_abort_age
    BY <2>1, <2>4, PlannedAge DEF HeldInv
  <2> QED  BY <2>4, <2>5, TtlAssumption
<1> QED  BY <1>1, PipelineInvariance, PTL DEF SystemSpec, CoolDown

-----------------------------------------------------------------------------
(* The components in the pipeline.                                         *)

\* What a step of the pipeline is to the state machine, and what to the spliner.
LEMMA PipelineStep ==
    ASSUME PipelineInv, SystemNext
    PROVE  [Next]_vars /\ [SP!Next]_(SP!vars)
<1> USE DEF vars, sm_vars, sensed, spline_vars, sp_own, SP!vars
<1>1. CASE Perception
  BY <1>1 DEF Perception
<1>2. world \in ObstacleArrays
  BY DEF PipelineInv, SplinerInv
<1>3. CASE ObstaclesToStateMachine
  <2>1. Next
    BY <1>2, <1>3 DEF ObstaclesToStateMachine, Next, Sense
  <2>2. UNCHANGED SP!vars
    BY <1>3 DEF ObstaclesToStateMachine, obstacles_cb
  <2> QED  BY <2>1, <2>2
<1>4. CASE ObstaclesToSpliner
  BY <1>2, <1>4 DEF ObstaclesToSpliner, SP!obs_cb, SP!Next, sm_own
<1>5. CASE Drive
  <2>1. PICK pos \in CarPositions : car_state_frenet_cb(pos) /\ UNCHANGED sp_own
    BY <1>5 DEF Drive
  <2>2. Next
    BY <2>1 DEF Next, Sense
  <2>3. SP!Next
    BY <2>1 DEF car_state_frenet_cb, SP!state_cb, SP!Next
  <2> QED  BY <2>2, <2>3
<1>6. CASE SplinerLoop
  <2>1. SP!spliner_loop /\ car' = car /\ UNCHANGED sm_own
    BY <1>6 DEF SplinerLoop, SP!spliner_loop
  <2> QED  BY <2>1 DEF SP!Next, sm_own
<1>7. CASE Deliver
  <2>1. Head(otwpnts) \in Queued
    BY <1>7 DEF PipelineInv, Deliver
  <2>2. Head(otwpnts).msg \in AvoidanceMsgs \cup {NoWpnts}
    BY <2>1, MessagesAssumption DEF Queued
  <2>3. Next
    BY <1>7, <2>2 DEF Deliver, Next, Avoid
  <2>4. UNCHANGED SP!vars
    BY <1>7 DEF Deliver, avoidance_cb
  <2> QED  BY <2>3, <2>4
<1>8. CASE MainLoop
  <2>1. main_loop_callback /\ UNCHANGED sp_own
    BY <1>8 DEF MainLoop
  <2> QED  BY <2>1 DEF Next, main_loop_callback
<1> QED
  BY <1>1, <1>3, <1>4, <1>5, <1>6, <1>7, <1>8 DEF SystemNext

\* In the pipeline the state machine runs by its own specification: the topic
\* brings it no message and perception no obstacles it was not proved for.
THEOREM PipelineRunsStateMachine == SystemSpec => Spec
<1>1. SystemInit => Init
  BY DEF SystemInit
<1>2. PipelineInv /\ [SystemNext]_all_vars => [Next]_vars
  BY PipelineStep DEF all_vars, sm_vars
<1> QED  BY <1>1, <1>2, PipelineInvariance, PTL DEF SystemSpec, Spec

\* So does the spliner.
THEOREM PipelineRunsSpliner == SystemSpec => SP!Spec
<1>1. SystemInit => SP!Init
  BY DEF SystemInit
<1>2. PipelineInv /\ [SystemNext]_all_vars => [SP!Next]_(SP!vars)
  BY PipelineStep DEF all_vars, sm_vars, vars, sp_own, SP!vars, sensed
<1> QED  BY <1>1, <1>2, PipelineInvariance, PTL DEF SystemSpec, SP!Spec

\* Whatever waits in the topic, what the state machine publishes is an abstract
\* planner's: a spline only under a lease, and an unforced OVERTAKE only on one
\* that is live.
THEOREM PipelinePlans == SystemSpec => ImplementsPlanner /\ []OvertakeOnLiveLine
  BY PipelineRunsStateMachine, Refinement, OvertakeLive, PTL
=============================================================================
