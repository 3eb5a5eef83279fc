-------------------------- MODULE LineSupplyProofs --------------------------
(***************************************************************************)
(* Proofs about the global planner: alone, for any number of laps it may   *)
(* have to drive and any number it drives, and within the supply of the    *)
(* line, for any republishers, sectors and velocities.                     *)
(***************************************************************************)
EXTENDS LineSupply, RecursionLemmas

Flags ==
    /\ create_map \in BOOLEAN /\ map_editor_mode \in BOOLEAN
    /\ pose_valid \in BOOLEAN /\ was_at_init_pos \in BOOLEAN
    /\ window \in BOOLEAN /\ map_dir \in BOOLEAN

Counts ==
    /\ lap_count \in Nat /\ required_laps \in Nat
    /\ returns \in 0..MaxLaps

Poses ==
    /\ car \in 0..(Cells - 1) /\ initial_position \in 0..(Cells - 1)
    /\ current_position = car

\* The lines, as in PlannerTypeOK: nothing is published before the node goes.
Files ==
    /\ node \in {"running", "destroyed", "crashed"}
    /\ json \in {NoLine, OldLine, NewLine} /\ planner_out \in {NoLine, OldLine, NewLine}
    /\ planner_out = NewLine => json = NewLine
    /\ node = "running" => planner_out = NoLine
    /\ json # NoLine => map_dir
    /\ ~create_map => map_dir

\* The lap that the next callback will count.
Pending == IF at_init_pos_check /\ ~was_at_init_pos THEN 1 ELSE 0

\* When the map is saved, the place where the car is becomes its start, and it
\* may be counted once more without a return.
Spare == IF window /\ node = "running" THEN 0 ELSE 1

LapsAreReturns ==
    /\ ~pose_valid => was_at_init_pos
    /\ IF map_editor_mode THEN lap_count = 0 ELSE lap_count + Pending <= returns + Spare

\* The inductive invariant of the planner alone.
IInv == Flags /\ Counts /\ Poses /\ Files /\ LapsAreReturns

USE PlannerAssumption

\* The planner starts with no lap counted.
LEMMA InitIInv == PlannerInit => IInv
<1> SUFFICES ASSUME PlannerInit PROVE IInv
  OBVIOUS
<1>1. Flags
  BY DEF PlannerInit, Flags
<1>2. Counts
  BY DEF PlannerInit, Counts
<1>3. Poses
  BY DEF PlannerInit, Poses
<1>4. Files
  BY DEF PlannerInit, Files
<1>5. LapsAreReturns
  BY DEF PlannerInit, LapsAreReturns, Pending, Spare, at_init_pos_check
<1> QED
  BY <1>1, <1>2, <1>3, <1>4, <1>5 DEF IInv

\* The car drives on: a lap becomes pending only with a return.
LEMMA DriveKeepsIInv == IInv /\ Drive => IInv'
<1> SUFFICES ASSUME IInv, Drive PROVE IInv'
  OBVIOUS
<1> USE DEF IInv, Drive, files
<1>1. Flags' /\ Files'
  BY DEF Flags, Files
<1>2. car' \in 0..(Cells - 1)
  BY DEF Poses
<1>3. Poses'
  BY <1>2 DEF Poses
<1>4. Counts'
  BY DEF Counts
<1>5. LapsAreReturns'
  <2>1. CASE map_editor_mode
    BY <2>1 DEF LapsAreReturns, Flags
  <2>2. CASE ~map_editor_mode /\ ~pose_valid
    BY <2>2 DEF LapsAreReturns, Pending, Spare, Counts, Flags
  <2>3. CASE ~map_editor_mode /\ pose_valid
    <3>1. Pending' <= Pending + (returns' - returns)
      BY <2>3 DEF Pending, at_init_pos_check, Counts
    <3>2. lap_count' = lap_count /\ Spare' = Spare /\ pose_valid'
      BY DEF Spare
    <3>3. {Pending, Pending', Spare, lap_count, returns, returns'} \subseteq Int
      BY DEF Pending, Spare, Counts
    <3> QED
      BY <2>3, <3>1, <3>2, <3>3 DEF LapsAreReturns
  <2> QED
    BY <2>1, <2>2, <2>3
<1> QED
  BY <1>1, <1>3, <1>4, <1>5

\* What counting the laps does to what is pending.
LEMMA LapsCountPending ==
  ASSUME Flags, Counts
  PROVE  /\ LapsCounted = lap_count + Pending
         /\ LapsCounted \in Nat
         /\ at_init_pos_check \in BOOLEAN
BY DEF Flags, Counts, LapsCounted, Pending, at_init_pos_check

\* A callback that goes on mapping.
LEMMA KeepMappingKeepsIInv ==
  ASSUME IInv, node = "running", NEW clicked \in BOOLEAN, KeepMapping(clicked),
         UNCHANGED <<create_map, map_editor_mode, car, current_position, pose_valid,
                     map_valid, returns>>
  PROVE  IInv'
<1> USE DEF IInv, KeepMapping, Laps, update_lap_count, files
<1>1. LapsCounted = lap_count + Pending /\ LapsCounted \in Nat /\ at_init_pos_check \in BOOLEAN
  BY LapsCountPending
<1>2. Flags' /\ Counts' /\ Poses' /\ Files'
  BY <1>1 DEF Flags, Counts, Poses, Files
<1>3. LapsAreReturns'
  <2>1. CASE map_editor_mode
    BY <2>1 DEF LapsAreReturns, Mapping
  <2>2. CASE ~map_editor_mode
    <3>1. Pending' = 0 /\ Spare' = Spare
      BY <2>2 DEF Pending, Spare, at_init_pos_check
    <3>2. lap_count' = lap_count + Pending
      BY <1>1, <2>2
    <3>3. lap_count' \in Nat
      BY <1>1, <2>2
    <3> QED
      BY <2>2, <3>1, <3>2, <3>3 DEF LapsAreReturns, Mapping
  <2> QED
    BY <2>1, <2>2
<1> QED
  BY <1>2, <1>3

\* A callback that has been clicked at: laps are counted, or start anew, and the
\* window is lost or the node goes, so that one more lap is spared.
LEMMA ReadyKeepsLaps ==
  ASSUME IInv, node = "running", NEW clicked \in BOOLEAN, Ready(clicked),
         \/ Laps
         \/ was_at_init_pos' = TRUE /\ lap_count' = 0 /\ ~map_editor_mode,
         window' = FALSE \/ node' # "running",
         UNCHANGED <<map_editor_mode, pose_valid, returns>>,
         pose_valid
  PROVE  LapsAreReturns' /\ lap_count' \in Nat /\ was_at_init_pos' \in BOOLEAN
<1> USE DEF IInv
<1>1. LapsCounted = lap_count + Pending /\ LapsCounted \in Nat /\ at_init_pos_check \in BOOLEAN
  BY LapsCountPending
<1>2. lap_count' \in Nat /\ was_at_init_pos' \in BOOLEAN
  <2>1. CASE Laps /\ map_editor_mode
    BY <2>1 DEF Laps, Counts, Flags
  <2>2. CASE Laps /\ ~map_editor_mode
    BY <1>1, <2>2 DEF Laps, update_lap_count
  <2>3. CASE was_at_init_pos' = TRUE /\ lap_count' = 0
    BY <2>3
  <2> QED
    BY <2>1, <2>2, <2>3
<1>3. Spare = 0 /\ Spare' = 1
  BY DEF Ready, Spare
<1>4. PICK p \in Nat : Pending' = p /\ p <= 1
  BY DEF Pending
<1>5. Pending \in Nat /\ returns \in Nat /\ lap_count \in Nat
  BY DEF Pending, Counts
<1>6. returns' = returns
  OBVIOUS
<1>7. CASE map_editor_mode
  BY <1>2, <1>7 DEF LapsAreReturns, Laps
<1>8. CASE ~map_editor_mode /\ Laps
  <2>1. lap_count' = lap_count + Pending
    BY <1>1, <1>8 DEF Laps, update_lap_count
  <2>2. lap_count + Pending <= returns + Spare
    BY <1>8 DEF LapsAreReturns
  <2>3. lap_count' + Pending' <= returns' + Spare'
    BY <1>3, <1>4, <1>6, <1>5, <2>1, <2>2
  <2> QED
    BY <1>2, <1>8, <2>3 DEF LapsAreReturns
<1>9. CASE ~map_editor_mode /\ lap_count' = 0
  <2>1. lap_count' + Pending' <= returns' + Spare'
    BY <1>3, <1>4, <1>6, <1>9, <1>5
  <2> QED
    BY <1>2, <1>9, <2>1 DEF LapsAreReturns
<1> QED
  BY <1>2, <1>7, <1>8, <1>9

\* A callback that was clicked at saves the map or fails to.
LEMMA SaveKeepsIInv ==
  ASSUME IInv, node = "running", NEW clicked \in BOOLEAN,
         NEW e \in Endings, NEW bounds \in BOOLEAN,
         SaveFails(clicked) \/ SaveForEditor(clicked) \/ PlanOnMap(e, bounds, clicked),
         UNCHANGED <<create_map, map_editor_mode, car, current_position, pose_valid,
                     map_valid, returns>>
  PROVE  IInv'
<1> USE DEF IInv, Mapping, files
<1>1. CASE SaveFails(clicked)
  <2> USE DEF SaveFails
  <2>1. LapsAreReturns' /\ lap_count' \in Nat /\ was_at_init_pos' \in BOOLEAN
    BY <1>1, ReadyKeepsLaps
  <2>2. Flags' /\ Counts' /\ Poses' /\ Files'
    BY <1>1, <2>1 DEF Flags, Counts, Poses, Files
  <2> QED
    BY <2>1, <2>2
<1>2. CASE SaveForEditor(clicked)
  <2> USE DEF SaveForEditor, SaveMap, Publish
  <2>1. LapsAreReturns' /\ lap_count' \in Nat /\ was_at_init_pos' \in BOOLEAN
    BY <1>2, ReadyKeepsLaps
  <2>2. Flags' /\ Counts' /\ Poses' /\ Files'
    BY <1>2, <2>1 DEF Flags, Counts, Poses, Files
  <2> QED
    BY <2>1, <2>2
<1>3. CASE PlanOnMap(e, bounds, clicked)
  <2> USE DEF PlanOnMap, SaveMap, compute_global_trajectory
  <2>1. LapsAreReturns' /\ lap_count' \in Nat /\ was_at_init_pos' \in BOOLEAN
    BY <1>3, ReadyKeepsLaps
  <2>3. node' \in {"running", "destroyed", "crashed"}
    BY <1>3 DEF Publish, NodeAfter, Endings
  <2>4. Flags' /\ Poses'
    BY <1>3, <2>1 DEF Flags, Poses
  <2>5. Counts'
    BY <1>3, <2>1 DEF Counts
  <2>7. Files'
    BY <1>3, <2>3 DEF Files, Publish
  <2> QED
    BY <2>1, <2>4, <2>5, <2>7
<1> QED
  BY <1>1, <1>2, <1>3

\* Without mapping the planner computes once and goes, one way or the other.
LEMMA PlanOfflineKeepsIInv ==
  ASSUME IInv, node = "running", NEW e \in Endings, NEW bounds \in BOOLEAN,
         PlanOffline(e, bounds),
         UNCHANGED <<create_map, map_editor_mode, car, current_position, pose_valid,
                     map_valid, returns>>
  PROVE  IInv'
<1> USE DEF IInv, PlanOffline, compute_global_trajectory
<1>2. node' \in {"destroyed", "crashed"}
  BY DEF Publish, NodeAfter, Endings
<1>3. Flags' /\ Counts' /\ Poses'
  BY <1>2 DEF Flags, Counts, Poses
<1>4. Files'
  BY <1>2 DEF Files, Publish
<1>5. LapsAreReturns'
  <2>1. Pending' = Pending /\ Spare' = 1
    BY <1>2 DEF Pending, Spare, at_init_pos_check
  <2>2. Spare \in {0, 1} /\ Pending \in {0, 1} /\ returns \in Nat /\ lap_count \in Nat
    BY DEF Spare, Pending, Counts
  <2> QED
    BY <2>1, <2>2 DEF LapsAreReturns
<1> QED
  BY <1>3, <1>4, <1>5

\* No callback of the planner breaks the invariant.
LEMMA StepKeepsIInv == IInv /\ [PlannerNext]_planner_vars => IInv'
<1> SUFFICES ASSUME IInv, [PlannerNext]_planner_vars PROVE IInv'
  OBVIOUS
<1>1. CASE Drive
  BY <1>1, DriveKeepsIInv
<1>2. CASE update_map \/ UNCHANGED planner_vars
  BY <1>2 DEF update_map, planner_vars, places, files, IInv, Flags, Counts, Poses,
     Files, LapsAreReturns, Pending, Spare, at_init_pos_check
<1>3. CASE node = "running" /\ global_plan_callback
  BY <1>3, PlanOfflineKeepsIInv, KeepMappingKeepsIInv, SaveKeepsIInv
  DEF global_plan_callback
<1> QED
  BY <1>1, <1>2, <1>3 DEF PlannerNext

-----------------------------------------------------------------------------
\* Values stay in their ranges; more laps than returns are counted by one at
\* most.
THEOREM PlannerTypeCorrect == PlannerSpec => []PlannerTypeOK
<1>1. IInv => PlannerTypeOK
  <2> SUFFICES ASSUME IInv PROVE PlannerTypeOK
    OBVIOUS
  <2>1. Pending \in {0, 1} /\ Spare \in {0, 1}
    BY DEF Pending, Spare
  <2>2. lap_count \in 0..(MaxLaps + 1)
    BY <2>1 DEF IInv, Counts, LapsAreReturns
  <2> QED
    BY <2>2 DEF IInv, Poses, Files, PlannerTypeOK
<1> QED
  BY <1>1, InitIInv, StepKeepsIInv, PTL DEF PlannerSpec

\* The map is saved only after the laps asked for: as long as the window is
\* there, no more laps are counted than the car has come back.
THEOREM LapsBeforeMap == PlannerSpec => MapAfterLaps
<1>1. IInv /\ [PlannerNext]_planner_vars
        => [map_dir' # map_dir => map_editor_mode \/ returns >= required_laps]_planner_vars
  <2> SUFFICES ASSUME IInv, PlannerNext, map_dir' # map_dir, ~map_editor_mode
               PROVE  returns >= required_laps
    BY DEF planner_vars, files
  <2>1. PICK clicked \in BOOLEAN : Mapping /\ Ready(clicked) /\ node = "running"
    BY DEF PlannerNext, Drive, update_map, files, global_plan_callback, PlanOffline,
       KeepMapping, SaveFails, SaveForEditor, PlanOnMap
  <2>2. LapsCounted >= required_laps /\ Spare = 0
    BY <2>1 DEF Ready, Spare
  <2>3. LapsCounted = lap_count + Pending /\ Pending \in {0, 1}
    BY LapsCountPending DEF IInv, Pending
  <2> QED
    BY <2>2, <2>3 DEF IInv, Counts, LapsAreReturns
<1> QED
  BY <1>1, InitIInv, StepKeepsIInv, PTL DEF PlannerSpec, MapAfterLaps

\* Republishers and sector tuner leave the planner to itself, so what is proved
\* of it holds of the supply of the line too.
THEOREM SupplyRunsPlanner == SupplySpec => PlannerSpec
<1>1. SupplyInit => PlannerInit
  BY DEF SupplyInit
<1>2. [SupplyNext]_supply_vars => [PlannerNext]_planner_vars
  BY DEF SupplyNext, supply_vars, PlannerStep, StartRepublisher, global_republisher,
     glb_wpnts_cb, TunerReceives, StartTuner, TunerTimer, TunerMarkers, TunerEvent,
     ChangeParameter, FinishSectors
<1> QED
  BY <1>1, <1>2, PTL DEF SupplySpec, PlannerSpec

\* In the supply, too, the map is saved only after the laps it was to wait for.
COROLLARY SupplyLapsBeforeMap == SupplySpec => MapAfterLaps
  BY SupplyRunsPlanner, LapsBeforeMap, PTL

-----------------------------------------------------------------------------
(* The supply of the line: what republishers and sector tuner hold.        *)

USE SupplyAssumption, SectorTunerAssumption

Settings == [scaling : [SectorIds -> 0..Full], global_limit : 0..Full]

\* A message is on its way to a node that runs, and carries a line.
Deliveries == [from : Republishers \cup {Planner}, to : started, line : Lines]

\* Republishers hold lines, and messages are lines on their way to nodes that run.
Held ==
    /\ share \in Lines \cup {NoLine, Link}
    /\ glb_wpnts \in [Republishers -> Lines \cup {NoLine}]
    /\ track_length \in [Republishers -> Lines \cup {NoLine}]
    /\ started \subseteq Receivers
    /\ in_flight \subseteq Deliveries

\* The settings of the tuner, and its two messages while they are one.
TunerHolds ==
    /\ parameters \in Settings /\ sectors_params \in Settings
    /\ aliased => glb_wpnts_scaled = glb_wpnts_og

\* Before the nodes start nobody holds a line.
LEMMA InitHeld == SupplyInit => Held /\ TunerHolds
<1>1. ParameterValues \subseteq Settings
  BY DEF Settings
<1> QED  BY <1>1 DEF SupplyInit, TunerInit, Held, TunerHolds, Settings, Lines

\* Whoever sends a line reaches only those who run.
LEMMA SendsLines ==
    ASSUME NEW sender \in Republishers \cup {Planner}, NEW line \in Lines
    PROVE  To(sender, line) \subseteq Deliveries
BY DEF To, Deliveries

\* What the planner sends is a line, once it has gone.
LEMMA PlannerSendsLines ==
    ASSUME IInv, PlannerNext, planner_out' # planner_out
    PROVE  planner_out' \in Lines
<1>1. IInv'
  BY StepKeepsIInv
<1>2. node = "running"
  BY DEF PlannerNext, Drive
<1> QED  BY <1>1, <1>2 DEF IInv, Files, Lines

\* Whatever is sent, received or started, lines are lines and go to nodes that
\* run.
LEMMA NextHeld == IInv /\ Held /\ [SupplyNext]_supply_vars => Held'
<1> SUFFICES ASSUME IInv, Held, [SupplyNext]_supply_vars PROVE Held'
  OBVIOUS
<1>1. CASE PlannerStep
  <2>1. UNCHANGED republisher_vars
    BY <1>1 DEF PlannerStep
  <2>2. in_flight' \subseteq Deliveries
    BY <1>1, PlannerSendsLines, SendsLines DEF PlannerStep, Held
  <2>3. share' = share
    BY <1>1 DEF PlannerStep
  <2> QED  BY <2>1, <2>2, <2>3 DEF Held, republisher_vars, Deliveries
<1>2. ASSUME NEW r \in Republishers, StartRepublisher(r) PROVE Held'
  <2>1. glb_wpnts' \in [Republishers -> Lines \cup {NoLine}]
    BY <1>2 DEF StartRepublisher, InstalledLine, Held, IInv, Files, Lines
  <2>2. started' \subseteq Receivers
    BY <1>2 DEF StartRepublisher, Held, Receivers
  <2>3. Deliveries \subseteq Deliveries'
    BY <1>2 DEF StartRepublisher, Deliveries
  <2> QED  BY <1>2, <2>1, <2>2, <2>3 DEF StartRepublisher, Held
<1>3. ASSUME NEW r \in Republishers, global_republisher(r) PROVE Held'
  <2>1. glb_wpnts[r] \in Lines
    BY <1>3 DEF global_republisher, Held
  <2>2. in_flight' \subseteq Deliveries
    BY <1>3, <2>1, SendsLines DEF global_republisher, Held
  <2> QED  BY <1>3, <2>2 DEF global_republisher, republisher_vars, Held, Deliveries
<1>4. ASSUME NEW m \in in_flight, glb_wpnts_cb(m) PROVE Held'
  <2>1. m.line \in Lines /\ m.to \in Republishers
    BY <1>4 DEF glb_wpnts_cb, Held, Deliveries
  <2> QED  BY <1>4, <2>1 DEF glb_wpnts_cb, Held, Deliveries
<1>5. ASSUME NEW m \in in_flight, TunerReceives(m) PROVE Held'
  BY <1>5 DEF TunerReceives, republisher_vars, Held, Deliveries
<1>6. CASE StartTuner
  <2>1. Deliveries \subseteq Deliveries'
    BY <1>6 DEF StartTuner, Deliveries
  <2> QED  BY <1>6, <2>1 DEF StartTuner, Held, Receivers
<1>7. CASE \/ TunerTimer \/ TunerMarkers \/ TunerEvent \/ UNCHANGED supply_vars
           \/ \E values \in ParameterValues : ChangeParameter(values)
  BY <1>7 DEF TunerTimer, TunerMarkers, TunerEvent, ChangeParameter, supply_vars, republisher_vars, Held,
              Deliveries
<1>8. CASE FinishSectors
  <2>1. share' \in Lines \cup {NoLine, Link}
    BY <1>8 DEF FinishSectors, IInv, Files, Lines
  <2> QED  BY <1>8, <2>1 DEF FinishSectors, republisher_vars, Held, Deliveries
<1> QED  BY <1>1, <1>2, <1>3, <1>4, <1>5, <1>6, <1>7, <1>8 DEF SupplyNext

\* The tuner's parameters stay within 0..Full, and its two messages are equal
\* while they are one: the timer writes into both.
LEMMA NextTunerHolds == TunerHolds /\ [SupplyNext]_supply_vars => TunerHolds'
<1> SUFFICES ASSUME TunerHolds, [SupplyNext]_supply_vars PROVE TunerHolds'
  OBVIOUS
<1>1. CASE UNCHANGED tuner_vars
  BY <1>1 DEF tuner_vars, TunerHolds
<1>6. CASE TunerMarkers
  BY <1>6 DEF TunerMarkers, marker_callback, TunerHolds
<1>2. ASSUME NEW m \in in_flight, TunerReceives(m) PROVE TunerHolds'
  BY <1>2 DEF TunerReceives, global_waypoints_cb, TunerHolds
<1>3. CASE TunerTimer
  BY <1>3 DEF TunerTimer, timer_callback, scale_points, TunerHolds
<1>4. CASE TunerEvent
  <2>1. Clip(parameters) \in Settings
    BY DEF Clip, TunerHolds, Settings
  <2> QED  BY <1>4, <2>1 DEF TunerEvent, dyn_param_cb, TunerHolds
<1>5. ASSUME NEW values \in ParameterValues, ChangeParameter(values) PROVE TunerHolds'
  BY <1>5 DEF ChangeParameter, SetParameter, TunerHolds, Settings
<1> QED
  BY <1>1, <1>2, <1>3, <1>4, <1>5, <1>6 DEF SupplyNext, supply_vars, PlannerStep,
     StartRepublisher, global_republisher, glb_wpnts_cb, StartTuner, FinishSectors

\* What the republishers and the tuner hold, and what is under way to them, is
\* a line; and the planner within the supply keeps its own invariant.
THEOREM SupplyInvariant == SupplySpec => [](IInv /\ Held /\ TunerHolds)
<1>1. SupplyInit => IInv
  BY InitIInv DEF SupplyInit
<1>2. IInv /\ [SupplyNext]_supply_vars => IInv'
  <2>1. [SupplyNext]_supply_vars => [PlannerNext]_planner_vars
    BY DEF SupplyNext, supply_vars, PlannerStep, StartRepublisher, global_republisher,
       glb_wpnts_cb, TunerReceives, StartTuner, TunerTimer, TunerMarkers, TunerEvent,
       ChangeParameter, FinishSectors
  <2> QED  BY <2>1, StepKeepsIInv
<1> QED
  BY <1>1, <1>2, InitHeld, NextHeld, NextTunerHolds, PTL DEF SupplySpec

\* Values stay in their ranges in every node of the supply: only lines travel,
\* only to nodes that run, and the tuner's two messages are equal while they are
\* one.
THEOREM SupplyTypeCorrect == SupplySpec => []SupplyTypeOK
<1>1. Held /\ TunerHolds /\ PlannerTypeOK => SupplyTypeOK
  BY DEF Held, TunerHolds, Deliveries, Settings, SupplyTypeOK
<1> QED
  BY <1>1, SupplyInvariant, SupplyRunsPlanner, PlannerTypeCorrect, PTL

-----------------------------------------------------------------------------
(* The smoothing.  get_vel_scaling looks at heads, bodies and tails of the *)
(* sectors; what it gives is the mean over a window of the closed lap.     *)

\* The sectors are stretches of whole numbers, each up to the border where the
\* next one begins, from 0 to Lap.
LEMMA SectorTypes ==
    ASSUME WideSectors
    PROVE
    /\ n_sectors \in Nat \ {0} /\ hl_change \in Nat \ {0} /\ Full \in Nat \ {0}
    /\ \A i \in SectorIds : start[i] \in Nat /\ Border(i) \in Nat /\ start[i] < Border(i)
    /\ SectorIds = 0..(n_sectors - 1) /\ n_sectors - 1 \in Nat
    /\ \A i \in SectorIds : i \in Int /\ i >= 0 /\ i < n_sectors
    /\ 0 \in SectorIds /\ n_sectors - 1 \in SectorIds
    /\ start[0] = 0 /\ Lap \in Nat \ {0} /\ Border(n_sectors - 1) = Lap
    /\ \A i \in SectorIds : i # 0 => i - 1 \in SectorIds /\ start[i] = Border(i - 1)
    /\ \A i \in SectorIds : i # n_sectors - 1 => i + 1 \in SectorIds /\ start[i + 1] = Border(i)
<1>1. n_sectors \in Nat \ {0} /\ n_sectors - 1 \in SectorIds /\ 0 \in SectorIds
  BY DEF WideSectors, SectorIds
<1>2. ASSUME NEW i \in SectorIds PROVE start[i] \in Nat
  <2>1. CASE i = 0
    BY <2>1 DEF WideSectors
  <2>2. CASE i # 0
    <3>1. i - 1 \in SectorIds /\ start[i] = end[i - 1] + 1
      BY <2>2 DEF SectorIds
    <3>2. end[i - 1] \in Nat
      BY <3>1
    <3> QED  BY <3>1, <3>2
  <2> QED  BY <2>1, <2>2
<1>3. Border(n_sectors - 1) = Lap /\ Lap \in Nat
  BY <1>1 DEF Border, Lap
<1>4. ASSUME NEW i \in SectorIds, i # n_sectors - 1
      PROVE  i + 1 \in SectorIds /\ start[i + 1] = Border(i)
  BY <1>4 DEF SectorIds, Border
<1>5. ASSUME NEW i \in SectorIds, i # 0
      PROVE  i - 1 \in SectorIds /\ start[i] = Border(i - 1)
  BY <1>5 DEF SectorIds, Border
<1>6. ASSUME NEW i \in SectorIds
      PROVE  Border(i) \in Nat /\ start[i] < Border(i)
  <2>1. Border(i) \in Nat
    BY <1>2, <1>3, <1>4
  <2>2. Border(i) - start[i] >= 2 * hl_change
    BY DEF WideSectors
  <2> QED  BY <1>2, <2>1, <2>2
<1>7. Lap \in Nat \ {0} /\ start[0] = 0
  BY <1>1, <1>2, <1>3, <1>6 DEF WideSectors
<1> QED  BY <1>1, <1>2, <1>3, <1>4, <1>5, <1>6, <1>7 DEF SectorIds

\* The sectors follow each other.
LEMMA SectorsInOrder ==
    ASSUME WideSectors, NEW i \in SectorIds, NEW j \in SectorIds, i < j
    PROVE  Border(i) <= start[j]
<1> DEFINE S == {k \in 0..(n_sectors - 1) : \A m \in SectorIds : m < k => Border(m) <= start[k]}
<1>1. 0 \in S
  BY SectorTypes
<1>2. ASSUME NEW k \in 1..(n_sectors - 1), k - 1 \in S PROVE k \in S
  <2>1. k \in SectorIds /\ k - 1 \in SectorIds /\ start[k] = Border(k - 1)
    <3>1. k \in SectorIds /\ k # 0
      BY SectorTypes
    <3> QED  BY <3>1, SectorTypes
  <2>2. ASSUME NEW m \in SectorIds, m < k PROVE Border(m) <= start[k]
    <3>1. CASE m = k - 1
      BY <2>1, <3>1, SectorTypes
    <3>2. CASE m < k - 1
      <4>1. Border(m) <= start[k - 1] /\ start[k - 1] < Border(k - 1)
        BY <1>2, <2>1, <3>2, SectorTypes
      <4>2. Border(m) \in Int /\ start[k - 1] \in Int /\ Border(k - 1) \in Int
        BY <2>1, SectorTypes
      <4>3. Border(m) <= Border(k - 1)
        BY <4>1, <4>2
      <4> QED  BY <2>1, <4>3
    <3> QED  BY <2>1, <2>2, <3>1, <3>2, SectorTypes
  <2> QED  BY <2>1, <2>2
<1> HIDE DEF S
<1>3. 0..(n_sectors - 1) \subseteq S
  BY <1>1, <1>2, RoundInduction, SectorTypes
<1> QED  BY <1>3, SectorTypes DEF S

\* Every place of the lap is in a sector, and in no other.
LEMMA SectorOfPlace ==
    ASSUME WideSectors, NEW x \in Nat, x < Lap
    PROVE  \E i \in SectorIds : start[i] <= x /\ x < Border(i)
<1> DEFINE S == {k \in 0..(n_sectors - 1) :
                    x < Border(k) => \E i \in SectorIds : start[i] <= x /\ x < Border(i)}
<1>1. 0 \in S
  <2>1. 0 \in SectorIds /\ 0 \in 0..(n_sectors - 1) /\ start[0] <= x
    BY SectorTypes
  <2> QED  BY <2>1
<1>2. ASSUME NEW k \in 1..(n_sectors - 1), k - 1 \in S PROVE k \in S
  <2>1. k \in SectorIds /\ k - 1 \in SectorIds /\ start[k] = Border(k - 1)
    <3>1. k \in SectorIds /\ k # 0
      BY SectorTypes
    <3> QED  BY <3>1, SectorTypes
  <2>2. CASE x < Border(k - 1)
    BY <1>2, <2>2
  <2>3. CASE ~(x < Border(k - 1))
    <3>1. start[k] <= x
      BY <2>1, <2>3, SectorTypes
    <3> QED  BY <2>1, <3>1
  <2> QED  BY <2>2, <2>3
<1> HIDE DEF S
<1>3. 0..(n_sectors - 1) \subseteq S
  BY <1>1, <1>2, RoundInduction, SectorTypes
<1>4. n_sectors - 1 \in S
  BY <1>3, SectorTypes
<1> QED  BY <1>4, SectorTypes DEF S

\* No place is in two sectors.
LEMMA OneSector ==
    ASSUME WideSectors, NEW x \in Int, NEW i \in SectorIds, NEW j \in SectorIds,
           start[i] <= x, x < Border(i), start[j] <= x, x < Border(j)
    PROVE  i = j
<1>1. ~(i < j)
  BY SectorsInOrder, SectorTypes
<1>2. ~(j < i)
  BY SectorsInOrder, SectorTypes
<1> QED  BY <1>1, <1>2, SectorTypes

\* Places up to a lap before the start or after the end are on the lap too.
LEMMA PlaceOnLap ==
    ASSUME WideSectors, NEW x \in Int
    PROVE  /\ 0 <= x /\ x < Lap => x % Lap = x
           /\ -Lap <= x /\ x < 0 => x % Lap = x + Lap
           /\ Lap <= x /\ x < 2 * Lap => x % Lap = x - Lap
BY Remainder, SectorTypes

\* The scaling at a place is that of the sector it is in.
LEMMA ScalingOfSector ==
    ASSUME WideSectors, NEW scaling, NEW x \in Int, NEW i \in SectorIds,
           start[i] <= x % Lap, x % Lap < Border(i), x % Lap \in Int
    PROVE  ScalingAt(x, scaling) = scaling[i]
<1> DEFINE y == x % Lap
           k == CHOOSE k \in SectorIds : start[k] <= y /\ y < Border(k)
<1>1. k \in SectorIds /\ start[k] <= y /\ y < Border(k) /\ y \in Int
  OBVIOUS
<1>2. ScalingAt(x, scaling) = scaling[k]
  BY DEF ScalingAt, Lap
<1> HIDE DEF k, y
<1>3. k = i
  BY <1>1, OneSector DEF y
<1> QED  BY <1>2, <1>3

\* The window around s has the scaling a before m and b from there on.
TwoScalings(scaling, s, m, a, b) ==
    \A x \in (s - hl_change)..(s + hl_change - 1) :
       ScalingAt(x, scaling) = IF x < m THEN a ELSE b

\* The mean over a window of two scalings.
LEMMA WindowSum ==
    ASSUME WideSectors, NEW scaling, NEW s \in Int, NEW m \in Int, NEW a \in Int, NEW b \in Int,
           s - hl_change <= m, m <= s + hl_change,
           TwoScalings(scaling, s, m, a, b)
    PROVE  Smoothed(s, scaling) = a * (m - (s - hl_change)) + b * (s + hl_change - m)
<1> DEFINE S == (s - hl_change)..(s + hl_change - 1)
           A == (s - hl_change)..(m - 1)
           f == [x \in S |-> IF x < m THEN a ELSE b]
           F(g) == [t \in SUBSET S |-> IF t = {} THEN 0
                                      ELSE LET x == CHOOSE y \in t : TRUE
                                           IN ScalingAt(x, scaling) + g[t \ {x}]]
           fold == CHOOSE g : g = F(g)
           one == [t \in SUBSET S |-> CHOOSE y \in t : TRUE]
<1>1. hl_change \in Nat \ {0}
  BY SectorTypes
<1> HIDE PlannerAssumption, SupplyAssumption, SectorTunerAssumption
<1>2. Smoothed(s, scaling) = fold[S]
  BY DEF Smoothed, MapThenSumSet, MapThenFoldSet
<1>3. IsFiniteSet(S)
  BY <1>1, FS_Interval
<1>4. /\ Numbers(f, S)
      /\ \A x \in S : f[x] = IF x < m THEN a ELSE b
      /\ \A x \in S : f[x] = ScalingAt(x, scaling)
  BY DEF Numbers, TwoScalings
<1>5. /\ S \cap A = (s - hl_change)..(m - 1) /\ S \ A = m..(s + hl_change - 1)
      /\ \A x \in S : x < m <=> x \in A
  BY <1>1
<1>6. Cardinality((s - hl_change)..(m - 1)) = m - (s - hl_change)
  <2>1. s - hl_change \in Int /\ m - 1 \in Int
    BY <1>1
  <2>2. Cardinality((s - hl_change)..(m - 1)) =
           IF s - hl_change > m - 1 THEN 0 ELSE (m - 1) - (s - hl_change) + 1
    BY <2>1, FS_Interval
  <2> QED  BY <1>1, <2>2
<1>7. Cardinality(m..(s + hl_change - 1)) = s + hl_change - m
  <2>1. s + hl_change - 1 \in Int
    BY <1>1
  <2>2. Cardinality(m..(s + hl_change - 1)) =
           IF m > s + hl_change - 1 THEN 0 ELSE (s + hl_change - 1) - m + 1
    BY <2>1, FS_Interval
  <2> QED  BY <1>1, <2>2
<1>8. Selects(one, S) /\ \A t \in SUBSET S : one[t] = CHOOSE y \in t : TRUE
  BY DEF Selects
<1> HIDE DEF f, S, A, one
<1>9. ASSUME NEW g, NEW t \in SUBSET S
      PROVE  F(g)[t] = IF t = {} THEN 0 ELSE f[one[t]] + g[t \ {one[t]}]
  <2>1. F(g)[t] = IF t = {} THEN 0 ELSE ScalingAt(one[t], scaling) + g[t \ {one[t]}]
    <3>1. F(g)[t] = IF t = {} THEN 0
                    ELSE ScalingAt(CHOOSE y \in t : TRUE, scaling)
                         + g[t \ {CHOOSE y \in t : TRUE}]
      OBVIOUS
    <3>2. one[t] = CHOOSE y \in t : TRUE
      BY <1>8
    <3> HIDE DEF F
    <3> QED  BY <3>1, <3>2, Zenon
  <2>2. t # {} => one[t] \in S
    BY <1>8 DEF Selects
  <2> HIDE DEF F
  <2> QED  BY <1>4, <2>1, <2>2
<1>10. \A g : F(g) = [t \in SUBSET S |-> F(g)[t]]
  OBVIOUS
<1> HIDE DEF F
<1>11. \E g : g = F(g)
  <2>1. PICK g : \A t \in SUBSET S :
                   g[t] = IF t = {} THEN 0 ELSE f[one[t]] + g[t \ {one[t]}]
    <3>1. PICK g : Adds(g, f, one, S)
      BY <1>3, <1>4, <1>8, FoldExists
    <3> QED  BY <3>1 DEF Adds
  <2> DEFINE h == [t \in SUBSET S |-> g[t]]
  <2>2. ASSUME NEW t \in SUBSET S PROVE F(h)[t] = h[t]
    <3>1. t \ {one[t]} \in SUBSET S
      OBVIOUS
    <3>2. h[t] = g[t] /\ h[t \ {one[t]}] = g[t \ {one[t]}]
      BY <3>1
    <3> HIDE DEF h
    <3> QED  BY <1>9, <2>1, <3>2
  <2>3. F(h) = [t \in SUBSET S |-> h[t]]
    BY <1>10, <2>2
  <2>4. h = [t \in SUBSET S |-> h[t]]
    OBVIOUS
  <2> HIDE DEF h
  <2> QED  BY <2>3, <2>4
<1>12. fold = F(fold)
  BY <1>11
<1> HIDE DEF fold
<1>13. Adds(fold, f, one, S)
  BY <1>9, <1>12 DEF Adds
<1>14. fold[S] = a * Cardinality(S \cap A) + b * Cardinality(S \ A)
  <2>1. TwoNumbers(f, S, A, a, b)
    BY <1>4, <1>5 DEF TwoNumbers
  <2> QED  BY <1>3, <1>8, <1>13, <2>1, SumOfTwo
<1> QED  BY <1>2, <1>5, <1>6, <1>7, <1>14

\* The loop of get_vel_scaling ends with the sector a waypoint is in, and with
\* the last one beyond it.
LEMMA DecidesItsSector ==
    ASSUME WideSectors, NEW s \in Nat, NEW i \in SectorIds,
           start[i] <= s, s < Border(i) \/ i = n_sectors - 1
    PROVE  Deciding(s) = i
<1>1. \A k \in SectorIds : /\ start[k] \in Nat /\ Border(k) \in Nat /\ k \in Int
                          /\ Border(k) - start[k] >= 2 * hl_change
  BY SectorTypes DEF WideSectors
<1>2. hl_change \in Nat \ {0}
  BY SectorTypes
<1>3. Decides(i, s)
  BY <1>1, <1>2 DEF Decides, InHead, InBody, InTail
<1>4. ASSUME NEW k \in SectorIds, k > i PROVE ~Decides(k, s)
  <2>1. i # n_sectors - 1
    BY <1>1, <1>4, SectorTypes
  <2>2. s < start[k]
    <3>1. Border(i) <= start[k]
      BY <1>1, <1>4, SectorsInOrder
    <3> QED  BY <1>1, <2>1, <3>1
  <2> QED  BY <1>1, <1>2, <2>2 DEF Decides, InHead, InBody, InTail
<1> DEFINE Last_(k) == Decides(k, s) /\ \A j \in SectorIds : j > k => ~Decides(j, s)
<1>5. ASSUME NEW k \in SectorIds, Last_(k) PROVE k = i
  BY <1>1, <1>3, <1>4, <1>5
<1>6. Last_(i)
  BY <1>3, <1>4
<1>7. Deciding(s) = CHOOSE k \in SectorIds : Last_(k)
  BY DEF Deciding
<1> HIDE DEF Last_
<1> QED  BY <1>5, <1>6, <1>7

\* Between the ends of a ramp the interpolation is the mean of a window.
LEMMA InterpOnRamp ==
    ASSUME WideSectors, NEW s \in Int, NEW m \in Int, NEW from \in Int, NEW to \in Int,
           m - hl_change <= s, s <= m + hl_change
    PROVE  Interp(s, m, from, to) = from * (m - (s - hl_change)) + to * (s + hl_change - m)
<1>1. hl_change \in Nat \ {0}
  BY SectorTypes
<1>2. Interp(s, m, from, to) =
         from * (2 * hl_change - (s - m + hl_change)) + to * (s - m + hl_change)
  <2>1. ~(s < m - hl_change) /\ (s > m + hl_change <=> FALSE)
    BY <1>1
  <2> QED  BY <2>1 DEF Interp
<1>3. 2 * hl_change - (s - m + hl_change) = m - (s - hl_change)
      /\ s - m + hl_change = s + hl_change - m
  BY <1>1
<1> QED  BY <1>2, <1>3

\* get_vel_scaling, with its heads, bodies and tails of sectors and its two
\* special cases at the ends of the lap, gives the mean of the scalings over
\* hl_change waypoints on either side, for every division whose sectors begin with
\* the line and are at least twice hl_change long: around a waypoint only its
\* sector and a neighbour count.
THEOREM SmoothsOverWindow ==
    ASSUME WideSectors, NEW scaling \in [SectorIds -> Int],
           NEW s \in Nat, s <= Lap + hl_change
    PROVE  get_vel_scaling(s, scaling) = Smoothed(s, scaling)
<1> HIDE PlannerAssumption, SupplyAssumption, SectorTunerAssumption
<1> DEFINE span == (s - hl_change)..(s + hl_change - 1)
<1>1. hl_change \in Nat \ {0} /\ n_sectors \in Nat \ {0} /\ Lap \in Nat \ {0}
      /\ \A x \in span : x \in Int /\ s - hl_change <= x /\ x < s + hl_change
  BY SectorTypes
<1>2. \A k \in SectorIds : /\ start[k] \in Nat /\ Border(k) \in Nat /\ k \in Int
                          /\ Border(k) - start[k] >= 2 * hl_change /\ scaling[k] \in Int
                          /\ Border(k) <= Lap /\ 0 <= start[k]
  <2>1. ASSUME NEW k \in SectorIds PROVE Border(k) <= Lap
    <3>1. CASE k = n_sectors - 1
      BY <3>1, SectorTypes
    <3>2. CASE k # n_sectors - 1
      <4>1. Border(k) <= start[n_sectors - 1]
        BY <3>2, SectorTypes, SectorsInOrder
      <4> QED  BY <4>1, SectorTypes
    <3> QED  BY <3>1, <3>2
  <2>2. \A k \in SectorIds : Border(k) - start[k] >= 2 * hl_change
    BY DEF WideSectors
  <2>3. \A k \in SectorIds : start[k] \in Nat /\ Border(k) \in Nat /\ k \in Int
    BY SectorTypes
  <2>4. \A k \in SectorIds : 0 <= start[k] /\ scaling[k] \in Int
    BY <2>3
  <2> QED  BY <2>1, <2>2, <2>3, <2>4
\* The scaling of a place x of the window, by the place y of the lap that it is.
<1>3. ASSUME NEW x \in Int, NEW y \in Int, NEW k \in SectorIds,
             \/ y = x /\ 0 <= x /\ x < Lap
             \/ y = x + Lap /\ -Lap <= x /\ x < 0
             \/ y = x - Lap /\ Lap <= x /\ x < 2 * Lap,
             start[k] <= y, y < Border(k)
      PROVE  ScalingAt(x, scaling) = scaling[k]
  <2>1. x % Lap = y
    BY <1>3, PlaceOnLap
  <2> QED  BY <1>3, <2>1, ScalingOfSector
<1>4. n_sectors - 1 \in SectorIds /\ 0 \in SectorIds /\ Border(n_sectors - 1) = Lap
      /\ start[0] = 0
  BY SectorTypes DEF Lap
<1>5. CASE n_sectors = 1
  <2>1. ASSUME NEW x \in span PROVE ScalingAt(x, scaling) = scaling[0]
    <3>1. x % Lap \in Int /\ 0 <= x % Lap /\ x % Lap < Lap
      <4>1. \A y \in Int, l \in Nat \ {0} : y % l \in Int /\ 0 <= y % l /\ y % l < l
        OBVIOUS
      <4> QED  BY <1>1, <4>1
    <3> QED  BY <1>1, <1>4, <1>5, <3>1, ScalingOfSector
  <2>2. Smoothed(s, scaling) = scaling[0] * (s - (s - hl_change)) + scaling[0] * (s + hl_change - s)
    <3>1. s \in Int /\ s - hl_change <= s /\ s <= s + hl_change /\ scaling[0] \in Int
      BY <1>1, <1>2, <1>4
    <3>2. TwoScalings(scaling, s, s, scaling[0], scaling[0])
      BY <2>1 DEF TwoScalings
    <3> QED  BY <3>1, <3>2, WindowSum
  <2>3. s - (s - hl_change) = hl_change /\ s + hl_change - s = hl_change
    BY <1>1
  <2>4. \A a \in Int, h \in Nat : a * h + a * h = a * 2 * h
    OBVIOUS
  <2> QED  BY <1>1, <1>2, <1>4, <1>5, <2>2, <2>3, <2>4 DEF get_vel_scaling
<1>6. CASE n_sectors # 1
  <2>1. PICK i \in SectorIds : start[i] <= s /\ (s < Border(i) \/ i = n_sectors - 1)
    <3>1. CASE s < Lap
      BY <3>1, SectorOfPlace
    <3>2. CASE ~(s < Lap)
      <4>1. start[n_sectors - 1] <= s
        BY <1>1, <1>2, <1>4, <3>2
      <4> QED  BY <1>4, <4>1
    <3> QED  BY <3>1, <3>2
  <2>2. get_vel_scaling(s, scaling) = ScalerOf(i, s, scaling)
    BY <1>6, <2>1, DecidesItsSector DEF get_vel_scaling
  <2>4. CASE InHead(i, s)
    <3>1. start[i] <= s /\ s < start[i] + hl_change
      BY <2>4 DEF InHead
    <3>2. PrevSector(i) \in SectorIds /\ PrevSector(i) = IF i = 0 THEN n_sectors - 1 ELSE i - 1
      <4>1. /\ i - 1 \in Int /\ i \in Int /\ n_sectors \in Nat \ {0}
            /\ IF i = 0 THEN -n_sectors <= i - 1 /\ i - 1 < 0
                        ELSE 0 <= i - 1 /\ i - 1 < n_sectors
        BY <1>1, SectorTypes
      <4>2. /\ 0 <= i - 1 /\ i - 1 < n_sectors => (i - 1) % n_sectors = i - 1
            /\ -n_sectors <= i - 1 /\ i - 1 < 0
                  => (i - 1) % n_sectors = (i - 1) + n_sectors
        BY <4>1, Remainder
      <4>3. (i - 1) % n_sectors = IF i = 0 THEN n_sectors - 1 ELSE i - 1
        BY <4>1, <4>2
      <4> QED  BY <4>3, SectorTypes DEF PrevSector
    <3>3. ASSUME NEW x \in span
          PROVE  ScalingAt(x, scaling) =
                    IF x < start[i] THEN scaling[PrevSector(i)] ELSE scaling[i]
      <4>1. CASE x < start[i] /\ i # 0
        <5>1. start[i] = Border(i - 1) /\ i - 1 \in SectorIds /\ PrevSector(i) = i - 1
          BY <3>2, <4>1, SectorTypes
        <5>2. 0 <= x /\ x < Lap /\ start[i - 1] <= x /\ x < Border(i - 1)
          BY <1>1, <1>2, <3>1, <4>1, <5>1
        <5> QED  BY <1>1, <1>3, <4>1, <5>1, <5>2
      <4>2. CASE x < start[i] /\ i = 0
        <5>1. PrevSector(i) = n_sectors - 1
          BY <3>2, <4>2
        <5>2. /\ x + Lap \in Int /\ -Lap <= x /\ x < 0
              /\ start[n_sectors - 1] <= x + Lap /\ x + Lap < Border(n_sectors - 1)
          BY <1>1, <1>2, <1>4, <3>1, <4>2
        <5> QED  BY <1>1, <1>3, <1>4, <4>2, <5>1, <5>2
      <4>3. CASE ~(x < start[i])
        <5>1. 0 <= x /\ x < Lap /\ start[i] <= x /\ x < Border(i)
          BY <1>1, <1>2, <3>1, <4>3
        <5> QED  BY <1>1, <1>3, <4>3, <5>1
      <4> QED  BY <4>1, <4>2, <4>3
    <3> DEFINE a == scaling[PrevSector(i)]
               b == scaling[i]
               m == start[i]
    <3>4. a \in Int /\ b \in Int /\ m \in Int /\ s \in Int
          /\ s - hl_change <= m /\ m <= s + hl_change
      BY <1>1, <1>2, <3>1, <3>2
    <3>5. Smoothed(s, scaling) = a * (m - (s - hl_change)) + b * (s + hl_change - m)
      <4> HIDE DEF a, b, m
      <4>1. TwoScalings(scaling, s, m, a, b)
        BY <3>3 DEF a, b, m, TwoScalings
      <4> QED  BY <3>4, <4>1, WindowSum
    <3>6. ScalerOf(i, s, scaling) = Interp(s, m, a, b)
      <4>1. ~InBody(i, s)
        BY <1>1, <1>2, <3>1 DEF InBody
      <4> QED  BY <2>4, <4>1 DEF ScalerOf
    <3>7. m - hl_change <= s /\ s <= m + hl_change
      BY <1>1, <3>1, <3>4
    <3> HIDE DEF a, b, m
    <3> QED  BY <2>2, <3>4, <3>5, <3>6, <3>7, InterpOnRamp
  <2>5. CASE InBody(i, s)
    <3>1. start[i] + hl_change <= s /\ s < Border(i) - hl_change
      BY <2>5 DEF InBody
    <3>2. ASSUME NEW x \in span PROVE ScalingAt(x, scaling) = scaling[i]
      <4>1. 0 <= x /\ x < Lap /\ start[i] <= x /\ x < Border(i)
        BY <1>1, <1>2, <3>1
      <4> QED  BY <1>1, <1>3, <4>1
    <3>3. Smoothed(s, scaling) = scaling[i] * (s - (s - hl_change)) + scaling[i] * (s + hl_change - s)
      <4>1. s \in Int /\ s - hl_change <= s /\ s <= s + hl_change /\ scaling[i] \in Int
        BY <1>1, <1>2
      <4>2. TwoScalings(scaling, s, s, scaling[i], scaling[i])
        BY <3>2 DEF TwoScalings
      <4> QED  BY <4>1, <4>2, WindowSum
    <3>4. s - (s - hl_change) = hl_change /\ s + hl_change - s = hl_change
      BY <1>1
    <3>5. \A a \in Int, h \in Nat : a * h + a * h = a * 2 * h
      OBVIOUS
    <3>6. ~InHead(i, s)
      BY <1>1, <1>2, <3>1 DEF InHead
    <3> QED  BY <1>1, <1>2, <2>2, <2>5, <3>3, <3>4, <3>5, <3>6 DEF ScalerOf
  <2>6. CASE ~InHead(i, s) /\ ~InBody(i, s)
    <3>1. /\ Border(i) - hl_change <= s
          /\ i # n_sectors - 1 => s < Border(i)
          /\ s <= Border(i) + hl_change
      <4>1. Border(i) - hl_change <= s
        BY <1>1, <1>2, <2>1, <2>6 DEF InHead, InBody
      <4>2. CASE i = n_sectors - 1
        BY <1>4, <4>1, <4>2
      <4>3. CASE i # n_sectors - 1
        BY <1>1, <1>2, <2>1, <4>1, <4>3
      <4> QED  BY <4>2, <4>3
    <3>2. NextSector(i) \in SectorIds /\ NextSector(i) = IF i = n_sectors - 1 THEN 0 ELSE i + 1
      <4>1. /\ i + 1 \in Int /\ i \in Int /\ n_sectors \in Nat \ {0}
            /\ IF i = n_sectors - 1 THEN i + 1 = n_sectors /\ i + 1 < 2 * n_sectors
                                    ELSE 0 <= i + 1 /\ i + 1 < n_sectors
        BY <1>1, SectorTypes
      <4>2. /\ 0 <= i + 1 /\ i + 1 < n_sectors => (i + 1) % n_sectors = i + 1
            /\ n_sectors <= i + 1 /\ i + 1 < 2 * n_sectors
                  => (i + 1) % n_sectors = (i + 1) - n_sectors
        BY <4>1, Remainder
      <4>3. (i + 1) % n_sectors = IF i = n_sectors - 1 THEN 0 ELSE i + 1
        BY <4>1, <4>2
      <4> QED  BY <4>3, SectorTypes DEF NextSector
    <3>3. ASSUME NEW x \in span
          PROVE  ScalingAt(x, scaling) =
                    IF x < Border(i) THEN scaling[i] ELSE scaling[NextSector(i)]
      <4>1. CASE x < Border(i)
        <5>1. 0 <= x /\ x < Lap /\ start[i] <= x /\ x < Border(i)
          BY <1>1, <1>2, <3>1, <4>1
        <5> QED  BY <1>1, <1>3, <4>1, <5>1
      <4>2. CASE ~(x < Border(i)) /\ i # n_sectors - 1
        <5>1. start[i + 1] = Border(i) /\ i + 1 \in SectorIds /\ NextSector(i) = i + 1
          BY <3>2, <4>2, SectorTypes
        <5>2. 0 <= x /\ x < Lap /\ start[i + 1] <= x /\ x < Border(i + 1)
          BY <1>1, <1>2, <3>1, <4>2, <5>1
        <5> QED  BY <1>1, <1>3, <4>2, <5>1, <5>2
      <4>3. CASE ~(x < Border(i)) /\ i = n_sectors - 1
        <5>1. NextSector(i) = 0 /\ Border(i) = Lap
          BY <1>4, <3>2, <4>3
        <5>2. x - Lap \in Int /\ Lap <= x /\ x < 2 * Lap /\ start[0] <= x - Lap /\ x - Lap < Border(0)
          <6>1. Border(0) >= 2 * hl_change /\ Border(0) <= Lap /\ Border(0) \in Nat
            BY <1>1, <1>2, <1>4
          <6> QED  BY <1>1, <1>4, <3>1, <4>3, <5>1, <6>1
        <5> QED  BY <1>1, <1>3, <1>4, <4>3, <5>1, <5>2
      <4> QED  BY <4>1, <4>2, <4>3
    <3> DEFINE a == scaling[i]
               b == scaling[NextSector(i)]
               m == Border(i)
    <3>4. a \in Int /\ b \in Int /\ m \in Int /\ s \in Int
          /\ s - hl_change <= m /\ m <= s + hl_change
      BY <1>1, <1>2, <3>1, <3>2
    <3>5. Smoothed(s, scaling) = a * (m - (s - hl_change)) + b * (s + hl_change - m)
      <4> HIDE DEF a, b, m
      <4>1. TwoScalings(scaling, s, m, a, b)
        BY <3>3 DEF a, b, m, TwoScalings
      <4> QED  BY <3>4, <4>1, WindowSum
    <3>6. ScalerOf(i, s, scaling) = Interp(s, m, a, b)
      BY <2>6 DEF ScalerOf
    <3>7. m - hl_change <= s /\ s <= m + hl_change
      BY <1>1, <3>1, <3>4
    <3> HIDE DEF a, b, m
    <3> QED  BY <2>2, <3>4, <3>5, <3>6, <3>7, InterpOnRamp
  <2> QED  BY <2>4, <2>5, <2>6
<1> QED  BY <1>5, <1>6

-----------------------------------------------------------------------------
(* What the tuner scales.                                                  *)

IsMessage(m) == \E S : \E line \in Lines, vx \in Seq(S) : m = [line |-> line, vx |-> vx]

\* An original that is not shared is as it came; a shared one has been scaled.
Originals ==
    /\ glb_wpnts_og # NoMsg => IsMessage(glb_wpnts_og)
    /\ glb_wpnts_scaled # NoMsg => IsMessage(glb_wpnts_scaled)
    /\ glb_wpnts_og # NoMsg /\ ~aliased =>
          glb_wpnts_og.vx = Velocities[glb_wpnts_og.line]

\* A message is a line and as many velocities as it has.
LEMMA MessageParts ==
    ASSUME NEW m, IsMessage(m)
    PROVE  /\ m.line \in Lines /\ Len(m.vx) \in Nat /\ DOMAIN m.vx = 1..Len(m.vx)
           /\ m = [line |-> m.line, vx |-> m.vx]
BY DEF IsMessage

\* Scaling writes into the message: its line and its length stay.
LEMMA ScalingWrites ==
    ASSUME scale_points, IsMessage(Target)
    PROVE  /\ IsMessage(glb_wpnts_scaled') /\ Len(glb_wpnts_scaled'.vx) = Len(Target.vx)
           /\ \A k \in 1..Len(Target.vx) : n_sectors > 0 /\ k <= Len(glb_wpnts_og.vx) =>
                 glb_wpnts_scaled'.vx[k] = Scaled(glb_wpnts_og.vx[k], k)
<1> DEFINE n == Len(Target.vx)
           vx == [k \in DOMAIN Target.vx |-> IF n_sectors > 0 /\ k <= Len(glb_wpnts_og.vx)
                                             THEN Scaled(glb_wpnts_og.vx[k], k)
                                             ELSE Target.vx[k]]
<1>1. n \in Nat /\ DOMAIN Target.vx = 1..n /\ Target.line \in Lines
      /\ Target = [line |-> Target.line, vx |-> Target.vx]
  BY MessageParts
<1>2. glb_wpnts_scaled' = [Target EXCEPT !.vx = vx]
  BY DEF scale_points
<1>3. vx \in Seq({vx[k] : k \in 1..n}) /\ Len(vx) = n
  <2>1. vx = [k \in 1..n |-> vx[k]]
    BY <1>1
  <2> DEFINE S == {vx[k] : k \in 1..n}
  <2> HIDE DEF vx, n
  <2>2. \A k \in 1..n : vx[k] \in S
    OBVIOUS
  <2> HIDE DEF S
  <2>3. vx \in [1..n -> S]
    BY <2>1, <2>2
  <2>4. vx \in Seq(S) /\ Len(vx) = n
    <3>1. \A m \in Nat : \A f \in [1..m -> S] : f \in Seq(S) /\ Len(f) = m
      OBVIOUS
    <3>2. n \in Nat
      BY <1>1
    <3> QED  BY <2>3, <3>1, <3>2
  <2> QED  BY <2>4 DEF S
<1>4. \A k \in 1..n : n_sectors > 0 /\ k <= Len(glb_wpnts_og.vx) => vx[k] = Scaled(glb_wpnts_og.vx[k], k)
  BY <1>1
<1> HIDE DEF vx
<1>5. glb_wpnts_scaled' = [line |-> Target.line, vx |-> vx]
  BY <1>1, <1>2
<1>6. IsMessage(glb_wpnts_scaled')
  BY <1>1, <1>3, <1>5 DEF IsMessage
<1> QED  BY <1>3, <1>4, <1>5, <1>6

\* From the second message on nothing but the next message changes the original
\* velocities: the scaled ones are a message of their own.
LEMMA NextOriginals == Held /\ Originals /\ [SupplyNext]_supply_vars => Originals'
<1> SUFFICES ASSUME Held, Originals, [SupplyNext]_supply_vars PROVE Originals'
  OBVIOUS
<1>1. CASE UNCHANGED <<glb_wpnts_og, glb_wpnts_scaled, aliased>>
  BY <1>1 DEF Originals, IsMessage
<1>2. ASSUME NEW m \in in_flight, TunerReceives(m) PROVE Originals'
  <2>1. m.line \in Lines /\ Velocities[m.line] \in Seq(Nat)
    BY DEF Held, Deliveries, Lines
  <2>2. glb_wpnts_og' = [line |-> m.line, vx |-> Velocities[m.line]]
        /\ glb_wpnts_scaled' = glb_wpnts_scaled
    BY <1>2 DEF TunerReceives, global_waypoints_cb
  <2>3. IsMessage(glb_wpnts_og')
    BY <2>1, <2>2 DEF IsMessage
  <2>4. glb_wpnts_og'.line = m.line /\ glb_wpnts_og'.vx = Velocities[m.line]
    BY <2>2
  <2>5. glb_wpnts_scaled' # NoMsg => IsMessage(glb_wpnts_scaled')
    BY <2>2 DEF Originals
  <2> QED  BY <2>3, <2>4, <2>5 DEF Originals
<1>3. CASE TunerTimer
  <2>1. scale_points /\ glb_wpnts_og # NoMsg
    BY <1>3 DEF TunerTimer, timer_callback
  <2>2. IsMessage(Target)
    BY <2>1 DEF Target, Originals
  <2>3. IsMessage(glb_wpnts_scaled')
    BY <2>1, <2>2, ScalingWrites
  <2>4. CASE Shared
    <3>1. glb_wpnts_og' = glb_wpnts_scaled' /\ aliased' = TRUE
      BY <2>1, <2>4 DEF scale_points, Shared
    <3> QED  BY <2>3, <3>1 DEF Originals
  <2>5. CASE ~Shared
    <3>1. glb_wpnts_og' = glb_wpnts_og /\ ~aliased
      BY <2>1, <2>5 DEF scale_points, Shared
    <3> QED  BY <2>1, <2>3, <3>1 DEF Originals
  <2> QED  BY <2>4, <2>5
<1> QED
  BY <1>1, <1>2, <1>3 DEF SupplyNext, supply_vars, PlannerStep, StartRepublisher,
     global_republisher, glb_wpnts_cb, StartTuner, TunerEvent, dyn_param_cb,
     TunerMarkers, marker_callback, FinishSectors, ChangeParameter, SetParameter, tuner_vars

\* With sectors that begin with the line, are at least twice hl_change long and
\* end about where it ends, what the tuner publishes from its second message on
\* is the line it received last, scaled once by the smoothed scalings: on ramps
\* between two sectors, across the end of the lap, and whatever was scaled before.
THEOREM ScalesOnce ==
    ASSUME WideSectors, LinesOnSectors
    PROVE  SupplySpec => ScaledOnce
<1> DEFINE vx == ScaledBy(glb_wpnts_og.line, sectors_params.scaling)
<1>1. ASSUME TunerHolds, Originals, TunerTimer, ~Shared, tuner_alive'
      PROVE  SubSeq(glb_wpnts_scaled'.vx, 1, Len(vx)) = vx
  <2> DEFINE line == glb_wpnts_og.line
             v == Velocities[line]
             n == Len(v)
             out == glb_wpnts_scaled'.vx
             scaling == sectors_params.scaling
  <2>1. /\ scale_points /\ glb_wpnts_og # NoMsg /\ IsMessage(glb_wpnts_og)
        /\ IsMessage(Target) /\ glb_wpnts_og.vx = v
    BY <1>1 DEF TunerTimer, timer_callback, Target, Originals, Shared
  <2>2. line \in Lines /\ v \in Seq(Nat) /\ n \in Nat /\ DOMAIN v = 1..n
    <3>1. line \in Lines
      BY <2>1, MessageParts
    <3>2. v \in Seq(Nat)
      BY <3>1 DEF Lines
    <3> QED  BY <3>1, <3>2
  <2>3. n <= Len(Target.vx) /\ Len(Target.vx) \in Nat
    <3>1. n_sectors > 0
      BY SectorTypes
    <3> QED  BY <1>1, <2>1, <3>1, MessageParts DEF scale_points
  <2>4. IsMessage(glb_wpnts_scaled') /\ Len(out) = Len(Target.vx)
        /\ \A k \in 1..Len(Target.vx) : k <= n => out[k] = Scaled(v[k], k)
    BY <2>1, ScalingWrites, SectorTypes
  <2>5. vx = [k \in 1..n |-> (v[k] * Smoothed(k - 1, scaling)) \div Unit]
    BY <2>2 DEF ScaledBy
  <2>6. ASSUME NEW k \in 1..n
        PROVE  out[k] = (v[k] * Smoothed(k - 1, scaling)) \div Unit
    <3>1. k - 1 \in Nat /\ k - 1 <= Lap + hl_change
      <4>1. n <= Lap + hl_change + 1
        BY <2>2 DEF LinesOnSectors
      <4> QED  BY <2>2, <4>1, SectorTypes
    <3>2. scaling \in [SectorIds -> Int]
      BY <1>1, SectorTypes DEF TunerHolds, Settings
    <3>3. get_vel_scaling(k - 1, scaling) = Smoothed(k - 1, scaling)
      <4> HIDE DEF scaling
      <4> QED  BY <3>1, <3>2, SmoothsOverWindow
    <3>4. out[k] = Scaled(v[k], k)
      BY <2>2, <2>3, <2>4
    <3> QED  BY <3>3, <3>4 DEF Scaled
  <2> HIDE DEF v, n, out, scaling, vx
  <2>7. vx = [k \in 1..n |-> out[k]] /\ Len(vx) = n
    <3>1. vx = [k \in 1..n |-> out[k]]
      BY <2>5, <2>6
    <3> QED  BY <2>2, <3>1
  <2>8. \E S : out \in Seq(S)
    BY <2>4 DEF IsMessage, out
  <2>9. SubSeq(out, 1, n) = [k \in 1..n |-> out[k]]
    BY <2>2, <2>3, <2>4, <2>8
  <2> QED  BY <2>7, <2>9 DEF out
<1>2. SupplyInit => Originals
  BY DEF SupplyInit, TunerInit, Originals
<1>3. TunerHolds /\ Originals /\ [SupplyNext]_supply_vars =>
         [(TunerTimer /\ ~Shared /\ tuner_alive') =>
            LET w == ScaledBy(glb_wpnts_og.line, sectors_params.scaling)
            IN SubSeq(glb_wpnts_scaled'.vx, 1, Len(w)) = w]_supply_vars
  BY <1>1
<1> QED
  BY <1>2, <1>3, SupplyInvariant, NextOriginals, PTL DEF SupplySpec, ScaledOnce
=============================================================================
