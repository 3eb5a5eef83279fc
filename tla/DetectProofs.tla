---------------------------- MODULE DetectProofs ----------------------------
(***************************************************************************)
(* Proofs about the detection, for any line, any scans and any parameters: *)
(* it dies of its arrays only while a changed parameter rebuilds them, and *)
(* a loop that nothing disturbs judges every cluster by the line.          *)
(*                                                                         *)
(* IInv is about the shape of the arrays, Contents and Judged about what   *)
(* is in them and about what the loop has made of it so far.               *)
(***************************************************************************)
EXTENDS Detect, RecursionLemmas, SequenceTheorems

Types ==
    /\ changes \in Nat /\ track_length \in Nat /\ idx \in Nat
    /\ s_array \in Seq(Nat)
    /\ d_right_array \in Seq(Int) /\ d_left_array \in Seq(Int)
    /\ path_needs_update \in BOOLEAN /\ alive \in BOOLEAN
    /\ params \in Params
    /\ path_pc \in {"idle", "clear", "append_s", "append_d", "extremes", "reset"}

\* The arrays hold n waypoints of s and m of each border.
Filled(n, m) ==
    Len(s_array) = n /\ Len(d_right_array) = m /\ Len(d_left_array) = m

\* How far pathCb has got tells how long the arrays are.
ArraysInStep ==
    /\ path_pc \in {"idle", "reset"} /\ track_length # 0 => Filled(Len(Line), Len(Line))
    /\ path_pc = "reset" => track_length # 0
    /\ path_pc = "clear" => Len(s_array) = 0
    /\ path_pc = "append_s" => \E n \in 0..(Len(Line) - 1) : Filled(n, n)
    /\ path_pc = "append_d" => \E n \in 0..(Len(Line) - 1) : Filled(n + 1, n)
    /\ path_pc = "extremes" => Filled(Len(Line), Len(Line))
    /\ Len(s_array) <= Len(Line)

\* With a path to look at, pathCb rebuilds the arrays only for a change.
RebuiltForChange ==
    /\ path_needs_update => changes > 0
    /\ Rebuilding /\ track_length # 0 => changes > 0

\* The loop runs only with a path, and its index is one of the line.
IndexOnLine ==
    /\ loop_pc # "idle" => track_length # 0
    /\ loop_pc = "index" => idx \in 1..Len(Line)

\* How far the rebuild has come, and what loop may rely on meanwhile.
IInv == Types /\ ArraysInStep /\ RebuiltForChange /\ IndexOnLine /\ DiesOnlyInRebuild

\* A line has a waypoint.
LEMMA LineLength == Len(Line) \in Nat \ {0}
  BY DetectAssumption

\* What a waypoint of the line holds.
LEMMA WaypointTypes ==
  ASSUME NEW i \in 1..Len(Line)
  PROVE  Line[i].s_m \in Nat /\ Line[i].d_right \in Int /\ Line[i].d_left \in Int
<1>1. Line \in Seq([s_m : Nat, d_right : Int, d_left : Int])
  BY DetectAssumption
<1>2. Line[i] \in [s_m : Nat, d_right : Int, d_left : Int]
  BY <1>1, ElementOfSeq
<1> QED
  BY <1>2

\* The last waypoint lies ahead of the start, so there is a path to look at.
LEMMA LastWaypoint == Last(Line).s_m \in Nat \ {0}
<1>1. Last(Line) = Line[Len(Line)] /\ Last(Line).s_m > 0
  BY DetectAssumption DEF Last
<1>2. Line[Len(Line)].s_m \in Nat
  BY LineLength, WaypointTypes
<1> QED
  BY <1>1, <1>2

\* The empty arrays.
LEMMA NoEntries == <<>> \in Seq(Nat) /\ <<>> \in Seq(Int) /\ Len(<<>>) = 0
  OBVIOUS

\* The numbers up to n are n numbers.
LEMMA FirstNumbers ==
  ASSUME NEW n \in Nat
  PROVE  IsFiniteSet(1..n) /\ Cardinality(1..n) = n
<1>1. IsFiniteSet(1..n) /\ Cardinality(1..n) = IF 1 > n THEN 0 ELSE n - 1 + 1
  BY FS_Interval
<1> QED
  BY <1>1

\* bisect_left counts entries of the array, so it is never beyond its end; the
\* index taken from it is one of the line as long as the array is no longer
\* than the line.
LEMMA IndexInRange ==
  ASSUME Types, Len(s_array) <= Len(Line), NEW s
  PROVE  IndexOf(s) \in 1..Len(Line)
<1> DEFINE before == {i \in DOMAIN s_array : s_array[i] < s}
<1>1. Len(s_array) \in Nat /\ DOMAIN s_array = 1..Len(s_array)
  BY DEF Types
<1>2. IsFiniteSet(1..Len(s_array)) /\ Cardinality(1..Len(s_array)) = Len(s_array)
  BY <1>1, FirstNumbers
<1>3. Cardinality(before) <= Len(s_array) /\ IsFiniteSet(before)
  BY <1>1, <1>2, FS_Subset
<1>4. Cardinality(before) \in Nat
  BY <1>3, FS_CardinalityType
<1>5. bisect_left(s) \in Nat /\ bisect_left(s) <= Len(s_array)
  BY <1>3, <1>4 DEF bisect_left
<1> QED
  BY <1>1, <1>5, LineLength DEF IndexOf

\* A node that has just started has no path and has had no change.
LEMMA InitIInv == DetectInit => IInv
<1> SUFFICES ASSUME DetectInit PROVE IInv
  OBVIOUS
<1>1. Types
  BY NoEntries DEF DetectInit, Types
<1>2. ArraysInStep
  BY LineLength, NoEntries DEF DetectInit, ArraysInStep
<1>3. RebuiltForChange /\ IndexOnLine /\ DiesOnlyInRebuild
  BY DEF DetectInit, RebuiltForChange, IndexOnLine, DiesOnlyInRebuild, Rebuilding
<1> QED
  BY <1>1, <1>2, <1>3 DEF IInv

\* The steps of pathCb.
LEMMA PathKeepsIInv == IInv /\ alive /\ (pathCb \/ PathStep) => IInv'
<1> SUFFICES ASSUME IInv, alive, pathCb \/ PathStep PROVE IInv'
  OBVIOUS
<1> USE LineLength DEF IInv, Types, RebuiltForChange, IndexOnLine,
        DiesOnlyInRebuild, Rebuilding, PathUnchanged, loop_vars, input_vars
<1>1. CASE pathCb
  <2>1. CASE MustRebuild
    <3>1. s_array' \in Seq(Nat) /\ Len(s_array') = 0
      BY <1>1, <2>1, NoEntries DEF pathCb
    <3>2. ArraysInStep'
      BY <1>1, <2>1, <3>1 DEF pathCb, ArraysInStep
    <3> QED
      BY <1>1, <2>1, <3>1, <3>2 DEF pathCb, MustRebuild
  <2>2. CASE ~MustRebuild
    BY <1>1, <2>2 DEF pathCb, MustRebuild, ArraysInStep, Filled
  <2> QED
    BY <2>1, <2>2
<1>2. CASE ClearBoundaries
  <2>1. ArraysInStep'
    <3>1. path_pc' = "append_s" /\ Filled(0, 0)'
      BY <1>2, NoEntries DEF ClearBoundaries, ArraysInStep, Filled
    <3> QED
      BY <1>2, <3>1 DEF ArraysInStep, Filled
  <2> QED
    BY <1>2, <2>1, NoEntries DEF ClearBoundaries
<1>3. CASE AppendS
  <2>1. PICK n \in 0..(Len(Line) - 1) : Filled(n, n)
    BY <1>3 DEF AppendS, ArraysInStep
  <2>2. Line[n + 1].s_m \in Nat
    BY <2>1, n + 1 \in 1..Len(Line), WaypointTypes
  <2>3. s_array' \in Seq(Nat) /\ Len(s_array') = n + 1
    BY <1>3, <2>1, <2>2 DEF AppendS, Filled
  <2>4. ArraysInStep'
    BY <1>3, <2>1, <2>3 DEF AppendS, ArraysInStep, Filled
  <2> QED
    BY <1>3, <2>3, <2>4 DEF AppendS
<1>4. CASE AppendBoundaries
  <2>1. PICK n \in 0..(Len(Line) - 1) : Filled(n + 1, n)
    BY <1>4 DEF AppendBoundaries, ArraysInStep
  <2>2. Waypoint.d_right \in Int /\ Waypoint.d_left \in Int
    BY <2>1, WaypointTypes DEF Waypoint, Filled
  <2>3. params.boundaries_inflation \in Nat
    BY DetectAssumption
  <2>4. /\ d_right_array' \in Seq(Int) /\ Len(d_right_array') = n + 1
        /\ d_left_array' \in Seq(Int) /\ Len(d_left_array') = n + 1
    BY <1>4, <2>1, <2>2, <2>3 DEF AppendBoundaries, Filled
  <2>5. ArraysInStep'
    BY <1>4, <2>1, <2>4 DEF AppendBoundaries, ArraysInStep, Filled
  <2> QED
    BY <1>4, <2>4, <2>5 DEF AppendBoundaries
<1>5. CASE Extremes
  <2>1. track_length' \in Nat \ {0}
    BY <1>5, LastWaypoint DEF Extremes
  <2> QED
    BY <1>5, <2>1 DEF Extremes, ArraysInStep, Filled
<1>6. CASE ResetFlag
  BY <1>6 DEF ResetFlag, boundaries, ArraysInStep, Filled
<1> QED
  BY <1>1, <1>2, <1>3, <1>4, <1>5, <1>6 DEF PathStep

\* The steps of loop leave the boundaries alone; what they read is on the line,
\* or the arrays are being rebuilt.
LEMMA LoopKeepsIInv ==
  IInv /\ alive /\ (LoopStep \/ \E found \in BOOLEAN : StartLoop(found)) => IInv'
<1> SUFFICES ASSUME IInv, alive, LoopStep \/ \E found \in BOOLEAN : StartLoop(found)
             PROVE  IInv'
  OBVIOUS
<1>1. LoopUnchanged
  BY DEF LoopStep, LookAt, IndexBoundaries, Publish, StartLoop
<1>2. UNCHANGED <<params, changes, path_needs_update, path_pc, s_array,
                  d_right_array, d_left_array, track_length>>
  BY <1>1 DEF LoopUnchanged, path_vars, boundaries
<1>3. ArraysInStep' /\ RebuiltForChange' /\ UNCHANGED Rebuilding
  BY <1>2 DEF IInv, ArraysInStep, RebuiltForChange, Rebuilding, Filled
<1>4. idx' \in Nat /\ alive' \in BOOLEAN /\ IndexOnLine' /\ DiesOnlyInRebuild'
  <2> USE <1>2, <1>3 DEF IInv, Types, IndexOnLine, DiesOnlyInRebuild
  <2>1. CASE \E found \in BOOLEAN : StartLoop(found)
    BY <2>1 DEF StartLoop
  <2>2. CASE LookAt
    <3>1. CASE loop_pc' = "index" /\ idx' = IndexOf(cloud[at].s)
      BY <2>2, <3>1, IndexInRange DEF LookAt, ArraysInStep
    <3>2. CASE UNCHANGED <<loop_pc, idx>>
      BY <2>2, <3>2 DEF LookAt
    <3> QED
      BY <2>2, <3>1, <3>2 DEF LookAt
  <2>3. CASE IndexBoundaries
    <3>1. alive' = FALSE => idx > Len(d_right_array) \/ idx > Len(d_left_array)
      BY <2>3 DEF IndexBoundaries
    <3>2. ~Rebuilding => Filled(Len(Line), Len(Line))
      BY <2>3 DEF IndexBoundaries, ArraysInStep, Rebuilding
    <3>3. idx \in 1..Len(Line) /\ track_length # 0
      BY <2>3 DEF IndexBoundaries
    <3>4. alive' = FALSE => Rebuilding /\ changes > 0
      BY <3>1, <3>2, <3>3, LineLength DEF Filled, RebuiltForChange
    <3> QED
      BY <2>3, <3>3, <3>4 DEF IndexBoundaries
  <2>4. CASE Publish
    BY <2>4 DEF Publish
  <2> QED
    BY <2>1, <2>2, <2>3, <2>4 DEF LoopStep
<1> QED
  BY <1>2, <1>3, <1>4 DEF IInv, Types

\* Messages and parameters: a change raises the flag and counts.
LEMMA InputKeepsIInv ==
  ASSUME IInv, alive,
         \/ \E msg \in Scans : laserCb(msg)
         \/ \E s \in CarPositions : carStateCb(s)
         \/ \E values \in Params : dyn_param_cb(values)
  PROVE  IInv'
<1> USE DEF IInv, Types, ArraysInStep, RebuiltForChange, IndexOnLine,
        DiesOnlyInRebuild, Rebuilding, Filled, path_vars, boundaries, loop_vars
<1>1. CASE \E msg \in Scans : laserCb(msg)
  BY <1>1 DEF laserCb
<1>2. CASE \E s \in CarPositions : carStateCb(s)
  BY <1>2 DEF carStateCb
<1>3. CASE \E values \in Params : dyn_param_cb(values)
  BY <1>3 DEF dyn_param_cb
<1> QED
  BY <1>1, <1>2, <1>3

\* No step of any of the three threads breaks the invariant.
LEMMA NextIInv == IInv /\ [DetectNext]_detect_vars => IInv'
<1> SUFFICES ASSUME IInv, [DetectNext]_detect_vars PROVE IInv'
  OBVIOUS
<1>1. CASE UNCHANGED detect_vars
  BY <1>1 DEF detect_vars, path_vars, boundaries, loop_vars, IInv, Types,
     ArraysInStep, RebuiltForChange, IndexOnLine, DiesOnlyInRebuild,
     Rebuilding, Filled
<1> QED
  BY <1>1, PathKeepsIInv, LoopKeepsIInv, InputKeepsIInv DEF DetectNext

\* The arrays, the step pathCb is at and the index loop holds agree in every
\* reachable state, for every line, scan and interleaving of the threads.
THEOREM DetectInvariant == DetectSpec => []IInv
  BY InitIInv, NextIInv, PTL DEF DetectSpec

\* A cluster off the arrays ends the node only in a rebuild for a change: the
\* index is one of the line, and outside a rebuild the arrays are as long.
THEOREM DeathNeedsChange == DetectSpec => []DiesOnlyInRebuild
<1>1. IInv => DiesOnlyInRebuild
  BY DEF IInv
<1> QED  BY <1>1, DetectInvariant, PTL

-----------------------------------------------------------------------------
(* What is in the arrays.                                                  *)

\* Each border has come from a waypoint of the line and the inflation of some
\* moment; the lateral arrays never differ in length.
FromTheLine ==
    /\ Len(d_right_array) = Len(d_left_array)
    /\ path_pc = "idle" /\ track_length = 0 => Filled(0, 0)
    /\ \A i \in 1..Len(s_array) : s_array[i] = Line[i].s_m
    /\ \A i \in 1..Len(d_right_array) : \E p \in Params :
          /\ d_right_array[i] = Line[i].d_right - p.boundaries_inflation
          /\ d_left_array[i] = Line[i].d_left - p.boundaries_inflation

\* The shortcuts of laserPointOnTrack know the narrowest and the widest place.
ExtremesFound ==
    /\ track_length \in {0, Last(Line).s_m}
    /\ ~Rebuilding /\ track_length # 0 =>
          biggest_d = Max(HalfWidths) /\ smallest_d = Min(HalfWidths)

Contents == FromTheLine /\ ExtremesFound

\* Before the first path the arrays are empty.
LEMMA InitContents == DetectInit => Contents
  BY NoEntries DEF DetectInit, Contents, FromTheLine, ExtremesFound, Filled

\* What pathCb writes into an array is what the line has at that place, and
\* the extremes are those of the whole array.
LEMMA PathKeepsContents ==
    ASSUME IInv, IInv', Contents, pathCb \/ PathStep
    PROVE  Contents'
<1> USE DEF Contents, FromTheLine, ExtremesFound, Rebuilding, PathUnchanged
<1>1. CASE pathCb
  <2>1. CASE MustRebuild
    BY <1>1, <2>1, NoEntries DEF pathCb, IInv, Types
  <2>2. CASE ~MustRebuild
    BY <1>1, <2>2 DEF pathCb, MustRebuild, Filled, HalfWidths
  <2> QED  BY <2>1, <2>2
<1>2. CASE ClearBoundaries
  BY <1>2, NoEntries DEF ClearBoundaries
<1>3. CASE AppendS
  <2>1. PICK n \in 0..(Len(Line) - 1) : Filled(n, n)
    BY <1>3 DEF IInv, ArraysInStep, AppendS
  <2>2. s_array \in Seq(Nat) /\ Line[n + 1].s_m \in Nat
    BY <2>1, n + 1 \in 1..Len(Line), LineLength, WaypointTypes DEF IInv, Types
  <2>3. s_array' = Append(s_array, Line[n + 1].s_m) /\ Len(s_array) = n
    BY <1>3, <2>1 DEF AppendS, Filled
  <2>4. \A i \in 1..Len(s_array') : s_array'[i] = Line[i].s_m
    BY <2>2, <2>3
  <2> QED  BY <1>3, <2>4 DEF AppendS
<1>4. CASE AppendBoundaries
  <2>1. PICK n \in 0..(Len(Line) - 1) : Filled(n + 1, n)
    BY <1>4 DEF IInv, ArraysInStep, AppendBoundaries
  <2>2. /\ Waypoint.d_right \in Int /\ Waypoint.d_left \in Int
        /\ Waypoint = Line[n + 1]
    BY <2>1, LineLength, WaypointTypes DEF Waypoint, Filled
  <2>3. params \in Params /\ params.boundaries_inflation \in Nat
    BY DetectAssumption DEF IInv, Types
  <2> DEFINE r == Waypoint.d_right - params.boundaries_inflation
             l == Waypoint.d_left - params.boundaries_inflation
  <2>4. /\ d_right_array' = Append(d_right_array, r) /\ r \in Int
        /\ d_left_array' = Append(d_left_array, l) /\ l \in Int
        /\ d_right_array \in Seq(Int) /\ d_left_array \in Seq(Int)
        /\ Len(d_right_array) = n /\ Len(d_left_array) = n
    BY <1>4, <2>1, <2>2, <2>3 DEF AppendBoundaries, Filled, IInv, Types
  <2>5. r = Line[n + 1].d_right - params.boundaries_inflation
        /\ l = Line[n + 1].d_left - params.boundaries_inflation
    BY <2>2
  <2> HIDE DEF r, l
  <2>6. /\ Len(d_right_array') = n + 1 /\ Len(d_left_array') = n + 1
        /\ d_right_array'[n + 1] = r /\ d_left_array'[n + 1] = l
        /\ \A i \in 1..n : d_right_array'[i] = d_right_array[i]
                           /\ d_left_array'[i] = d_left_array[i]
    BY <2>4
  <2>7. ASSUME NEW i \in 1..(n + 1)
        PROVE  \E p \in Params :
                  /\ d_right_array'[i] = Line[i].d_right - p.boundaries_inflation
                  /\ d_left_array'[i] = Line[i].d_left - p.boundaries_inflation
    <3>1. CASE i = n + 1
      BY <2>3, <2>5, <2>6, <3>1
    <3>2. CASE i \in 1..n
      BY <2>4, <2>6, <3>2
    <3> QED  BY <3>1, <3>2
  <2>8. UNCHANGED <<s_array, biggest_d, smallest_d, track_length>>
        /\ path_pc' \in {"append_s", "extremes"}
    BY <1>4 DEF AppendBoundaries
  <2> QED  BY <2>6, <2>7, <2>8
<1>5. CASE Extremes
  <2>1. HalfWidths' = HalfWidths
    BY <1>5 DEF Extremes, HalfWidths
  <2> QED  BY <1>5, <2>1 DEF Extremes
<1>6. CASE ResetFlag
  <2>1. HalfWidths' = HalfWidths
    BY <1>6 DEF ResetFlag, boundaries, HalfWidths
  <2> QED  BY <1>6, <2>1 DEF ResetFlag, boundaries, IInv, ArraysInStep
<1> QED  BY <1>1, <1>2, <1>3, <1>4, <1>5, <1>6 DEF PathStep

\* The other threads read the arrays and leave them alone.
LEMMA NextContents == IInv /\ IInv' /\ Contents /\ [DetectNext]_detect_vars => Contents'
<1> SUFFICES ASSUME IInv, IInv', Contents, [DetectNext]_detect_vars PROVE Contents'
  OBVIOUS
<1>1. CASE pathCb \/ PathStep
  BY <1>1, PathKeepsContents
<1>2. CASE UNCHANGED <<boundaries, path_pc>>
  BY <1>2 DEF boundaries, Contents, FromTheLine, ExtremesFound, Rebuilding, Filled, HalfWidths
<1>3. ~(pathCb \/ PathStep) => UNCHANGED <<boundaries, path_pc>>
  BY DEF DetectNext, detect_vars, path_vars, laserCb, carStateCb, dyn_param_cb,
         StartLoop, LoopStep, LookAt, IndexBoundaries, Publish, LoopUnchanged
<1> QED  BY <1>1, <1>2, <1>3

-----------------------------------------------------------------------------
(* What the loop has sampled.                                              *)

Clusters == [s : Nat, d : Int, points : Nat, size : Nat]

LoopTypes ==
    /\ changes \in 0..MaxChanges /\ calm \in BOOLEAN
    /\ loop_pc \in {"idle", "look", "index"}
    /\ scans \in Seq(Clusters) /\ scans \in Scans \cup {<<>>} /\ car_s \in Nat
    /\ cloud \in Seq(Clusters) /\ sampled_s \in Nat
    /\ at \in 1..(Len(cloud) + 1) /\ idx \in 0..Len(Line)
    /\ loop_pc = "index" => at <= Len(cloud)
    /\ kept \subseteq Range(cloud)

\* Before the first loop no cluster is looked at.
LEMMA InitLoopTypes == DetectInit => LoopTypes
<1>1. MaxChanges \in Nat
  BY DetectAssumption
<1>2. <<>> \in Seq(Clusters) /\ Len(<<>>) = 0
  OBVIOUS
<1>3. {} \subseteq Range(cloud) /\ 0 \in 0..Len(Line) /\ 0 \in 0..MaxChanges
  BY <1>1, LineLength
<1> HIDE DEF Clusters
<1> SUFFICES ASSUME DetectInit PROVE LoopTypes
  OBVIOUS
<1>4. /\ cloud = <<>> /\ scans = <<>> /\ at = 1 /\ idx = 0 /\ kept = {} /\ car_s = 0
      /\ sampled_s = 0 /\ changes = 0 /\ calm = FALSE /\ loop_pc = "idle"
  BY DEF DetectInit
<1>5. Len(cloud) = 0 /\ 1 \in 1..(Len(cloud) + 1) /\ cloud \in Seq(Clusters) /\ scans \in Seq(Clusters)
  BY <1>2, <1>4
<1>6. kept \subseteq Range(cloud)
  BY <1>4
<1> QED  BY <1>3, <1>4, <1>5, <1>6 DEF LoopTypes

\* A cluster that is kept is one of the cloud, and the loop goes on to the next.
LEMMA KeepTypes ==
    ASSUME LoopTypes, NEW yes \in BOOLEAN, at <= Len(cloud), Keep(yes)
    PROVE  kept' \subseteq Range(cloud) /\ at' \in 1..(Len(cloud) + 1)
<1>1. Len(cloud) \in Nat /\ at \in 1..Len(cloud) /\ DOMAIN cloud = 1..Len(cloud)
  BY DEF LoopTypes
<1>2. cloud[at] \in Range(cloud)
  BY <1>1 DEF Range
<1> QED  BY <1>1, <1>2 DEF Keep, LoopTypes

\* The thread of loop goes through the clusters of one scan and keeps some.
LEMMA LoopKeepsTypes ==
    ASSUME IInv, LoopTypes, LoopStep \/ \E found \in BOOLEAN : StartLoop(found)
    PROVE  LoopTypes'
<1>1. LoopUnchanged
  BY DEF LoopStep, LookAt, IndexBoundaries, Publish, StartLoop
<1>2. UNCHANGED <<changes, scans, car_s>>
  BY <1>1 DEF LoopUnchanged, input_vars
<1>3. Len(cloud) \in Nat
  BY DEF LoopTypes
<1>4. <<>> \in Seq(Clusters) /\ Len(<<>>) = 0
  OBVIOUS
<1> HIDE DEF Clusters
<1>5. CASE \E found \in BOOLEAN : StartLoop(found)
  <2>1. cloud' \in Seq(Clusters) /\ Len(cloud') \in Nat
    BY <1>4, <1>5 DEF StartLoop, LoopTypes
  <2>2. calm' \in BOOLEAN
    BY <1>5 DEF StartLoop, Rebuilding
  <2> QED  BY <1>2, <1>5, <2>1, <2>2 DEF StartLoop, LoopTypes
<1>6. CASE LookAt
  <2>1. at <= Len(cloud) /\ cloud' = cloud /\ sampled_s' = sampled_s /\ calm' = calm
    BY <1>6 DEF LookAt
  <2>2. CASE loop_pc' = "index" /\ idx' = IndexOf(cloud[at].s) /\ UNCHANGED <<at, kept>>
    <3>1. idx' \in 0..Len(Line)
      BY <2>2, IndexInRange, LineLength DEF IInv, ArraysInStep
    <3> QED  BY <1>2, <2>1, <2>2, <3>1 DEF LoopTypes
  <2>3. CASE /\ Keep(cloud[at].points >= params.min_obs_size /\ Accepted(cloud[at]))
             /\ UNCHANGED <<loop_pc, idx>>
    <3>1. kept' \subseteq Range(cloud) /\ at' \in 1..(Len(cloud) + 1)
      BY <2>1, <2>3, KeepTypes
    <3>2. loop_pc' = "look"
      BY <1>6, <2>3 DEF LookAt
    <3> QED  BY <1>2, <2>1, <2>3, <3>1, <3>2 DEF LoopTypes
  <2> QED  BY <1>6, <2>2, <2>3 DEF LookAt
<1>7. CASE IndexBoundaries
  <2>1. at <= Len(cloud) /\ UNCHANGED <<cloud, sampled_s, calm, idx>>
    BY <1>7 DEF IndexBoundaries, LoopTypes
  <2>2. CASE UNCHANGED <<loop_pc, at, kept>>
    BY <1>2, <2>1, <2>2 DEF LoopTypes
  <2>3. CASE /\ Keep(~(cloud[at].d <= -d_right_array[idx])
                       /\ cloud[at].d < d_left_array[idx])
             /\ loop_pc' = "look"
    <3>1. kept' \subseteq Range(cloud) /\ at' \in 1..(Len(cloud) + 1)
      BY <2>1, <2>3, KeepTypes
    <3> QED  BY <1>2, <2>1, <2>3, <3>1 DEF LoopTypes
  <2> QED  BY <1>7, <2>2, <2>3 DEF IndexBoundaries
<1>8. CASE Publish
  <2>1. /\ loop_pc' = "idle" /\ cloud' = <<>> /\ kept' = {} /\ at' = 1 /\ idx' = 0
        /\ calm' = FALSE /\ sampled_s' = sampled_s
    BY <1>8 DEF Publish
  <2>2. {} \subseteq Range(cloud') /\ 0 \in 0..Len(Line) /\ FALSE \in BOOLEAN
    BY LineLength
  <2>3. Len(cloud') = 0 /\ 1 \in 1..(Len(cloud') + 1) /\ cloud' \in Seq(Clusters)
    BY <1>4, <2>1
  <2> QED  BY <1>2, <2>1, <2>2, <2>3 DEF LoopTypes
<1> QED  BY <1>5, <1>6, <1>7, <1>8 DEF LoopStep

\* Neither pathCb nor a parameter event touches what loop works on.
LEMMA NextLoopTypes == IInv /\ LoopTypes /\ [DetectNext]_detect_vars => LoopTypes'
<1> SUFFICES ASSUME IInv, LoopTypes, [DetectNext]_detect_vars PROVE LoopTypes'
  OBVIOUS
<1> HIDE DEF Clusters
<1>1. CASE LoopStep \/ \E found \in BOOLEAN : StartLoop(found)
  BY <1>1, LoopKeepsTypes
<1>2. CASE pathCb \/ PathStep
  <2>1. calm' \in {calm, FALSE} /\ PathUnchanged
    BY <1>2 DEF pathCb, PathStep, ClearBoundaries, AppendS, AppendBoundaries, Extremes,
                ResetFlag
  <2> QED  BY <2>1 DEF PathUnchanged, loop_vars, input_vars, LoopTypes
<1>3. CASE \E msg \in Scans : laserCb(msg)
  <2>1. Scans \subseteq Seq(Clusters)
    BY DetectAssumption DEF Clusters
  <2> QED  BY <1>3, <2>1 DEF laserCb, loop_vars, LoopTypes
<1>4. CASE \E s \in CarPositions : carStateCb(s)
  BY <1>4, DetectAssumption DEF carStateCb, loop_vars, LoopTypes
<1>5. CASE \E values \in Params : dyn_param_cb(values)
  <2>1. MaxChanges \in Nat /\ changes \in 0..MaxChanges
    BY DetectAssumption DEF LoopTypes
  <2>2. changes < MaxChanges /\ changes' = changes + 1 /\ calm' = FALSE
    BY <1>5 DEF dyn_param_cb
  <2>3. changes' \in 0..MaxChanges
    BY <2>1, <2>2
  <2>4. UNCHANGED <<input_vars, loop_vars>>
    BY <1>5 DEF dyn_param_cb
  <2> QED  BY <2>2, <2>3, <2>4 DEF input_vars, loop_vars, LoopTypes
<1>6. CASE UNCHANGED detect_vars
  BY <1>6 DEF detect_vars, input_vars, loop_vars, LoopTypes
<1> QED  BY <1>1, <1>2, <1>3, <1>4, <1>5, <1>6 DEF DetectNext

\* Values stay in their ranges, the arrays in step with each other, what they
\* hold comes from the line, and outside of a rebuild the extremes are those of
\* the arrays, whatever the threads do in between.
THEOREM DetectTypeCorrect == DetectSpec => []DetectTypeOK
<1>1. ASSUME IInv, Contents, LoopTypes PROVE DetectTypeOK
  <2>1. /\ DOMAIN s_array = 1..Len(s_array) /\ DOMAIN d_right_array = 1..Len(d_right_array)
        /\ Len(s_array) \in Nat /\ Len(d_right_array) \in Nat
    BY <1>1 DEF IInv, Types
  <2>2. path_pc # "clear" => Len(s_array) - Len(d_right_array) \in {0, 1}
    <3> USE <1>1 DEF IInv, Types, ArraysInStep, Contents, FromTheLine, Filled
    <3>1. CASE path_pc \in {"idle", "reset"}
      BY <3>1, LineLength
    <3>2. CASE path_pc = "append_s"
      BY <3>2, LineLength
    <3>3. CASE path_pc = "append_d"
      BY <3>3, LineLength
    <3>4. CASE path_pc = "extremes"
      BY <3>4, LineLength
    <3> QED  BY <3>1, <3>2, <3>3, <3>4
  <2> QED  BY <1>1, <2>1, <2>2
           DEF IInv, Types, Contents, FromTheLine, LoopTypes, ExtremesFound, HalfWidths,
               DetectTypeOK
<1>2. DetectSpec => [](Contents /\ LoopTypes)
  BY DetectInvariant, InitContents, NextContents, InitLoopTypes, NextLoopTypes, PTL
     DEF DetectSpec
<1> QED  BY <1>1, <1>2, DetectInvariant, PTL

-----------------------------------------------------------------------------
(* What a loop that nothing disturbs makes of its clusters.                *)

\* With a path, and none being built, the arrays are as long as the line.
LEMMA ArraysFull ==
    ASSUME IInv, ~Rebuilding, track_length # 0
    PROVE  Filled(Len(Line), Len(Line))
BY DEF IInv, Types, ArraysInStep, Rebuilding

\* The waypoints before s are the first ones of the line, so counting them
\* finds the last.
LEMMA SegmentFound ==
    ASSUME IInv, Contents, ~Rebuilding, track_length # 0, NEW s \in Nat
    PROVE  IndexOf(s) = SegmentOf(s) /\ SegmentOf(s) \in 1..Len(Line)
<1> DEFINE before == {i \in 1..Len(Line) : Line[i].s_m < s}
<1>1. DOMAIN Line = 1..Len(Line) /\ Len(Line) \in Nat \ {0}
  BY LineLength, DetectAssumption
<1>2. DOMAIN s_array = 1..Len(Line) /\ \A i \in 1..Len(Line) : s_array[i] = Line[i].s_m
  BY ArraysFull DEF IInv, Types, Contents, FromTheLine, Filled
<1>3. {i \in DOMAIN s_array : s_array[i] < s} = before
      /\ {i \in DOMAIN Line : Line[i].s_m < s} = before
  BY <1>1, <1>2
<1>4. \A i, j \in 1..Len(Line) : i < j => Line[i].s_m < Line[j].s_m
  BY <1>1, DetectAssumption
<1>5. \A i \in 1..Len(Line) : Line[i].s_m \in Nat
  BY WaypointTypes
<1>6. CASE before = {}
  <2>1. bisect_left(s) = 0
    BY <1>3, <1>6, FS_EmptySet DEF bisect_left
  <2> QED  BY <1>1, <1>3, <1>6, <2>1 DEF IndexOf, SegmentOf
<1>7. CASE before # {}
  <2>1. PICK m \in before : \A i \in before : i <= m
    <3> DEFINE f == [i \in 1..Len(Line) |-> IF i \in before THEN i ELSE 0]
    <3>1. \A i \in 1..Len(Line) : f[i] \in Int /\ f[i] = IF i \in before THEN i ELSE 0
      BY <1>1
    <3>2. before \subseteq 1..Len(Line)
      OBVIOUS
    <3> HIDE DEF f, before
    <3>3. PICK m \in 1..Len(Line) : \A i \in 1..Len(Line) : f[i] <= f[m]
      BY <1>1, <3>1, GreatestEntry
    <3>4. m \in before
      <4>1. PICK b \in 1..Len(Line) : b \in before
        BY <1>7, <3>2
      <4>2. f[b] = b /\ b >= 1 /\ f[b] <= f[m]
        BY <1>1, <3>1, <3>3, <4>1
      <4>3. f[m] = IF m \in before THEN m ELSE 0
        BY <3>1, <3>3
      <4> QED  BY <1>1, <4>1, <4>2, <4>3
    <3>5. \A i \in before : i <= m
      BY <3>1, <3>2, <3>3, <3>4
    <3> QED  BY <3>4, <3>5
  <2>2. before = 1..m /\ m \in 1..Len(Line)
    <3>1. ASSUME NEW i \in 1..m PROVE i \in before
      BY <1>1, <1>4, <1>5, <3>1
    <3> QED  BY <1>1, <2>1, <3>1
  <2>3. Cardinality(1..m) = m
    BY <2>2, FirstNumbers
  <2>4. bisect_left(s) = m
    BY <1>3, <2>2, <2>3 DEF bisect_left
  <2>5. Max(before) = m
    BY <2>1, <2>2 DEF Max
  <2>6. IndexOf(s) = m
    BY <2>2, <2>4 DEF IndexOf
  <2>7. SegmentOf(s) = IF before = {} THEN 1 ELSE Max(before)
    BY <1>3 DEF SegmentOf
  <2> HIDE DEF before
  <2> QED  BY <1>7, <2>2, <2>5, <2>6, <2>7
<1> QED  BY <1>6, <1>7

\* A finite set of numbers given by an enumeration has its extremes.
LEMMA ExtremesBound ==
    ASSUME NEW N \in Nat \ {0}, NEW f, \A k \in 1..N : f[k] \in Int
    PROVE  LET S == {f[k] : k \in 1..N}
           IN \A x \in S : /\ Max(S) \in Int /\ x <= Max(S)
                          /\ Min(S) \in Int /\ Min(S) <= x
<1> DEFINE S == {f[k] : k \in 1..N}
<1>1. PICK i \in 1..N : \A k \in 1..N : f[k] <= f[i]
  BY GreatestEntry
<1>2. PICK j \in 1..N : \A k \in 1..N : f[j] <= f[k]
  <2> DEFINE g == [k \in 1..N |-> -f[k]]
  <2>1. \A k \in 1..N : g[k] = -f[k] /\ g[k] \in Int
    OBVIOUS
  <2> HIDE DEF g
  <2>2. PICK j \in 1..N : \A k \in 1..N : g[k] <= g[j]
    BY <2>1, GreatestEntry
  <2> QED  BY <2>1, <2>2
<1>3. f[i] \in S /\ \A x \in S : x \in Int /\ f[i] >= x
  BY <1>1
<1>4. f[j] \in S /\ \A x \in S : x \in Int /\ f[j] <= x
  BY <1>2
<1> HIDE DEF S
<1>5. Max(S) \in S /\ \A x \in S : Max(S) >= x
  BY <1>3 DEF Max
<1>6. Min(S) \in S /\ \A x \in S : Min(S) <= x
  BY <1>4 DEF Min
<1>7. \A x \in S : Max(S) \in Int /\ x <= Max(S) /\ Min(S) \in Int /\ Min(S) <= x
  BY <1>3, <1>5, <1>6
<1> QED  BY <1>7 DEF S

\* The shortcuts are right: every border lies between the extremes.
LEMMA BordersBetweenExtremes ==
    ASSUME IInv, Contents, ~Rebuilding, track_length # 0, NEW i \in 1..Len(Line)
    PROVE  /\ biggest_d \in Int /\ smallest_d \in Int
           /\ d_right_array[i] \in Int /\ d_left_array[i] \in Int
           /\ d_right_array[i] <= biggest_d /\ d_left_array[i] <= biggest_d
           /\ smallest_d <= d_right_array[i] /\ smallest_d <= d_left_array[i]
<1> DEFINE n == Len(Line)
           f == [k \in 1..(n + n) |-> IF k <= n THEN d_right_array[k]
                                                ELSE d_left_array[k - n]]
<1>1. /\ n \in Nat \ {0} /\ n + n \in Nat \ {0}
      /\ DOMAIN d_right_array = 1..n /\ DOMAIN d_left_array = 1..n
      /\ \A k \in 1..n : d_right_array[k] \in Int /\ d_left_array[k] \in Int
  BY ArraysFull, LineLength DEF Filled, IInv, Types
<1>2. /\ \A k \in 1..n : f[k] = d_right_array[k]
      /\ \A k \in 1..n : f[n + k] = d_left_array[k]
      /\ \A k \in 1..(n + n) : k \in 1..n \/ k - n \in 1..n
  BY <1>1
<1>3. \A k \in 1..(n + n) : f[k] \in Int
  BY <1>1
<1>4. HalfWidths = {f[k] : k \in 1..(n + n)}
  <2>1. HalfWidths = {d_right_array[k] : k \in 1..n} \cup {d_left_array[k] : k \in 1..n}
    BY <1>1 DEF HalfWidths, Range
  <2>2. ASSUME NEW x \in {f[k] : k \in 1..(n + n)} PROVE x \in HalfWidths
    BY <1>1, <2>1
  <2>3. ASSUME NEW x \in HalfWidths PROVE x \in {f[k] : k \in 1..(n + n)}
    <3>1. CASE x \in {d_right_array[k] : k \in 1..n}
      BY <1>1, <1>2, <3>1
    <3>2. CASE x \in {d_left_array[k] : k \in 1..n}
      <4>1. PICK k \in 1..n : x = d_left_array[k]
        BY <3>2
      <4>2. n + k \in 1..(n + n) /\ f[n + k] = x
        BY <1>1, <1>2, <4>1
      <4> HIDE DEF f
      <4> QED  BY <4>2
    <3> QED  BY <2>1, <2>3, <3>1, <3>2
  <2> QED  BY <2>2, <2>3
<1> HIDE DEF f
<1>5. \A x \in HalfWidths : /\ Max(HalfWidths) \in Int /\ x <= Max(HalfWidths)
                            /\ Min(HalfWidths) \in Int /\ Min(HalfWidths) <= x
  BY <1>1, <1>3, <1>4, ExtremesBound
<1>6. d_right_array[i] \in HalfWidths /\ d_left_array[i] \in HalfWidths
  BY <1>1 DEF HalfWidths, Range
<1>7. biggest_d = Max(HalfWidths) /\ smallest_d = Min(HalfWidths)
  BY DEF Contents, ExtremesFound
<1> QED  BY <1>1, <1>5, <1>6, <1>7

\* normalize_s and the distance ahead say the same of what is in view.
LEMMA InView ==
    ASSUME IInv, LoopTypes, Contents, track_length # 0, NEW c \in Clusters
    PROVE  normalize_s(c.s - sampled_s) <= params.max_viewing_distance <=> Visible(c)
<1> DEFINE y == (c.s - sampled_s) % track_length
<1>1. track_length \in Nat \ {0} /\ track_length = Last(Line).s_m
  BY DEF Contents, ExtremesFound, IInv, Types
<1>2. c.s \in Nat /\ sampled_s \in Nat /\ params.max_viewing_distance \in Nat
  BY DetectAssumption DEF IInv, Types, LoopTypes, Clusters
<1>3. y \in 0..(track_length - 1)
  <2>1. \A x \in Int, l \in Nat \ {0} : x % l \in 0..(l - 1)
    OBVIOUS
  <2>2. c.s - sampled_s \in Int
    BY <1>2
  <2> QED  BY <1>1, <2>1, <2>2
<1>4. normalize_s(c.s - sampled_s) = IF 2 * y > track_length THEN y - track_length ELSE y
  BY DEF normalize_s
<1>5. Visible(c) <=> (2 * y > track_length \/ y <= params.max_viewing_distance)
  BY <1>1 DEF Visible
<1> HIDE DEF y
<1> QED  BY <1>1, <1>2, <1>3, <1>4, <1>5

\* The entry of the arrays that judges a cluster is that of its segment.
LEMMA JudgedAtSegment ==
    ASSUME IInv, Contents, BuiltFor(params.boundaries_inflation), NEW c \in Clusters
    PROVE  LET i == SegmentOf(c.s)
           IN /\ i \in 1..Len(Line) /\ IndexOf(c.s) = i
              /\ d_right_array[i] \in Int /\ d_left_array[i] \in Int
              /\ d_right_array[i] <= biggest_d /\ d_left_array[i] <= biggest_d
              /\ smallest_d <= d_right_array[i] /\ smallest_d <= d_left_array[i]
              /\ biggest_d \in Int /\ smallest_d \in Int
              /\ \A margin \in {0, 1} :
                    Within(c, margin) <=> (/\ -d_right_array[i] - margin < c.d
                                           /\ c.d < d_left_array[i] + margin)
<1> DEFINE i == SegmentOf(c.s)
<1>1. ~Rebuilding /\ track_length # 0 /\ c.s \in Nat
  BY DEF BuiltFor, Clusters
<1>2. i \in 1..Len(Line) /\ IndexOf(c.s) = i
  BY <1>1, SegmentFound
<1>3. DOMAIN Line = 1..Len(Line)
  BY DetectAssumption
<1>4. d_right_array[i] = Line[i].d_right - params.boundaries_inflation
      /\ d_left_array[i] = Line[i].d_left - params.boundaries_inflation
  BY <1>2, <1>3 DEF BuiltFor
<1>5. \A margin \in {0, 1} :
         Within(c, margin) <=> (/\ -d_right_array[i] - margin < c.d
                                /\ c.d < d_left_array[i] + margin)
  BY <1>4 DEF Within
<1> HIDE DEF i
<1>6. /\ biggest_d \in Int /\ smallest_d \in Int
      /\ d_right_array[i] \in Int /\ d_left_array[i] \in Int
      /\ d_right_array[i] <= biggest_d /\ d_left_array[i] <= biggest_d
      /\ smallest_d <= d_right_array[i] /\ smallest_d <= d_left_array[i]
  BY <1>1, <1>2, BordersBetweenExtremes
<1>7. /\ i \in 1..Len(Line) /\ IndexOf(c.s) = i
      /\ d_right_array[i] \in Int /\ d_left_array[i] \in Int
      /\ d_right_array[i] <= biggest_d /\ d_left_array[i] <= biggest_d
      /\ smallest_d <= d_right_array[i] /\ smallest_d <= d_left_array[i]
      /\ biggest_d \in Int /\ smallest_d \in Int
      /\ \A margin \in {0, 1} :
            Within(c, margin) <=> (/\ -d_right_array[i] - margin < c.d
                                   /\ c.d < d_left_array[i] + margin)
  BY <1>2, <1>5, <1>6
<1> QED  BY <1>7 DEF i

\* What the first tests decide without the arrays, the arrays would decide the
\* same way.
LEMMA ShortcutsAgree ==
    ASSUME IInv, LoopTypes, Contents, BuiltFor(params.boundaries_inflation),
           NEW c \in Clusters
    PROVE  /\ Undecided(c) => Visible(c)
           /\ Accepted(c) => Visible(c) /\ Within(c, 1)
           /\ Visible(c) /\ Within(c, 0) /\ ~Undecided(c) => Accepted(c)
<1> DEFINE i == SegmentOf(c.s)
<1>1. /\ d_right_array[i] \in Int /\ d_left_array[i] \in Int
      /\ d_right_array[i] <= biggest_d /\ d_left_array[i] <= biggest_d
      /\ smallest_d <= d_right_array[i] /\ smallest_d <= d_left_array[i]
      /\ biggest_d \in Int /\ smallest_d \in Int
  BY JudgedAtSegment
<1>2. \A margin \in {0, 1} :
         Within(c, margin) <=> (/\ -d_right_array[i] - margin < c.d
                                /\ c.d < d_left_array[i] + margin)
  BY JudgedAtSegment
<1>3. c.d \in Int /\ Abs(c.d) = IF c.d < 0 THEN -c.d ELSE c.d
  BY DEF Clusters, Abs
<1>4. normalize_s(c.s - sampled_s) <= params.max_viewing_distance <=> Visible(c)
  BY InView DEF BuiltFor
<1> HIDE DEF i
<1>5. Within(c, 0) => Abs(c.d) < biggest_d
  BY <1>1, <1>2, <1>3
<1>6. Abs(c.d) <= smallest_d => Within(c, 1)
  BY <1>1, <1>2, <1>3
<1>7. Abs(c.d) \in Int
  BY <1>3
<1> QED  BY <1>1, <1>4, <1>5, <1>6, <1>7 DEF Undecided, Accepted

Fits(c, margin) ==
    c.points >= params.min_obs_size /\ Visible(c) /\ Within(c, margin)

\* While nothing has disturbed the loop nobody rebuilds, and with boundaries that
\* are up to date it has kept of the clusters behind it those that fit.
Judged ==
    calm /\ loop_pc # "idle" =>
        /\ ~Rebuilding
        /\ BuiltFor(params.boundaries_inflation) =>
              /\ \A k \in 1..(at - 1) : Fits(cloud[k], 0) => cloud[k] \in kept
              /\ \A c \in kept : Fits(c, 1)
              /\ loop_pc = "index" =>
                    /\ cloud[at].points >= params.min_obs_size
                    /\ Visible(cloud[at]) /\ idx = IndexOf(cloud[at].s)

\* Before the first loop nothing has been kept.
LEMMA InitJudged == DetectInit => Judged
  BY DEF DetectInit, Judged

\* What is left alone is judged as before.
LEMMA FrameKeepsJudged ==
    ASSUME Judged, calm' => calm /\ (loop_pc # "idle" => ~Rebuilding'),
           UNCHANGED <<params, boundaries, loop_vars>>
    PROVE  Judged'
BY DEF Judged, boundaries, loop_vars, BuiltFor, Fits, Visible, Within, IndexOf,
       bisect_left, Rebuilding

\* The loop goes on to the next cluster, having kept this one or not.
LEMMA KeepKeepsJudged ==
    ASSUME LoopTypes, LoopUnchanged, Judged, NEW yes \in BOOLEAN, Keep(yes),
           UNCHANGED <<calm, cloud, sampled_s>>, loop_pc # "idle", loop_pc' = "look",
           at <= Len(cloud),
           BuiltFor(params.boundaries_inflation) =>
              (Fits(cloud[at], 0) => yes) /\ (yes => Fits(cloud[at], 1))
    PROVE  Judged'
<1>1. UNCHANGED <<params, boundaries, path_pc>>
  BY DEF LoopUnchanged, path_vars
<1>2. /\ BuiltFor(params.boundaries_inflation)' <=> BuiltFor(params.boundaries_inflation)
      /\ Rebuilding' <=> Rebuilding
  BY <1>1 DEF boundaries, BuiltFor, Rebuilding
<1>3. \A c, margin : Fits(c, margin)' <=> Fits(c, margin)
  BY <1>1 DEF Fits, Visible, Within
<1>4. at' = at + 1 /\ at \in Nat /\ kept' = IF yes THEN kept \cup {cloud[at]} ELSE kept
  BY DEF Keep, LoopTypes
<1>5. SUFFICES ASSUME calm, BuiltFor(params.boundaries_inflation)
               PROVE  /\ \A k \in 1..(at' - 1) : Fits(cloud[k], 0) => cloud[k] \in kept'
                      /\ \A c \in kept' : Fits(c, 1)
  BY <1>2, <1>3 DEF Judged
<1>6. /\ \A k \in 1..(at - 1) : Fits(cloud[k], 0) => cloud[k] \in kept
      /\ \A c \in kept : Fits(c, 1)
  BY <1>5 DEF Judged
<1> HIDE DEF Fits
<1>7. ASSUME NEW k \in 1..(at' - 1), Fits(cloud[k], 0) PROVE cloud[k] \in kept'
  <2>1. k = at \/ k \in 1..(at - 1)
    BY <1>4
  <2> QED  BY <1>4, <1>5, <1>6, <1>7, <2>1
<1> QED  BY <1>4, <1>5, <1>6, <1>7

\* The look at a cluster with s_array keeps it by the shortcut of the extremes,
\* drops it, or leaves an index that the look into the lateral arrays needs.
LEMMA LookAtKeepsJudged ==
    ASSUME IInv, LoopTypes, Contents, Judged, LookAt
    PROVE  Judged'
<1> DEFINE c == cloud[at]
           large == c.points >= params.min_obs_size
<1>1. LoopUnchanged /\ at <= Len(cloud) /\ loop_pc = "look"
      /\ UNCHANGED <<cloud, sampled_s, calm>>
  BY DEF LookAt
<1>2. c \in Clusters
  BY <1>1 DEF LoopTypes
<1>3. UNCHANGED <<params, boundaries, path_pc>>
  BY <1>1 DEF LoopUnchanged, path_vars
<1>4. CASE /\ large /\ Undecided(c)
           /\ loop_pc' = "index" /\ idx' = IndexOf(c.s) /\ UNCHANGED <<at, kept>>
  <2>1. /\ BuiltFor(params.boundaries_inflation)' <=> BuiltFor(params.boundaries_inflation)
        /\ Rebuilding' <=> Rebuilding
        /\ \A x, margin : Fits(x, margin)' <=> Fits(x, margin)
        /\ \A x : Visible(x)' <=> Visible(x)
        /\ \A s : IndexOf(s)' = IndexOf(s)
    BY <1>1, <1>3 DEF boundaries, BuiltFor, Rebuilding, Fits, Visible, Within, IndexOf,
                      bisect_left
  <2>2. BuiltFor(params.boundaries_inflation) => Visible(c)
    BY <1>2, <1>4, ShortcutsAgree
  <2> HIDE DEF Fits
  <2> QED  BY <1>1, <1>3, <1>4, <2>1, <2>2 DEF Judged
<1>5. CASE Keep(large /\ Accepted(c)) /\ UNCHANGED <<loop_pc, idx>> /\ ~(large /\ Undecided(c))
  <2>1. BuiltFor(params.boundaries_inflation) =>
           /\ Fits(c, 0) => large /\ Accepted(c)
           /\ (large /\ Accepted(c)) => Fits(c, 1)
    BY <1>2, <1>5, ShortcutsAgree DEF Fits
  <2>2. (large /\ Accepted(c)) \in BOOLEAN
    BY DEF Accepted
  <2> QED  BY <1>1, <1>5, <2>1, <2>2, KeepKeepsJudged
<1> QED  BY <1>4, <1>5 DEF LookAt

\* The look into the lateral arrays judges by the borders beside the cluster.
LEMMA IndexKeepsJudged ==
    ASSUME IInv, LoopTypes, Contents, Judged, IndexBoundaries
    PROVE  Judged'
<1> DEFINE c == cloud[at]
           yes == ~(c.d <= -d_right_array[idx]) /\ c.d < d_left_array[idx]
<1>1. LoopUnchanged /\ at <= Len(cloud) /\ loop_pc = "index"
      /\ UNCHANGED <<cloud, sampled_s, calm, idx, obstacles>>
  BY DEF IndexBoundaries, LoopTypes
<1>2. c \in Clusters
  BY <1>1 DEF LoopTypes
<1>3. CASE UNCHANGED <<loop_pc, at, kept>>
  <2>1. UNCHANGED <<params, boundaries, loop_vars, path_pc>>
    BY <1>1, <1>3 DEF LoopUnchanged, path_vars, loop_vars
  <2> QED  BY <1>1, <2>1, FrameKeepsJudged DEF Judged, Rebuilding
<1>4. CASE Keep(yes) /\ loop_pc' = "look"
  <2>1. ASSUME calm, BuiltFor(params.boundaries_inflation)
        PROVE  (Fits(c, 0) => yes) /\ (yes => Fits(c, 1))
    <3>1. c.points >= params.min_obs_size /\ Visible(c) /\ idx = IndexOf(c.s)
      BY <1>1, <2>1 DEF Judged
    <3>2. /\ d_right_array[idx] \in Int /\ d_left_array[idx] \in Int /\ c.d \in Int
          /\ \A margin \in {0, 1} :
                Within(c, margin) <=> (/\ -d_right_array[idx] - margin < c.d
                                       /\ c.d < d_left_array[idx] + margin)
      BY <1>2, <2>1, <3>1, JudgedAtSegment DEF Clusters
    <3>3. (Within(c, 0) <=> yes) /\ (yes => Within(c, 1))
      BY <3>2
    <3> QED  BY <3>1, <3>3 DEF Fits
  <2>2. CASE calm
    BY <1>1, <1>4, <2>1, <2>2, KeepKeepsJudged
  <2>3. CASE ~calm
    BY <1>1, <2>3 DEF Judged
  <2> QED  BY <2>2, <2>3
<1> QED  BY <1>3, <1>4 DEF IndexBoundaries

\* A step of a rebuild, or a change of the parameters, ends the calm; every other
\* step keeps what was judged in step with the line.
LEMMA NextJudged ==
    IInv /\ LoopTypes /\ Contents /\ Judged /\ [DetectNext]_detect_vars => Judged'
<1> SUFFICES ASSUME IInv, LoopTypes, Contents, Judged, [DetectNext]_detect_vars
             PROVE  Judged'
  OBVIOUS
<1>1. CASE pathCb \/ PathStep
  <2>1. UNCHANGED <<params, loop_vars>>
    BY <1>1 DEF pathCb, PathStep, ClearBoundaries, AppendS, AppendBoundaries, Extremes,
                ResetFlag, PathUnchanged
  <2>2. CASE calm' /\ loop_pc' # "idle"
    <3>1. calm /\ loop_pc # "idle" /\ ~Rebuilding
      BY <1>1, <2>1, <2>2 DEF pathCb, PathStep, ClearBoundaries, AppendS,
         AppendBoundaries, Extremes, ResetFlag, loop_vars, Judged
    <3>2. UNCHANGED boundaries /\ ~Rebuilding'
      BY <1>1, <2>2, <3>1 DEF pathCb, PathStep, ClearBoundaries, AppendS,
         AppendBoundaries, Extremes, ResetFlag, boundaries, Rebuilding
    <3> QED  BY <2>1, <3>1, <3>2, FrameKeepsJudged
  <2> QED  BY <2>2 DEF Judged
<1>2. CASE \/ \E msg \in Scans : laserCb(msg)
           \/ \E s \in CarPositions : carStateCb(s)
           \/ UNCHANGED detect_vars
  <2>1. UNCHANGED <<params, boundaries, path_pc, loop_vars, calm>>
    BY <1>2 DEF laserCb, carStateCb, detect_vars, path_vars
  <2> QED  BY <2>1, FrameKeepsJudged DEF Judged, Rebuilding
<1>3. CASE \E values \in Params : dyn_param_cb(values)
  BY <1>3 DEF dyn_param_cb, Judged
<1>4. CASE \E found \in BOOLEAN : StartLoop(found)
  <2>1. /\ at' = 1 /\ kept' = {} /\ loop_pc' = "look" /\ calm' = ~Rebuilding
        /\ path_pc' = path_pc
    BY <1>4 DEF StartLoop, LoopUnchanged, path_vars
  <2>2. 1..(at' - 1) = {}
    BY <2>1
  <2>3. Rebuilding' <=> Rebuilding
    BY <2>1 DEF Rebuilding
  <2> HIDE DEF Fits
  <2> QED  BY <2>1, <2>2, <2>3 DEF Judged
<1>5. CASE Publish
  BY <1>5 DEF Publish, Judged
<1> QED  BY <1>1, <1>2, <1>3, <1>4, <1>5, LookAtKeepsJudged, IndexKeepsJudged
         DEF DetectNext, LoopStep

\* A loop that nothing disturbs publishes every cluster that lies between the
\* borders of its segment, and none that does not: the shortcuts agree with the
\* arrays, and counting finds the segment.
THEOREM JudgesByTheLine == DetectSpec => JudgedByTheLine
<1>1. IInv /\ LoopTypes /\ Judged /\ [DetectNext]_detect_vars =>
         [(Publish /\ calm /\ BuiltFor(params.boundaries_inflation)) =>
            /\ {c \in Range(cloud) : Expected(c, 0)} \subseteq obstacles'
            /\ obstacles' \subseteq {c \in Range(cloud) : Expected(c, 1)}]_detect_vars
  <2> SUFFICES ASSUME LoopTypes, Judged, Publish, calm,
                      BuiltFor(params.boundaries_inflation)
               PROVE  /\ {c \in Range(cloud) : Expected(c, 0)} \subseteq obstacles'
                      /\ obstacles' \subseteq {c \in Range(cloud) : Expected(c, 1)}
    OBVIOUS
  <2>1. loop_pc = "look" /\ at > Len(cloud)
        /\ obstacles' = {c \in kept : c.size <= params.max_obs_size}
    BY DEF Publish
  <2>2. /\ \A k \in 1..(at - 1) : Fits(cloud[k], 0) => cloud[k] \in kept
        /\ \A c \in kept : Fits(c, 1)
    BY <2>1 DEF Judged
  <2>3. at - 1 = Len(cloud) /\ DOMAIN cloud = 1..Len(cloud) /\ kept \subseteq Range(cloud)
    BY <2>1 DEF LoopTypes
  <2>4. \A c, margin : Expected(c, margin) <=>
                          Fits(c, margin) /\ c.size <= params.max_obs_size
    BY DEF Expected, Fits
  <2> HIDE DEF Fits
  <2>5. \A c \in Range(cloud) : Fits(c, 0) => c \in kept
    BY <2>2, <2>3 DEF Range
  <2> QED  BY <2>1, <2>2, <2>3, <2>4, <2>5
<1>2. DetectSpec => [](Contents /\ LoopTypes)
  BY DetectInvariant, InitContents, NextContents, InitLoopTypes, NextLoopTypes, PTL
     DEF DetectSpec
<1> QED
  BY <1>1, <1>2, DetectInvariant, InitJudged, NextJudged, PTL DEF DetectSpec, JudgedByTheLine
=============================================================================
