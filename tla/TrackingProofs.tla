---------------------------- MODULE TrackingProofs ----------------------------
(***************************************************************************)
(* Proofs about the opponent tracking, for any track, messages, views and  *)
(* times to live: a measured obstacle is that of one tracked obstacle, and *)
(* the opponent is forgotten and comes back in time.                       *)
(*                                                                         *)
(* The loop over the tracked obstacles is a recursive function of the      *)
(* number of rounds; SoundOutcomes is its invariant.                       *)
(***************************************************************************)
EXTENDS Tracking, RecursionLemmas, SequenceTheorems

Opponents == [isInitialised : BOOLEAN, s : Cells, ttl : 0..ttl_dynamic,
              updates : 0..MinUpdates, useTargetVel : BOOLEAN]

\* The places of the obstacles measured in this loop.
SeenIn(kept) == {k \in DOMAIN kept : kept[k].seen}

\* A measurement is left, or seen in one obstacle kept.
EachAssignedOnce(o) == Cardinality(SeenIn(o.kept)) + Len(o.left) = Len(meas_obstacles)

\* An opponent that no dynamic obstacle has renewed is that of the last loop.
OldUnlessRenewed(o) ==
    o.opp.isInitialised /\ ~o.dynamic => opponent.isInitialised /\ o.opp.ttl = opponent.ttl

\* The one measurement starts an opponent if it is that of a dynamic obstacle,
\* and nothing stops it in the rest of the loop.
StartsAtOnce(o) ==
    Len(meas_obstacles) = 1 /\ ~opponent.isInitialised =>
        IF o.left = <<>> THEN o.dynamic => o.opp.isInitialised /\ o.opp.ttl = ttl_dynamic
        ELSE ~o.dynamic /\ ~o.opp.isInitialised

OutcomeRecords ==
    [left : Seq(Cells), opp : Opponents, kept : Seq(Obstacles), dynamic : BOOLEAN]

SoundOutcomes ==
    {o \in OutcomeRecords : EachAssignedOnce(o) /\ OldUnlessRenewed(o) /\ StartsAtOnce(o)}

\* What is lost of the time to live has gone unseen; the types alone are not
\* inductive for the two properties of the opponent.
IInv ==
    /\ TrackingTypeOK
    /\ tracked_obstacles \in Seq(Obstacles)
    /\ opponent.isInitialised => unseen + opponent.ttl < ttl_dynamic
    /\ dropped > 0 => ~opponent.isInitialised
    /\ dropped <= 1

USE TrackingAssumption

-----------------------------------------------------------------------------
(* Measurements.                                                           *)

\* A position measured is found at a place of the sequence, if at all.
LEMMA ClosestIsThere ==
    ASSUME NEW left \in Seq(Cells), NEW s \in Int, NEW reach \in Int
    PROVE  get_closest_pos(reach, s, left) \in DOMAIN left \cup {0}
<1>1. CASE \A k \in DOMAIN left : Distance(left[k], s) >= reach
  BY <1>1 DEF get_closest_pos
<1>2. CASE ~ \A k \in DOMAIN left : Distance(left[k], s) >= reach
  <2> DEFINE D == [k \in DOMAIN left |-> Distance(left[k], s)]
             Near == {D[k] : k \in DOMAIN left}
  <2>1. DOMAIN left \in SUBSET Nat /\ \A k \in DOMAIN left : D[k] \in Nat
    <3>1. \A k \in DOMAIN left : k \in Nat /\ left[k] \in Int
      BY DEF Cells
    <3> QED  BY <3>1 DEF Distance
  <2>2. \A k \in DOMAIN left : D[k] = Distance(left[k], s)
    OBVIOUS
  <2> HIDE DEF D
  <2>3. PICK d \in Near : \A e \in Near : d <= e
    <3>1. Near \in SUBSET Nat /\ Near # {}
      BY <1>2, <2>1
    <3> HIDE DEF Near
    <3> QED  BY <3>1, LeastElement
  <2> DEFINE First == {k \in DOMAIN left : D[k] = d}
  <2>4. PICK k \in First : \A j \in First : k <= j
    <3>1. First \in SUBSET Nat /\ First # {}
      BY <2>1
    <3> HIDE DEF First
    <3> QED  BY <3>1, LeastElement
  <2>5. \A j \in DOMAIN left : D[k] < D[j] \/ (D[k] = D[j] /\ k <= j)
    <3>1. TAKE j \in DOMAIN left
    <3>2. D[j] \in Nat /\ D[j] \in Near /\ D[k] = d /\ d \in Nat
      BY <2>1, <2>4
    <3>3. d <= D[j]
      BY <2>3, <3>2
    <3>4. D[j] = d => k <= j
      BY <2>4
    <3> HIDE DEF Near, First
    <3> QED  BY <3>2, <3>3, <3>4
  <2>6. \E i \in DOMAIN left : \A j \in DOMAIN left :
            \/ Distance(left[i], s) < Distance(left[j], s)
            \/ Distance(left[i], s) = Distance(left[j], s) /\ i <= j
    BY <2>2, <2>4, <2>5
  <2> QED  BY <1>2, <2>6 DEF get_closest_pos
<1> QED  BY <1>1, <1>2

\* What verify_position finds for an obstacle is one of the measurements left,
\* or none.
LEMMA PositionIsThere ==
    ASSUME NEW left \in Seq(Cells), NEW opp \in Opponents, NEW obstacle \in Obstacles
    PROVE  verify_position(obstacle, opp, left) \in DOMAIN left \cup {0}
<1>1. opp.s \in Int /\ obstacle.mean \in Int
  BY DEF Opponents, Obstacles, Cells
<1>2. max_dist \in Int /\ max_dist * aggro_multiplier \in Int
  OBVIOUS
<1> QED  BY <1>1, <1>2, ClosestIsThere DEF verify_position

\* What is left of the measurements when one is assigned.
LEMMA OneLess ==
    ASSUME NEW left \in Seq(Cells), NEW k \in DOMAIN left
    PROVE  /\ left[k] \in Cells
           /\ Without(left, k) \in Seq(Cells)
           /\ Len(Without(left, k)) = Len(left) - 1
<1>1. k \in 1..Len(left) /\ Len(left) \in Nat
  OBVIOUS
<1>2. SubSeq(left, 1, k - 1) \in Seq(Cells) /\ Len(SubSeq(left, 1, k - 1)) = k - 1
  BY <1>1, SubSeqProperties
<1>3. /\ SubSeq(left, k + 1, Len(left)) \in Seq(Cells)
      /\ Len(SubSeq(left, k + 1, Len(left))) = Len(left) - k
  BY <1>1, SubSeqProperties
<1>4. Len(Without(left, k)) = (k - 1) + (Len(left) - k) /\ Without(left, k) \in Seq(Cells)
  BY <1>2, <1>3, ConcatProperties DEF Without, RemoveAt
<1> QED  BY <1>1, <1>4

\* Counting the obstacles seen, of one more and of all those that are new.
LEMMA SeenInAppend ==
    ASSUME NEW kept \in Seq(Obstacles), NEW obstacle \in Obstacles
    PROVE  /\ IsFiniteSet(SeenIn(kept)) /\ Cardinality(SeenIn(kept)) \in Nat
           /\ Cardinality(SeenIn(Append(kept, obstacle))) =
                 Cardinality(SeenIn(kept)) + (IF obstacle.seen THEN 1 ELSE 0)
<1>1. SeenIn(kept) \in SUBSET (1..Len(kept)) /\ IsFiniteSet(1..Len(kept))
  <2>1. IsFiniteSet(1..Len(kept))
    BY FS_Interval
  <2> QED  BY <2>1 DEF SeenIn
<1>2. IsFiniteSet(SeenIn(kept)) /\ Cardinality(SeenIn(kept)) \in Nat
  BY <1>1, FS_Subset, FS_CardinalityType
<1>3. SeenIn(Append(kept, obstacle)) =
          IF obstacle.seen THEN SeenIn(kept) \cup {Len(kept) + 1} ELSE SeenIn(kept)
  BY DEF SeenIn
<1>4. Len(kept) + 1 \notin SeenIn(kept)
  BY <1>1
<1>5. Cardinality(SeenIn(kept) \cup {Len(kept) + 1}) = Cardinality(SeenIn(kept)) + 1
  BY <1>2, <1>4, FS_AddElement
<1>6. obstacle.seen \in BOOLEAN
  BY DEF Obstacles
<1> QED  BY <1>2, <1>3, <1>5, <1>6

\* As many more obstacles are seen after the new ones are added as there were
\* measurements left.
LEMMA SeenInNew ==
    ASSUME NEW kept \in Seq(Obstacles), NEW left \in Seq(Cells)
    PROVE  LET new == [k \in DOMAIN left |-> NewObstacle(left[k])]
           IN  /\ kept \o new \in Seq(Obstacles)
               /\ Cardinality(SeenIn(kept \o new)) = Cardinality(SeenIn(kept)) + Len(left)
<1> DEFINE new == [k \in DOMAIN left |-> NewObstacle(left[k])]
           added == (Len(kept) + 1)..(Len(kept) + Len(left))
<1>1. /\ Len(kept) \in Nat /\ Len(left) \in Nat /\ DOMAIN left = 1..Len(left)
      /\ DOMAIN kept = 1..Len(kept)
  OBVIOUS
<1>2. new \in Seq(Obstacles) /\ Len(new) = Len(left) /\ \A k \in 1..Len(left) : new[k].seen
  <2>1. \A k \in 1..Len(left) : NewObstacle(left[k]) \in Obstacles /\ NewObstacle(left[k]).seen
    <3>1. TAKE k \in 1..Len(left)
    <3>2. left[k] \in Cells /\ <<left[k]>> \in Seq(Cells)
      BY <1>1
    <3> QED  BY <3>2 DEF NewObstacle, Obstacles
  <2> QED  BY <1>1, <2>1, IsASeq
<1> HIDE DEF new
<1>3. /\ kept \o new \in Seq(Obstacles) /\ Len(kept \o new) = Len(kept) + Len(left)
      /\ \A k \in 1..(Len(kept) + Len(left)) :
            (kept \o new)[k] = IF k <= Len(kept) THEN kept[k] ELSE new[k - Len(kept)]
  <2>1. /\ kept \o new \in Seq(Obstacles) /\ Len(kept \o new) = Len(kept) + Len(new)
        /\ \A k \in 1..Len(kept) + Len(new) :
              (kept \o new)[k] = IF k <= Len(kept) THEN kept[k] ELSE new[k - Len(kept)]
    <3>1. new \in Seq(Obstacles)
      BY <1>2
    <3> HIDE DEF Obstacles
    <3> QED  BY <3>1, ConcatProperties
  <2> QED  BY <1>2, <2>1
<1>4. SeenIn(kept \o new) = SeenIn(kept) \cup added
  <2>1. DOMAIN (kept \o new) = 1..(Len(kept) + Len(left))
    BY <1>3
  <2>2. \A k \in added : k - Len(kept) \in 1..Len(left) /\ (kept \o new)[k] = new[k - Len(kept)]
    BY <1>1, <1>3
  <2>3. \A k \in added : (kept \o new)[k].seen
    BY <1>2, <2>2
  <2>4. \A k \in DOMAIN kept : (kept \o new)[k] = kept[k]
    BY <1>1, <1>3
  <2>5. DOMAIN (kept \o new) = DOMAIN kept \cup added
    BY <1>1, <2>1
  <2> QED  BY <2>3, <2>4, <2>5 DEF SeenIn
<1>5. SeenIn(kept) \cap added = {}
  BY <1>1 DEF SeenIn
<1>6. IsFiniteSet(SeenIn(kept)) /\ Cardinality(SeenIn(kept)) \in Nat
  <2>1. SeenIn(kept) \in SUBSET (1..Len(kept)) /\ IsFiniteSet(1..Len(kept))
    <3>1. IsFiniteSet(1..Len(kept))
      BY <1>1, FS_Interval
    <3> QED  BY <3>1 DEF SeenIn
  <2> QED  BY <2>1, FS_Subset, FS_CardinalityType
<1>7. IsFiniteSet(added) /\ Cardinality(added) = Len(left)
  <2>1. Len(kept) + 1 \in Int /\ Len(kept) + Len(left) \in Int
    BY <1>1
  <2>2. IsFiniteSet(added) /\ Cardinality(added) =
            IF Len(kept) + 1 > Len(kept) + Len(left) THEN 0
            ELSE (Len(kept) + Len(left)) - (Len(kept) + 1) + 1
    BY <2>1, FS_Interval
  <2> HIDE DEF added
  <2> QED  BY <1>1, <2>2
<1>8. Cardinality(SeenIn(kept) \cup added) = Cardinality(SeenIn(kept)) + Cardinality(added)
  <2>1. Cardinality(SeenIn(kept) \cap added) = 0
    BY <1>5, FS_EmptySet
  <2> HIDE DEF added
  <2>2. Cardinality(SeenIn(kept) \cup added) = Cardinality(SeenIn(kept)) + Cardinality(added)
            - Cardinality(SeenIn(kept) \cap added)
    BY <1>6, <1>7, FS_Union
  <2> QED  BY <1>1, <1>6, <1>7, <2>1, <2>2
<1> QED  BY <1>3, <1>4, <1>7, <1>8 DEF new

-----------------------------------------------------------------------------
(* The filter and the obstacles.                                           *)

\* The prediction moves the opponent and nothing else: neither its time to live
\* nor whether it is there.
LEMMA PredictTypes ==
    ASSUME NEW old \in Opponents, NEW opp \in predict(old)
    PROVE  opp \in Opponents /\ opp.isInitialised = old.isInitialised /\ opp.ttl = old.ttl
<1>1. CASE ~old.isInitialised
  BY <1>1 DEF predict
<1>2. CASE old.isInitialised
  <2>1. old.s \in Cells /\ (old.s + 1) % TrackLength \in Cells
    BY DEF Opponents, Cells
  <2>2. PICK s \in {old.s, (old.s + 1) % TrackLength} : opp = [old EXCEPT !.s = s]
    BY <1>2 DEF predict
  <2> QED  BY <2>1, <2>2 DEF Opponents
<1> QED  BY <1>1, <1>2

\* An obstacle that is measured: its last position is the measured one.
LEMMA UpdatedTypes ==
    ASSUME NEW obstacle \in Obstacles, NEW s \in Cells,
           NEW updated \in update_tracked_obstacle(obstacle, s)
    PROVE  updated \in Obstacles /\ updated.seen /\ Last(updated.measurments_s) = s
<1> DEFINE positions == Append(obstacle.measurments_s, s)
           first == IF Len(positions) > 3 THEN 2 ELSE 1
<1>1. /\ positions \in Seq(Cells) /\ Len(positions) >= 1 /\ Len(positions) \in Nat
      /\ positions[Len(positions)] = s
  BY AppendProperties DEF Obstacles
<1>2. first \in 1..Len(positions)
  BY <1>1
<1>3. /\ SubSeq(positions, first, Len(positions)) \in Seq(Cells)
      /\ Last(SubSeq(positions, first, Len(positions))) = s
  <2> HIDE DEF positions, first
  <2>1. first \in Int /\ \A i \in first..Len(positions) : positions[i] \in Cells
    BY <1>1, <1>2
  <2>2. /\ SubSeq(positions, first, Len(positions)) \in Seq(Cells)
        /\ Len(SubSeq(positions, first, Len(positions))) = Len(positions) - first + 1
        /\ \A i \in 1..(Len(positions) - first + 1) :
              SubSeq(positions, first, Len(positions))[i] = positions[first + i - 1]
    BY <1>1, <1>2, <2>1, SubSeqProperties
  <2> QED  BY <1>1, <1>2, <2>2 DEF Last
<1>4. /\ updated.measurments_s = SubSeq(positions, first, Len(positions))
      /\ updated.seen = TRUE
  BY DEF update_tracked_obstacle
<1>5. updated \in Obstacles
  <2> DEFINE nb_meas == IF obstacle.nb_meas > min_nb_meas THEN obstacle.nb_meas
                        ELSE obstacle.nb_meas + 1
  <2>1. nb_meas \in 0..(min_nb_meas + 1)
    BY DEF Obstacles
  <2>2. /\ {s, obstacle.mean} \subseteq Cells /\ ttl_static \in 0..ttl_static
        /\ {"static", "dynamic"} \subseteq {"unknown", "static", "dynamic"}
    BY DEF Obstacles
  <2>3. update_tracked_obstacle(obstacle, s) =
            [ measurments_s : {SubSeq(positions, first, Len(positions))},
              mean : IF obstacle.nb_meas = 0 THEN {s} ELSE {s, obstacle.mean},
              nb_meas : {nb_meas},
              kind : IF nb_meas > min_nb_meas THEN {"static", "dynamic"} ELSE {"unknown"},
              ttl : {ttl_static}, seen : {TRUE} ]
    BY DEF update_tracked_obstacle
  <2> HIDE DEF positions, first, nb_meas
  <2> DEFINE means == IF obstacle.nb_meas = 0 THEN {s} ELSE {s, obstacle.mean}
             kinds == IF nb_meas > min_nb_meas THEN {"static", "dynamic"} ELSE {"unknown"}
             p == SubSeq(positions, first, Len(positions))
  <2>4. means \subseteq Cells /\ kinds \subseteq {"unknown", "static", "dynamic"}
    BY <2>2
  <2>5. p \in Seq(Cells)
    BY <1>3
  <2>6. updated \in [measurments_s : {p}, mean : means, nb_meas : {nb_meas},
                     kind : kinds, ttl : {ttl_static}, seen : {TRUE}]
    BY <2>3
  <2> HIDE DEF means, kinds, p
  <2> QED  BY <2>1, <2>2, <2>4, <2>5, <2>6 DEF Obstacles
<1> HIDE DEF positions, first
<1> QED  BY <1>3, <1>4, <1>5

\* An opponent given up is not there.
LEMMA StoppedTypes ==
    ASSUME NEW opp \in Opponents
    PROVE  NotInitialised(opp) \in Opponents /\ ~NotInitialised(opp).isInitialised
<1>1. 0 \in 0..MinUpdates /\ 0 \in 0..ttl_dynamic
  OBVIOUS
<1> QED  BY <1>1 DEF NotInitialised, Opponents

\* What a measured obstacle does to the opponent: one that is not dynamic
\* nothing, a dynamic one starts the filter if it does not run.
LEMMA FollowTypes ==
    ASSUME NEW opp \in Opponents, NEW obstacle \in Obstacles,
           obstacle.seen, Last(obstacle.measurments_s) \in Cells,
           NEW followed \in Follow(opp, obstacle)
    PROVE  /\ followed[1] \in Opponents /\ followed[2] \in Obstacles /\ followed[2].seen
           /\ obstacle.kind # "dynamic" => followed[1] = opp
           /\ obstacle.kind = "dynamic" /\ ~opp.isInitialised =>
                 followed[1].isInitialised /\ followed[1].ttl = ttl_dynamic
<1> DEFINE static == [obstacle EXCEPT !.kind = "static", !.nb_meas = 0]
<1>1. /\ 0 \in 0..MinUpdates /\ 0 \in 0..ttl_dynamic /\ ttl_dynamic \in 0..ttl_dynamic
      /\ 0 \in 0..(min_nb_meas + 1)
  OBVIOUS
<1>2. NotInitialised(opp) \in Opponents
  BY StoppedTypes
<1>3. UpdatedOpponent(opp, obstacle) \in Opponents
  <2>1. CASE ~Plausible(obstacle)
    BY <1>2, <2>1 DEF UpdatedOpponent
  <2>2. CASE Plausible(obstacle)
    <3> DEFINE updates == IF opp.updates < MinUpdates THEN opp.updates + 1 ELSE opp.updates
    <3>1. updates \in 0..MinUpdates
      BY DEF Opponents
    <3>2. UpdatedOpponent(opp, obstacle) =
              [opp EXCEPT !.s = Last(obstacle.measurments_s), !.updates = updates,
                          !.useTargetVel = FALSE, !.ttl = ttl_dynamic]
      BY <2>2 DEF UpdatedOpponent
    <3> HIDE DEF updates
    <3> QED  BY <1>1, <3>1, <3>2 DEF Opponents
  <2> QED  BY <2>1, <2>2
<1>4. /\ initialize_dynamic_obstacle(opp, obstacle) \in Opponents
      /\ initialize_dynamic_obstacle(opp, obstacle).isInitialised
      /\ initialize_dynamic_obstacle(opp, obstacle).ttl = ttl_dynamic
  BY <1>1 DEF initialize_dynamic_obstacle, Opponents
<1>5. static \in Obstacles /\ static.seen
  BY <1>1 DEF Obstacles
<1> HIDE DEF static
<1>6. CASE obstacle.kind # "dynamic"
  BY <1>6 DEF Follow
<1>7. CASE obstacle.kind = "dynamic" /\ ~opp.isInitialised
  BY <1>4, <1>7 DEF Follow
<1>8. CASE obstacle.kind = "dynamic" /\ opp.isInitialised
  <2>1. followed \in {<<UpdatedOpponent(opp, obstacle), obstacle>>,
                      <<NotInitialised(opp), static>>}
    BY <1>8 DEF Follow, static
  <2> QED  BY <1>2, <1>3, <1>5, <1>8, <2>1
<1> QED  BY <1>6, <1>7, <1>8

\* An obstacle that was missed is not seen.
LEMMA MissedTypes ==
    ASSUME NEW obstacle \in Obstacles, obstacle.ttl > 0
    PROVE  Missed(obstacle) \in Obstacles /\ ~Missed(obstacle).seen
<1>1. obstacle.ttl - 1 \in 0..ttl_static /\ obstacle.ttl \in 0..ttl_static
  BY DEF Obstacles
<1>2. PICK ttl \in 0..ttl_static : Missed(obstacle) = [obstacle EXCEPT !.seen = FALSE, !.ttl = ttl]
  BY <1>1 DEF Missed
<1> QED  BY <1>2 DEF Obstacles

\* The time to live of the opponent is counted down by one, and only one that
\* has run out ends it.
LEMMA CountedDownTypes ==
    ASSUME NEW opp \in Opponents
    PROVE  /\ CountedDown(opp) \in Opponents
           /\ CountedDown(opp).isInitialised =>
                 opp.isInitialised /\ CountedDown(opp).ttl = opp.ttl - 1
           /\ opp.isInitialised /\ opp.ttl > 0 => CountedDown(opp).isInitialised
<1>1. CASE ~opp.isInitialised
  BY <1>1 DEF CountedDown
<1>2. CASE opp.isInitialised /\ opp.ttl <= 0
  <2>1. CountedDown(opp) = NotInitialised(opp)
    BY <1>2 DEF CountedDown
  <2>2. NotInitialised(opp) \in Opponents /\ ~NotInitialised(opp).isInitialised
    BY StoppedTypes
  <2>3. ~(opp.ttl > 0)
    BY <1>2 DEF Opponents
  <2> QED  BY <2>1, <2>2, <2>3
<1>3. CASE opp.isInitialised /\ opp.ttl > 0
  <2>1. opp.ttl - 1 \in 0..ttl_dynamic
    BY <1>3 DEF Opponents
  <2> QED  BY <1>3, <2>1 DEF CountedDown, Opponents
<1>4. opp.ttl \in Int
  BY DEF Opponents
<1> QED  BY <1>1, <1>2, <1>3, <1>4

-----------------------------------------------------------------------------
(* The loop over the tracked obstacles.                                    *)

\* A round in which the obstacle is measured.
LEMMA MeasuredRound ==
    ASSUME NEW o \in SoundOutcomes, NEW obstacle \in Obstacles, NEW k \in DOMAIN o.left,
           NEW updated \in update_tracked_obstacle(obstacle, o.left[k]),
           NEW followed \in Follow(o.opp, updated)
    PROVE  [left |-> Without(o.left, k), opp |-> followed[1],
            kept |-> Append(o.kept, followed[2]),
            dynamic |-> o.dynamic \/ updated.kind = "dynamic"] \in SoundOutcomes
<1> DEFINE dynamic == o.dynamic \/ updated.kind = "dynamic"
           r == [left |-> Without(o.left, k), opp |-> followed[1],
                 kept |-> Append(o.kept, followed[2]), dynamic |-> dynamic]
<1>1. /\ o.left \in Seq(Cells) /\ o.opp \in Opponents /\ o.kept \in Seq(Obstacles)
      /\ o.dynamic \in BOOLEAN
      /\ EachAssignedOnce(o) /\ OldUnlessRenewed(o) /\ StartsAtOnce(o)
  BY DEF SoundOutcomes, OutcomeRecords
<1>2. /\ o.left[k] \in Cells /\ Without(o.left, k) \in Seq(Cells)
      /\ Len(Without(o.left, k)) = Len(o.left) - 1 /\ Len(o.left) \in Nat
  <2>1. o.left \in Seq(Cells) /\ Len(o.left) \in Nat
    BY <1>1
  <2> QED  BY <2>1, OneLess
<1>3. updated \in Obstacles /\ updated.seen /\ Last(updated.measurments_s) \in Cells
  BY <1>2, UpdatedTypes
<1>4. /\ followed[1] \in Opponents /\ followed[2] \in Obstacles /\ followed[2].seen
      /\ updated.kind # "dynamic" => followed[1] = o.opp
      /\ updated.kind = "dynamic" /\ ~o.opp.isInitialised =>
            followed[1].isInitialised /\ followed[1].ttl = ttl_dynamic
  BY <1>1, <1>3, FollowTypes
<1>5. Append(o.kept, followed[2]) \in Seq(Obstacles)
  BY <1>1, <1>4, AppendProperties
<1>6. r \in OutcomeRecords
  BY <1>1, <1>2, <1>4, <1>5 DEF OutcomeRecords
<1>7. /\ Cardinality(SeenIn(o.kept)) \in Nat
      /\ Cardinality(SeenIn(r.kept)) = Cardinality(SeenIn(o.kept)) + 1
  BY <1>1, <1>4, SeenInAppend
<1>8. EachAssignedOnce(r)
  BY <1>1, <1>2, <1>7 DEF EachAssignedOnce
<1>9. OldUnlessRenewed(r)
  BY <1>1, <1>4 DEF OldUnlessRenewed
<1>10. StartsAtOnce(r)
  <2>1. SUFFICES ASSUME Len(meas_obstacles) = 1, ~opponent.isInitialised
                 PROVE  IF r.left = <<>>
                        THEN r.dynamic => r.opp.isInitialised /\ r.opp.ttl = ttl_dynamic
                        ELSE ~r.dynamic /\ ~r.opp.isInitialised
    BY DEF StartsAtOnce
  <2>2. o.left # <<>> /\ Len(r.left) = 0
    BY <1>1, <1>2, <1>7, <2>1 DEF EachAssignedOnce
  <2>3. r.left = <<>>
    BY <1>2, <2>2
  <2>4. ~o.dynamic /\ ~o.opp.isInitialised
    BY <1>1, <2>1, <2>2 DEF StartsAtOnce
  <2> QED  BY <1>4, <2>3, <2>4
<1> QED  BY <1>6, <1>8, <1>9, <1>10 DEF SoundOutcomes

\* A round in which it is not: the obstacle is kept for a time, then removed.
LEMMA MissedRound ==
    ASSUME NEW o \in SoundOutcomes, NEW obstacle \in Obstacles,
           NEW r \in AssociateOne(o, obstacle, 0)
    PROVE  r \in SoundOutcomes
<1>1. /\ o \in OutcomeRecords /\ o.left \in Seq(Cells) /\ o.opp \in Opponents
      /\ o.kept \in Seq(Obstacles) /\ o.dynamic \in BOOLEAN
      /\ EachAssignedOnce(o) /\ OldUnlessRenewed(o) /\ StartsAtOnce(o)
  BY DEF SoundOutcomes, OutcomeRecords
<1>2. CASE obstacle.ttl <= 0
  <2> DEFINE opp == [o.opp EXCEPT !.useTargetVel = @ \/ obstacle.kind = "dynamic"]
  <2>1. r = [o EXCEPT !.opp = opp]
    BY <1>2 DEF AssociateOne
  <2>2. /\ opp \in Opponents /\ opp.isInitialised = o.opp.isInitialised
        /\ opp.ttl = o.opp.ttl
    BY <1>1 DEF Opponents
  <2> HIDE DEF opp
  <2>3. /\ r \in OutcomeRecords /\ r.left = o.left /\ r.kept = o.kept
        /\ r.dynamic = o.dynamic /\ r.opp = opp
    BY <1>1, <2>1, <2>2 DEF OutcomeRecords
  <2> QED
    BY <1>1, <2>2, <2>3 DEF SoundOutcomes, EachAssignedOnce, OldUnlessRenewed, StartsAtOnce
<1>3. CASE obstacle.ttl > 0
  <2>1. r = [o EXCEPT !.kept = Append(o.kept, Missed(obstacle))]
    BY <1>3 DEF AssociateOne, Obstacles
  <2>2. Missed(obstacle) \in Obstacles /\ ~Missed(obstacle).seen
    BY <1>3, MissedTypes
  <2>3. /\ Append(o.kept, Missed(obstacle)) \in Seq(Obstacles)
        /\ Cardinality(SeenIn(Append(o.kept, Missed(obstacle)))) = Cardinality(SeenIn(o.kept))
    BY <1>1, <2>2, SeenInAppend, AppendProperties
  <2>4. /\ r \in OutcomeRecords /\ r.left = o.left /\ r.opp = o.opp
        /\ r.dynamic = o.dynamic /\ r.kept = Append(o.kept, Missed(obstacle))
    BY <1>1, <2>1, <2>3 DEF OutcomeRecords
  <2> QED
    BY <1>1, <2>3, <2>4 DEF SoundOutcomes, EachAssignedOnce, OldUnlessRenewed, StartsAtOnce
<1> QED  BY <1>2, <1>3 DEF Obstacles

\* A round for one obstacle turns sound outcomes into sound ones.
LEMMA RoundIsSound ==
    ASSUME NEW outcomes \in SUBSET SoundOutcomes, NEW obstacle \in Obstacles
    PROVE  Associate(outcomes, obstacle) \in SUBSET SoundOutcomes
<1> SUFFICES ASSUME NEW o \in outcomes,
                    NEW r \in AssociateOne(o, obstacle,
                                           verify_position(obstacle, o.opp, o.left))
             PROVE  r \in SoundOutcomes
  BY DEF Associate
<1> DEFINE k == verify_position(obstacle, o.opp, o.left)
<1>1. k \in DOMAIN o.left \cup {0}
  BY PositionIsThere DEF SoundOutcomes, OutcomeRecords
<1>2. 0 \notin DOMAIN o.left
  BY DEF SoundOutcomes, OutcomeRecords
<1> HIDE DEF k
<1>3. CASE k = 0
  BY <1>3, MissedRound DEF k
<1>4. CASE k # 0
  <2>1. PICK updated \in update_tracked_obstacle(obstacle, o.left[k]) :
            \E followed \in Follow(o.opp, updated) :
               r = [left |-> Without(o.left, k), opp |-> followed[1],
                    kept |-> Append(o.kept, followed[2]),
                    dynamic |-> o.dynamic \/ updated.kind = "dynamic"]
    BY <1>4 DEF AssociateOne, k
  <2> QED  BY <1>1, <1>4, <2>1, MeasuredRound
<1> QED  BY <1>3, <1>4

\* The invariant of the loop: every outcome of its rounds is sound.
LEMMA OutcomesAreSound == IInv => Outcomes \subseteq SoundOutcomes
<1> SUFFICES ASSUME IInv PROVE Outcomes \subseteq SoundOutcomes
  OBVIOUS
<1> DEFINE N == Len(tracked_obstacles)
           V == SUBSET SoundOutcomes
           c == {[left |-> meas_obstacles, opp |-> opp, kept |-> <<>>, dynamic |-> FALSE] :
                   opp \in predict(opponent)}
           F(g) == [k \in 0..N |-> IF k = 0 THEN c
                                   ELSE Associate(g[k - 1], tracked_obstacles[k])]
           after == CHOOSE g : g = F(g)
<1>1. N \in Nat /\ \A k \in 1..N : tracked_obstacles[k] \in Obstacles
  BY DEF IInv
<1>2. c \in V
  <2>1. SUFFICES ASSUME NEW opp \in predict(opponent)
                 PROVE  [left |-> meas_obstacles, opp |-> opp, kept |-> <<>>,
                         dynamic |-> FALSE] \in SoundOutcomes
    OBVIOUS
  <2> DEFINE o == [left |-> meas_obstacles, opp |-> opp, kept |-> <<>>, dynamic |-> FALSE]
  <2>2. meas_obstacles \in Seq(Cells) /\ opponent \in Opponents
    BY DEF IInv, TrackingTypeOK, Opponents
  <2>3. opp \in Opponents /\ opp.isInitialised = opponent.isInitialised /\ opp.ttl = opponent.ttl
    BY <2>2, PredictTypes
  <2>4. o \in OutcomeRecords
    BY <2>2, <2>3 DEF OutcomeRecords
  <2>5. Cardinality(SeenIn(o.kept)) = 0
    <3>1. SeenIn(o.kept) = {}
      BY DEF SeenIn
    <3> QED  BY <3>1, FS_EmptySet
  <2>6. EachAssignedOnce(o)
    BY <2>2, <2>5 DEF EachAssignedOnce
  <2>7. OldUnlessRenewed(o) /\ StartsAtOnce(o)
    BY <2>2, <2>3 DEF OldUnlessRenewed, StartsAtOnce
  <2> QED  BY <2>4, <2>6, <2>7 DEF SoundOutcomes
<1>3. \A S \in V, k \in 1..N : Associate(S, tracked_obstacles[k]) \in V
  BY <1>1, RoundIsSound
<1> HIDE DEF N, V, c
<1>4. \E g : g = F(g)
  <2> DEFINE D == [k \in 1..N |-> [S \in V |-> Associate(S, tracked_obstacles[k])]]
  <2>1. D \in [1..N -> [V -> V]]
    BY <1>3
  <2>2. \A S \in V, k \in 1..N : D[k][S] = Associate(S, tracked_obstacles[k])
    OBVIOUS
  <2> HIDE DEF D
  <2>3. PICK g : /\ \A k \in 0..N : g[k] \in V
                 /\ g = [k \in 0..N |-> IF k = 0 THEN c ELSE D[k][g[k - 1]]]
    <3>1. N \in Nat /\ c \in V
      BY <1>1, <1>2
    <3> HIDE TrackingAssumption
    <3> QED  BY <3>1, <2>1, RecursiveFunction
  <2>4. \A k \in 0..N : k # 0 => k \in 1..N /\ g[k - 1] \in V
    BY <1>1, <2>3
  <2>5. \A k \in 0..N : k # 0 => D[k][g[k - 1]] = Associate(g[k - 1], tracked_obstacles[k])
    BY <2>2, <2>4
  <2>6. g = F(g)
    BY <2>3, <2>5
  <2> HIDE DEF F
  <2> QED  BY <2>6
<1>5. after = F(after)
  <2> HIDE DEF F
  <2> QED  BY <1>4
<1>6. Outcomes = after[N]
  BY DEF Outcomes, N, c
<1> HIDE DEF after
<1>7. after[N] \in V
  <2> DEFINE S == {k \in 0..N : after[k] \in V}
  <2>1. 0 \in S
    BY <1>1, <1>2, <1>5
  <2>2. ASSUME NEW k \in 1..N, k - 1 \in S PROVE k \in S
    <3>1. after[k] = Associate(after[k - 1], tracked_obstacles[k])
      BY <1>1, <1>5
    <3> QED  BY <1>3, <2>2, <3>1
  <2>3. 0..N \subseteq S
    <3> HIDE DEF S
    <3> QED  BY <1>1, <2>1, <2>2, RoundInduction
  <2> QED  BY <1>1, <2>3
<1> QED  BY <1>6, <1>7 DEF V

-----------------------------------------------------------------------------
(* The invariant.                                                          *)

\* The node starts with nothing tracked.
LEMMA InitiallyNothing == TrackingInit => IInv
<1> SUFFICES ASSUME TrackingInit PROVE IInv
  OBVIOUS
<1>1. /\ 0 \in Cells /\ 0 \in 0..ttl_dynamic /\ 0 \in 0..MinUpdates
      /\ ttl_dynamic \in 0..ttl_dynamic
  BY DEF Cells
<1>2. tracked_obstacles = <<>> /\ tracked_obstacles \in Seq(Obstacles)
  BY DEF TrackingInit
<1>3. opponent \in [isInitialised : BOOLEAN, s : Cells, ttl : 0..ttl_dynamic,
                    updates : 0..MinUpdates, useTargetVel : BOOLEAN]
  <2>1. opponent = [isInitialised |-> FALSE, s |-> 0, ttl |-> 0, updates |-> 0,
                    useTargetVel |-> FALSE]
    BY DEF TrackingInit
  <2> QED  BY <1>1, <2>1
<1>4. TrackingTypeOK
  <2>1. \A k \in DOMAIN tracked_obstacles : tracked_obstacles[k] \in Obstacles
    BY <1>2
  <2>2. unseen \in 0..ttl_dynamic /\ dropped \in 0..2
    BY <1>1 DEF TrackingInit
  <2>3. /\ path_known \in BOOLEAN /\ car_s \in CarPositions \cup {None}
        /\ meas_obstacles \in Messages /\ view \in Views \cup {{}}
        /\ publish_static \in BOOLEAN /\ noMemoryMode \in BOOLEAN
    BY DEF TrackingInit
  <2> QED  BY <1>3, <2>1, <2>2, <2>3 DEF TrackingTypeOK
<1> QED  BY <1>2, <1>4 DEF TrackingInit, IInv

\* The callbacks change what the loop reads and nothing it writes.
LEMMA CallbacksKeepIInv ==
    ASSUME IInv,
           \/ \E data \in Messages : obstacleCallback(data)
           \/ pathCallback
           \/ \E s \in CarPositions : carStateCallback(s)
           \/ \E seen \in Views : scansCallback(seen)
           \/ dyn_param_cb
    PROVE  IInv' /\ UNCHANGED <<tracked_obstacles, opponent, unseen, dropped>>
<1>1. CASE \E data \in Messages : obstacleCallback(data)
  BY <1>1 DEF obstacleCallback, IInv, TrackingTypeOK
<1>2. CASE pathCallback
  BY <1>2 DEF pathCallback, IInv, TrackingTypeOK
<1>3. CASE \E s \in CarPositions : carStateCallback(s)
  BY <1>3 DEF carStateCallback, IInv, TrackingTypeOK
<1>4. CASE \E seen \in Views : scansCallback(seen)
  BY <1>4 DEF scansCallback, IInv, TrackingTypeOK
<1>5. CASE dyn_param_cb
  BY <1>5 DEF dyn_param_cb, inputs, IInv, TrackingTypeOK
<1> QED  BY <1>1, <1>2, <1>3, <1>4, <1>5

\* A loop preserves the invariant, and every measurement ends in one obstacle.
LEMMA LoopKeepsIInv ==
    ASSUME IInv, loop
    PROVE  /\ IInv'
           /\ Cardinality(SeenIn(tracked_obstacles')) = Len(meas_obstacles)
<1>1. PICK o \in Outcomes :
        /\ tracked_obstacles' = o.kept \o [k \in DOMAIN o.left |-> NewObstacle(o.left[k])]
        /\ opponent' = CountedDown(o.opp)
        /\ unseen' = IF o.dynamic THEN 0
                     ELSE IF opponent'.isInitialised /\ unseen < ttl_dynamic
                     THEN unseen + 1 ELSE ttl_dynamic
        /\ dropped' = IF ~o.dynamic \/ opponent'.isInitialised \/ Len(meas_obstacles) # 1
                      THEN 0 ELSE IF dropped < 2 THEN dropped + 1 ELSE 2
  BY DEF loop
<1>2. /\ o.left \in Seq(Cells) /\ o.opp \in Opponents /\ o.kept \in Seq(Obstacles)
      /\ o.dynamic \in BOOLEAN
      /\ EachAssignedOnce(o) /\ OldUnlessRenewed(o) /\ StartsAtOnce(o)
  BY OutcomesAreSound DEF SoundOutcomes, OutcomeRecords
<1>3. /\ tracked_obstacles' \in Seq(Obstacles)
      /\ Cardinality(SeenIn(tracked_obstacles')) = Cardinality(SeenIn(o.kept)) + Len(o.left)
  BY <1>1, <1>2, SeenInNew
<1>4. Cardinality(SeenIn(tracked_obstacles')) = Len(meas_obstacles)
  BY <1>2, <1>3 DEF EachAssignedOnce
<1>5. /\ opponent' \in Opponents
      /\ opponent'.isInitialised => o.opp.isInitialised /\ opponent'.ttl = o.opp.ttl - 1
      /\ o.opp.isInitialised /\ o.opp.ttl > 0 => opponent'.isInitialised
  BY <1>1, <1>2, CountedDownTypes
<1>6. /\ opponent \in Opponents /\ unseen \in 0..ttl_dynamic /\ dropped \in 0..2
      /\ dropped <= 1 /\ meas_obstacles \in Seq(Cells)
  BY DEF IInv, TrackingTypeOK, Opponents
<1>7. o.opp.ttl \in 0..ttl_dynamic /\ opponent.ttl \in 0..ttl_dynamic /\ opponent'.ttl \in 0..ttl_dynamic
  BY <1>2, <1>5, <1>6 DEF Opponents
<1>8. unseen' \in 0..ttl_dynamic /\ dropped' \in 0..2
  BY <1>1, <1>6
<1>9. opponent'.isInitialised => unseen' + opponent'.ttl < ttl_dynamic
  <2> SUFFICES ASSUME opponent'.isInitialised
               PROVE  unseen' + opponent'.ttl < ttl_dynamic
    OBVIOUS
  <2>1. CASE o.dynamic
    BY <1>1, <1>5, <1>7, <2>1
  <2>2. CASE ~o.dynamic
    <3>1. opponent.isInitialised /\ opponent'.ttl = opponent.ttl - 1
      BY <1>2, <1>5, <2>2 DEF OldUnlessRenewed
    <3>2. unseen + opponent.ttl < ttl_dynamic
      BY <3>1 DEF IInv
    <3>3. unseen' = unseen + 1
      BY <1>1, <1>6, <1>7, <2>2, <3>2
    <3> QED  BY <1>6, <1>7, <3>1, <3>2, <3>3
  <2> QED  BY <2>1, <2>2
<1>10. (dropped' > 0 => ~opponent'.isInitialised) /\ dropped' <= 1
  <2>1. dropped' > 0 => o.dynamic /\ ~opponent'.isInitialised /\ Len(meas_obstacles) = 1
    BY <1>1
  <2>2. dropped' > 1 => dropped > 0
    BY <1>1, <1>6
  <2>3. SUFFICES ASSUME dropped' > 1 PROVE FALSE
    BY <1>8, <2>1
  <2>4. ~opponent.isInitialised
    BY <1>8, <2>2, <2>3 DEF IInv
  <2>5. o.dynamic /\ ~opponent'.isInitialised /\ Len(meas_obstacles) = 1
    BY <1>8, <2>1, <2>3
  <2>6. o.opp.isInitialised /\ o.opp.ttl = ttl_dynamic
    BY <1>2, <2>4, <2>5 DEF StartsAtOnce
  <2> QED  BY <1>5, <2>5, <2>6
<1>11. TrackingTypeOK'
  <2>1. UNCHANGED <<inputs, publish_static, noMemoryMode>>
    BY DEF loop
  <2>2. \A k \in DOMAIN tracked_obstacles' : tracked_obstacles'[k] \in Obstacles
    BY <1>3
  <2> QED  BY <1>5, <1>8, <2>1, <2>2 DEF IInv, TrackingTypeOK, Opponents, inputs
<1> QED  BY <1>3, <1>4, <1>9, <1>10, <1>11 DEF IInv

\* Neither a loop nor a callback breaks the invariant.
LEMMA NextKeepsIInv == IInv /\ [TrackingNext]_tracking_vars => IInv'
<1> SUFFICES ASSUME IInv, [TrackingNext]_tracking_vars PROVE IInv'
  OBVIOUS
<1>1. CASE UNCHANGED tracking_vars
  BY <1>1 DEF tracking_vars, inputs, IInv, TrackingTypeOK
<1> QED  BY <1>1, LoopKeepsIInv, CallbacksKeepIInv DEF TrackingNext

-----------------------------------------------------------------------------
(* What tracking promises.                                                 *)

\* Time unseen and time to live left never exceed ttl_dynamic, and an opponent
\* that was dropped is not there, for every track and every measurement.
THEOREM TrackingInvariant == TrackingSpec => []IInv
BY InitiallyNothing, NextKeepsIInv, PTL DEF TrackingSpec

\* The state of tracking is what its message types and times to live say.
THEOREM TrackingTypeCorrect == TrackingSpec => []TrackingTypeOK
<1>1. IInv => TrackingTypeOK
  BY DEF IInv
<1> QED  BY <1>1, TrackingInvariant, PTL

\* The opponent is published for less than ttl_dynamic loops after a dynamic
\* obstacle was measured: its time to live and the loops without one add up to
\* less than ttl_dynamic.
THEOREM OpponentForgotten == TrackingSpec => []Forgets
<1>1. IInv => Forgets
  <2> SUFFICES ASSUME IInv, opponent.isInitialised PROVE unseen < ttl_dynamic
    BY DEF Forgets, PublishesOpponent
  <2>1. /\ unseen \in Int /\ opponent.ttl \in Nat
        /\ unseen + opponent.ttl < ttl_dynamic
    BY DEF IInv, TrackingTypeOK
  <2> QED  BY <2>1
<1> QED  BY <1>1, TrackingInvariant, PTL

\* An opponent that stays in sight is dropped for one loop at most.
THEOREM OpponentComesBack == TrackingSpec => []ComesBack
<1>1. IInv => ComesBack
  BY DEF IInv, ComesBack
<1> QED  BY <1>1, TrackingInvariant, PTL

\* A measured obstacle is that of exactly one tracked obstacle.
THEOREM MeasuredOnce == TrackingSpec => OneObstacleEach
<1>1. IInv /\ [TrackingNext]_tracking_vars =>
        [Cardinality({k \in DOMAIN tracked_obstacles' : tracked_obstacles'[k].seen})
            = Len(meas_obstacles)]_tracked_obstacles
  <2> SUFFICES ASSUME IInv, TrackingNext, tracked_obstacles' # tracked_obstacles
               PROVE  Cardinality({k \in DOMAIN tracked_obstacles' :
                                      tracked_obstacles'[k].seen}) = Len(meas_obstacles)
    BY DEF tracking_vars
  <2>1. loop
    BY CallbacksKeepIInv DEF TrackingNext
  <2> QED  BY <2>1, LoopKeepsIInv DEF SeenIn
<1> QED  BY <1>1, TrackingInvariant, PTL DEF TrackingSpec, OneObstacleEach
=============================================================================
