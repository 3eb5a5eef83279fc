-------------------------- MODULE ControllerProofs --------------------------
(***************************************************************************)
(* Proofs about the controller, for every limit, message and gain: the     *)
(* obstacle it trails is the right one, it yields to an opponent that is   *)
(* too close, and it stops the car when the local waypoints do not come.   *)
(***************************************************************************)
EXTENDS Controller, RecursionLemmas

-----------------------------------------------------------------------------
(* The obstacle the controller trails.                                     *)

\* Distances ahead of the car are those on the track.
LEMMA DistanceOnTrack ==
    ASSUME car \in CarStates, track_length = TrackLength, NEW s \in Int
    PROVE  AheadOfCar(s) \in 0..(TrackLength - 1)
<1>1. car.s \in Int /\ TrackLength \in Nat /\ TrackLength > 0
  BY ControllerAssumption, TrailingAssumption
<1>2. s - car.s \in Int
  BY <1>1
<1> QED  BY <1>1, <1>2 DEF AheadOfCar

\* What the loop of obstacle_cb keeps: after k rounds the obstacle is one of
\* the k heard, the nearest of them, but a dynamic one if those come first.
SoundChoice(best, obstacles, k) ==
    \E i \in 1..k :
        /\ best = [closest_opp |-> AheadOfCar(obstacles[i].s_start),
                   obstacle |-> obstacles[i],
                   static_flag |-> obstacles[i].is_static /\ prioritize_dyn]
        /\ prioritize_dyn /\ (\E j \in 1..k : ~obstacles[j].is_static) =>
              ~obstacles[i].is_static
        /\ ~prioritize_dyn \/ obstacles[i].is_static =>
              \A j \in 1..k : AheadOfCar(obstacles[i].s_start)
                                <= AheadOfCar(obstacles[j].s_start)

\* A round keeps it, because a dynamic obstacle is published last.
LEMMA RoundChooses ==
    ASSUME car \in CarStates, track_length = TrackLength, prioritize_dyn \in BOOLEAN,
           NEW obstacles \in ObstacleArrays, NEW k \in 2..Len(obstacles),
           NEW best, SoundChoice(best, obstacles, k - 1)
    PROVE  SoundChoice(Prefer(best, obstacles[k]), obstacles, k)
<1>1. \A j \in 1..k : /\ obstacles[j] \in Obstacles
                      /\ AheadOfCar(obstacles[j].s_start) \in Nat
  <2>1. \A j \in 1..k : obstacles[j] \in Obstacles
    BY TrailingAssumption
  <2>2. \A j \in 1..k : obstacles[j].s_start \in Int
    BY <2>1 DEF Obstacles
  <2>3. ASSUME NEW j \in 1..k PROVE AheadOfCar(obstacles[j].s_start) \in Nat
    <3>1. AheadOfCar(obstacles[j].s_start) \in 0..(TrackLength - 1)
      BY <2>2, DistanceOnTrack
    <3> QED  BY <3>1, ControllerAssumption
  <2> QED  BY <2>1, <2>3
<1>2. \A j \in 1..(k - 1) : obstacles[j].is_static /\ j \in 1..k
  <2>1. Len(obstacles) \in Nat
    BY TrailingAssumption
  <2> QED  BY <2>1, PublishedAssumption
<1>3. PICK i \in 1..(k - 1) :
        /\ best = [closest_opp |-> AheadOfCar(obstacles[i].s_start),
                   obstacle |-> obstacles[i],
                   static_flag |-> obstacles[i].is_static /\ prioritize_dyn]
        /\ ~prioritize_dyn \/ obstacles[i].is_static =>
              \A j \in 1..(k - 1) : AheadOfCar(obstacles[i].s_start)
                                      <= AheadOfCar(obstacles[j].s_start)
  BY DEF SoundChoice
<1>4. k \in 1..k /\ i \in 1..k /\ \A j \in 1..k : j = k \/ j \in 1..(k - 1)
  OBVIOUS
<1>5. \A j \in 1..(k - 1) : AheadOfCar(obstacles[i].s_start)
                              <= AheadOfCar(obstacles[j].s_start)
  BY <1>2, <1>3
<1> DEFINE d == AheadOfCar(obstacles[k].s_start)
           closer == d < AheadOfCar(obstacles[i].s_start)
           first_dynamic == prioritize_dyn /\ ~obstacles[k].is_static
           next == [closest_opp |-> d, obstacle |-> obstacles[k],
                    static_flag |-> obstacles[k].is_static /\ prioritize_dyn]
<1>6. Prefer(best, obstacles[k]) = IF closer \/ first_dynamic THEN next ELSE best
  BY <1>2, <1>3 DEF Prefer
<1>7. CASE closer \/ first_dynamic
  <2>1. prioritize_dyn /\ (\E j \in 1..k : ~obstacles[j].is_static) =>
           ~obstacles[k].is_static
    BY <1>2, <1>4
  <2>2. ASSUME ~prioritize_dyn \/ obstacles[k].is_static, NEW j \in 1..k
        PROVE  d <= AheadOfCar(obstacles[j].s_start)
    <3>1. closer
      BY <1>7, <2>2
    <3>2. d < AheadOfCar(obstacles[i].s_start) /\ d \in Nat
          /\ AheadOfCar(obstacles[i].s_start) \in Nat /\ AheadOfCar(obstacles[j].s_start) \in Nat
      BY <1>1, <1>4, <3>1
    <3>3. CASE j = k
      BY <3>2, <3>3
    <3>4. CASE j # k
      <4>1. AheadOfCar(obstacles[i].s_start) <= AheadOfCar(obstacles[j].s_start)
        BY <1>4, <1>5, <3>4
      <4> HIDE DEF d
      <4> QED  BY <3>2, <4>1
    <3> QED  BY <3>3, <3>4
  <2> HIDE DEF closer, first_dynamic
  <2> QED  BY <1>4, <1>6, <1>7, <2>1, <2>2 DEF SoundChoice
<1>8. CASE ~closer /\ ~first_dynamic
  <2>1. prioritize_dyn /\ (\E j \in 1..k : ~obstacles[j].is_static) =>
           ~obstacles[i].is_static
    BY <1>2, <1>4, <1>8
  <2>2. \A j \in 1..k : AheadOfCar(obstacles[i].s_start) <= AheadOfCar(obstacles[j].s_start)
    BY <1>1, <1>4, <1>5, <1>8
  <2> HIDE DEF closer, first_dynamic, next
  <2> QED  BY <1>3, <1>4, <1>6, <1>8, <2>1, <2>2 DEF SoundChoice
<1> QED  BY <1>7, <1>8

\* Of the obstacles heard one is chosen, by the preference described.
LEMMA ChoiceIsSound ==
    ASSUME car \in CarStates, track_length = TrackLength, prioritize_dyn \in BOOLEAN,
           NEW obstacles \in ObstacleArrays, 1 \in DOMAIN obstacles
    PROVE  \E best : /\ ChosenObstacle(obstacles) = best.obstacle
                     /\ SoundChoice(best, obstacles, Len(obstacles))
<1> DEFINE N == Len(obstacles)
           c == [closest_opp |-> track_length, obstacle |-> None, static_flag |-> FALSE]
           V == [closest_opp : Nat, obstacle : Obstacles \cup {None}, static_flag : BOOLEAN]
           F(f) == [k \in 0..N |-> IF k = 0 THEN c ELSE Prefer(f[k - 1], obstacles[k])]
           best == CHOOSE f : f = F(f)
<1>1. N \in Nat /\ N > 0 /\ \A k \in 1..N : obstacles[k] \in Obstacles
  BY TrailingAssumption
<1>2. c \in V
  BY ControllerAssumption
<1>3. \A v \in V, k \in 1..N : Prefer(v, obstacles[k]) \in V
  <2> TAKE v \in V, k \in 1..N
  <2>1. obstacles[k].s_start \in Int /\ obstacles[k].is_static \in BOOLEAN
    BY <1>1 DEF Obstacles
  <2>2. AheadOfCar(obstacles[k].s_start) \in Nat
    <3>1. AheadOfCar(obstacles[k].s_start) \in 0..(TrackLength - 1)
      BY <2>1, DistanceOnTrack
    <3> QED  BY <3>1, ControllerAssumption
  <2> QED  BY <1>1, <2>1, <2>2 DEF Prefer
<1>4. SoundChoice(Prefer(c, obstacles[1]), obstacles, 1)
  <2>1. 1 \in 1..N /\ obstacles[1].s_start \in Int
    BY <1>1 DEF Obstacles
  <2>2. AheadOfCar(obstacles[1].s_start) \in 0..(TrackLength - 1)
    BY <2>1, DistanceOnTrack
  <2>3. AheadOfCar(obstacles[1].s_start) < c.closest_opp
    BY <2>2, ControllerAssumption
  <2>4. Prefer(c, obstacles[1]) =
           [closest_opp |-> AheadOfCar(obstacles[1].s_start), obstacle |-> obstacles[1],
            static_flag |-> obstacles[1].is_static /\ prioritize_dyn]
    BY <2>3 DEF Prefer
  <2> HIDE DEF c
  <2> QED  BY <2>2, <2>4 DEF SoundChoice
<1> HIDE DEF N, V, c
<1>5. \E g : g = F(g)
  <2> DEFINE D == [k \in 1..N |-> [v \in V |-> Prefer(v, obstacles[k])]]
  <2>1. D \in [1..N -> [V -> V]]
    BY <1>3
  <2>2. \A v \in V, k \in 1..N : D[k][v] = Prefer(v, obstacles[k])
    OBVIOUS
  <2> HIDE DEF D
  <2>3. PICK g : /\ g[0] = c
                 /\ \A k \in 0..N : g[k] \in V
                 /\ \A k \in 1..N : g[k] = D[k][g[k - 1]]
    <3>1. N \in Nat /\ c \in V
      BY <1>1, <1>2
    <3> HIDE TrailingAssumption, PublishedAssumption
    <3> QED  BY <3>1, <2>1, RoundFunction, Z3
  <2> DEFINE h == [k \in 0..N |-> g[k]]
  <2>4. \A k \in 1..N : g[k] = Prefer(g[k - 1], obstacles[k])
    <3> TAKE k \in 1..N
    <3>1. g[k - 1] \in V
      BY <1>1, <2>3
    <3> QED  BY <2>2, <2>3, <3>1
  <2>5. \A k \in 0..N : /\ h[k] = g[k]
                        /\ k # 0 => k \in 1..N /\ h[k - 1] = g[k - 1]
    BY <1>1
  <2>6. h = F(h)
    BY <2>3, <2>4, <2>5
  <2> HIDE DEF F, h
  <2> QED  BY <2>6
<1>6. best = F(best)
  <2> HIDE DEF F
  <2> QED  BY <1>5
<1>7. ChosenObstacle(obstacles) = best[N].obstacle
  BY DEF ChosenObstacle, N, c
<1> HIDE DEF best
<1>8. SoundChoice(best[N], obstacles, N)
  <2> DEFINE S == {k \in 0..N : k > 0 => SoundChoice(best[k], obstacles, k)}
  <2>1. 0 \in S
    BY <1>1
  <2>2. ASSUME NEW k \in 1..N, k - 1 \in S PROVE k \in S
    <3>1. best[k] = Prefer(best[k - 1], obstacles[k])
      BY <1>1, <1>6
    <3>2. CASE k = 1
      <4>1. best[k - 1] = c
        BY <1>1, <1>6, <3>2
      <4> QED  BY <1>4, <3>1, <3>2, <4>1
    <3>3. CASE k > 1
      <4>1. k \in 2..Len(obstacles) /\ SoundChoice(best[k - 1], obstacles, k - 1)
        BY <1>1, <2>2, <3>3 DEF N
      <4> QED  BY <3>1, <4>1, RoundChooses
    <3> QED  BY <1>1, <3>2, <3>3
  <2>3. 0..N \subseteq S
    <3> HIDE DEF S
    <3> QED  BY <1>1, <2>1, <2>2, RoundInduction
  <2> QED  BY <1>1, <2>3
<1> QED  BY <1>7, <1>8 DEF N

-----------------------------------------------------------------------------
(* The inductive invariant.                                                *)

\* The loop runs only when the messages waited for are there.
Ready ==
    phase = "running" =>
        /\ track_length = TrackLength
        /\ car \in CarStates
        /\ waypoints \in WaypointSpeeds

\* An opponent was published, and heard after the messages it is measured by.
OpponentHeard ==
    /\ opponent \in Obstacles \cup {None}
    /\ opponent # None => track_length = TrackLength /\ car \in CarStates

\* The safety counter counts exactly the loops without local waypoints.
CounterCountsQuiet == waypoint_safety_counter = quiet

\* The counter that stops the car is the ghost that counts loops in silence.
IInv == TypeOK /\ Ready /\ OpponentHeard /\ CounterCountsQuiet /\ SilenceStops

\* A clipped value is within its limits, and no larger than what was clipped
\* unless the lower limit is.
LEMMA ClipRange ==
    ASSUME NEW x \in Int, NEW low \in Int, NEW high \in Int
    PROVE  /\ Clip(x, low, high) \in Int
           /\ low <= high => Clip(x, low, high) \in low..high
           /\ Clip(x, low, high) <= Larger(x, low)
  BY DEF Clip, Larger

\* What the terms of the trailing controller are made of.
LEMMA TrailingTypes ==
    ASSUME IInv, opponent # None
    PROVE  /\ opponent.vs \in Int /\ car.vs \in Int
           /\ Gap \in Nat /\ GapError \in Int
           /\ NextIGap \in (-IMax)..IMax
<1>1. opponent.s_center \in Int /\ opponent.vs \in Int
  BY DEF IInv, OpponentHeard, Obstacles
<1>2. car \in CarStates /\ track_length = TrackLength /\ car.vs \in Int
  BY TrailingAssumption DEF IInv, OpponentHeard
<1>3. Gap \in 0..(TrackLength - 1)
  BY <1>1, <1>2, DistanceOnTrack DEF Gap
<1>4. Gap \in Nat /\ GapError \in Int
  BY <1>3, ControllerAssumption, TrailingAssumption DEF GapError
<1>5. i_gap + GapError \in Int /\ IMax \in Nat
  BY <1>4, ControllerAssumption DEF IInv, TypeOK
<1>6. NextIGap \in (-IMax)..IMax
  <2>1. -IMax \in Int /\ -IMax <= IMax
    BY <1>5
  <2> QED  BY <1>5, <2>1 DEF NextIGap, Clip
<1> QED  BY <1>1, <1>2, <1>4, <1>6

\* Messages leave counter and command alone, but for waypoints, which start the
\* counter anew.
LEMMA MessagesKeepIInv == IInv /\ Hear => IInv'
<1> SUFFICES ASSUME IInv, Hear PROVE IInv'
  OBVIOUS
<1> USE DEF IInv, TypeOK, Ready, OpponentHeard, CounterCountsQuiet, SilenceStops,
            control
<1>1. ASSUME track_length_cb PROVE IInv'
  BY <1>1 DEF track_length_cb
<1>2. ASSUME NEW reported \in CarStates, car_state_cb(reported) PROVE IInv'
  BY <1>2 DEF car_state_cb
<1>3. ASSUME NEW speed \in WaypointSpeeds, local_waypoint_cb(speed) PROVE IInv'
  BY <1>3, ControllerAssumption DEF local_waypoint_cb
<1>4. ASSUME NEW text \in StateStrings, state_cb(text) PROVE IInv'
  BY <1>4 DEF state_cb
<1>5. ASSUME NEW obstacles \in ObstacleArrays, obstacle_cb(obstacles) PROVE IInv'
  <2>1. OpponentHeard'
    <3>1. CASE obstacles = <<>> \/ car = None \/ track_length = None
      BY <1>5, <3>1 DEF obstacle_cb
    <3>2. CASE ~(obstacles = <<>> \/ car = None \/ track_length = None)
      <4>1. car \in CarStates /\ track_length = TrackLength
        BY <3>2
      <4>2. 1 \in DOMAIN obstacles /\ Len(obstacles) \in Nat
            /\ \A k \in 1..Len(obstacles) : obstacles[k] \in Obstacles
        BY <3>2, TrailingAssumption
      <4>3. PICK best : /\ ChosenObstacle(obstacles) = best.obstacle
                        /\ SoundChoice(best, obstacles, Len(obstacles))
        BY <4>1, <4>2, ChoiceIsSound
      <4>4. best.obstacle \in Obstacles
        BY <4>2, <4>3 DEF SoundChoice
      <4>5. opponent' \in Obstacles /\ car' = car /\ track_length' = track_length
        BY <1>5, <3>2, <4>3, <4>4 DEF obstacle_cb
      <4> QED  BY <4>1, <4>5
    <3> QED  BY <3>1, <3>2
  <2>2. (TypeOK /\ Ready /\ CounterCountsQuiet /\ SilenceStops)'
    BY <1>5 DEF obstacle_cb
  <2> QED  BY <2>1, <2>2
<1> QED
  BY <1>1, <1>2, <1>3, <1>4, <1>5 DEF Hear

\* A loop publishes a drive command.
LEMMA LoopPublishes ==
    ASSUME IInv, control_loop
    PROVE  drive' \in DriveCommands /\ phase' = phase /\ curr_steering_angle' \in Int
<1>1. waypoints \in Nat /\ blind_trailing_speed \in Nat
  BY ControllerAssumption DEF control_loop, IInv, Ready
<1>2. PICK speed \in 0..Larger(waypoints, blind_trailing_speed) :
         /\ calc_steering_angle
         /\ drive' = IF Stops THEN [speed |-> 0, steer |-> 0]
                     ELSE [speed |-> speed, steer |-> curr_steering_angle']
  BY DEF control_loop, pursuit_cycle
<1>3. speed \in Nat
  BY <1>1
<1>4. curr_steering_angle' \in Int
  <2>1. PICK target \in SteerTargets :
           curr_steering_angle' = Clip(target, curr_steering_angle - SteerThreshold,
                                               curr_steering_angle + SteerThreshold)
    BY <1>2 DEF calc_steering_angle
  <2>2. target \in Int /\ curr_steering_angle \in Int /\ SteerThreshold \in Int
    BY ControllerAssumption DEF IInv, TypeOK
  <2> QED  BY <2>1, <2>2, ClipRange
<1> QED  BY <1>2, <1>3, <1>4 DEF control_loop, pursuit_cycle, DriveCommands

\* A loop keeps the integral in its bounds.  It counts itself before it looks at
\* the counter; at the limit it publishes a stop.
LEMMA LoopKeepsIInv == IInv /\ control_loop => IInv'
<1> SUFFICES ASSUME IInv, control_loop PROVE IInv'
  OBVIOUS
<1>1. /\ UNCHANGED <<mode, heard, prioritize_dyn>>
      /\ quiet' = Smaller(quiet + 1, SafetyLimit)
      /\ phase = "running"
  BY DEF control_loop
<1>2. quiet' \in 0..SafetyLimit /\ quiet \in 0..SafetyLimit /\ SafetyLimit \in Nat
  BY <1>1, ControllerAssumption DEF IInv, TypeOK, Smaller
<1>3. drive' \in DriveCommands /\ phase' = phase /\ curr_steering_angle' \in Int
  BY LoopPublishes
<1>4. PICK speed : /\ calc_speed_command(speed)
                   /\ drive' = IF Stops THEN [speed |-> 0, steer |-> 0]
                               ELSE [speed |-> speed, steer |-> curr_steering_angle']
  BY DEF control_loop, pursuit_cycle
<1>5. i_gap' \in (-IMax)..IMax
  <2>1. CASE Trails
    BY <1>4, <2>1, TrailingTypes DEF calc_speed_command, Trails
  <2>2. CASE ~Trails
    BY <1>4, <2>2, ControllerAssumption DEF calc_speed_command
  <2> QED  BY <2>1, <2>2
<1>6. waypoint_safety_counter' = Smaller(waypoint_safety_counter + 1, SafetyLimit)
  BY DEF control_loop, pursuit_cycle
<1>7. quiet' >= SafetyLimit => drive' = [speed |-> 0, steer |-> 0]
  <2>1. quiet' >= SafetyLimit => Stops
    BY <1>1, <1>2 DEF IInv, CounterCountsQuiet, Smaller, Stops
  <2> QED  BY <1>4, <2>1
<1>8. waypoint_safety_counter' = quiet'
  BY <1>1, <1>6 DEF IInv, CounterCountsQuiet
<1> HIDE DEF DriveCommands
<1> QED  BY <1>1, <1>2, <1>3, <1>5, <1>7, <1>8
         DEF heard, IInv, TypeOK, Ready, OpponentHeard, CounterCountsQuiet, SilenceStops

\* When the node is created nothing has been heard and nothing counted.
LEMMA InitIInv == Init => IInv
<1> SUFFICES ASSUME Init PROVE IInv
  OBVIOUS
<1>1. prioritize_dyn \in BOOLEAN
  BY DEF Init
<1> QED
  BY <1>1, ControllerAssumption
  DEF Init, IInv, TypeOK, Ready, OpponentHeard, CounterCountsQuiet, SilenceStops

\* No callback, no loop and no start-up step breaks the invariant.
LEMMA NextIInv == IInv /\ [Next]_vars => IInv'
<1> SUFFICES ASSUME IInv, [Next]_vars PROVE IInv'
  OBVIOUS
<1>1. CASE UNCHANGED vars
  BY <1>1 DEF vars, heard, control, IInv, TypeOK, Ready, OpponentHeard,
              CounterCountsQuiet, SilenceStops
<1>2. CASE wait_for_messages
  <2>1. car \in CarStates /\ track_length = TrackLength /\ waypoints \in WaypointSpeeds
    BY <1>2 DEF wait_for_messages, IInv, TypeOK
  <2> QED
    BY <1>2, <2>1 DEF wait_for_messages, heard, control, IInv, TypeOK, Ready,
                      OpponentHeard, CounterCountsQuiet, SilenceStops
<1> QED
  BY <1>1, <1>2, MessagesKeepIInv, LoopKeepsIInv DEF Next

\* The inductive invariant is one: no opponent without its measures, no loop
\* without the messages waited for.
THEOREM ControllerInvariant == Spec => []IInv
  BY InitIInv, NextIInv, PTL DEF Spec

-----------------------------------------------------------------------------
(* What follows.                                                           *)

\* Every command is a speed and an angle, and the gap integral stays in its
\* bounds, whatever arrives in whatever order.
THEOREM ControllerTypeCorrect == Spec => []TypeOK
<1>1. IInv => TypeOK
  BY DEF IInv
<1> QED  BY <1>1, ControllerInvariant, PTL

\* The car is told to stop once the loops have gone without local waypoints for
\* long enough.
THEOREM SilenceMeansStop == Spec => []SilenceStops
<1>1. IInv => SilenceStops
  BY DEF IInv
<1> QED  BY <1>1, ControllerInvariant, PTL

\* Of the obstacles of a message the dynamic one, which tracking puts last, is
\* chosen if prioritize_dyn, and otherwise the nearest (obstacle_cb).
THEOREM PrefersTheDynamic == Spec => PrefersDynamic
<1> DEFINE Prefers(obstacles) ==
              opponent' # None /\ obstacle_cb(obstacles) =>
                 /\ opponent' \in Range(obstacles)
                 /\ prioritize_dyn /\ (\E obs \in Range(obstacles) : ~obs.is_static) =>
                       ~opponent'.is_static
                 /\ ~prioritize_dyn \/ opponent'.is_static =>
                       \A obs \in Range(obstacles) :
                           AheadOfCar(opponent'.s_start) <= AheadOfCar(obs.s_start)
<1>1. ASSUME IInv, NEW obstacles \in ObstacleArrays PROVE Prefers(obstacles)
  <2> SUFFICES ASSUME opponent' # None, obstacle_cb(obstacles)
               PROVE  Prefers(obstacles)
    OBVIOUS
  <2>1. opponent' = ChosenObstacle(obstacles) /\ obstacles # <<>>
        /\ car # None /\ track_length # None
    BY DEF obstacle_cb
  <2>2. car \in CarStates /\ track_length = TrackLength /\ prioritize_dyn \in BOOLEAN
    BY <1>1, <2>1 DEF IInv, TypeOK
  <2>3. 1 \in DOMAIN obstacles /\ DOMAIN obstacles = 1..Len(obstacles)
    BY <2>1, TrailingAssumption
  <2>4. PICK best : /\ ChosenObstacle(obstacles) = best.obstacle
                    /\ SoundChoice(best, obstacles, Len(obstacles))
    BY <2>2, <2>3, ChoiceIsSound
  <2>5. Range(obstacles) = {obstacles[k] : k \in 1..Len(obstacles)}
    BY <2>3 DEF Range
  <2>6. PICK i \in 1..Len(obstacles) :
          /\ best.obstacle = obstacles[i]
          /\ prioritize_dyn /\ (\E j \in 1..Len(obstacles) : ~obstacles[j].is_static) =>
                ~obstacles[i].is_static
          /\ ~prioritize_dyn \/ obstacles[i].is_static =>
                \A j \in 1..Len(obstacles) : AheadOfCar(obstacles[i].s_start)
                                               <= AheadOfCar(obstacles[j].s_start)
    BY <2>4 DEF SoundChoice
  <2>7. opponent' = obstacles[i]
    BY <2>1, <2>4, <2>6
  <2> QED  BY <2>5, <2>6, <2>7
<1>2. IInv => \A obstacles \in ObstacleArrays : Prefers(obstacles)
  BY <1>1
<1> QED  BY <1>2, ControllerInvariant, PTL DEF PrefersDynamic

\* A product with a gain that is not negative keeps the order.
LEMMA ProductGrows ==
    ASSUME NEW a \in Int, NEW b \in Int, NEW c \in Nat, a <= b
    PROVE  a * c <= b * c
<1>1. (b - a) * c >= 0
  OBVIOUS
<1> QED  BY <1>1

\* Nearer to the opponent than the integral can outweigh the car does not drive
\* faster than the opponent, but for the differential term of a slower car,
\* whatever the integral has become.
THEOREM YieldsWhenTooClose == Spec => TooCloseYields
<1> DEFINE TooClose ==
             /\ phase = "running" /\ Trails
             /\ GapError > 0 /\ GapError * trailing_p_gain >= IMax * trailing_i_gain
             /\ control_loop
           slower == Larger(opponent.vs - car.vs, 0)
           bound == Larger(opponent.vs + slower * trailing_d_gain, 0)
<1>1. ASSUME IInv, TooClose PROVE drive'.speed <= bound
  <2>1. /\ opponent.vs \in Int /\ car.vs \in Int /\ Gap \in Nat /\ GapError \in Int
        /\ NextIGap \in (-IMax)..IMax
    BY <1>1, TrailingTypes DEF Trails
  <2>2. /\ trailing_p_gain \in Nat /\ trailing_i_gain \in Nat /\ trailing_d_gain \in Nat
        /\ trailing_gap \in Nat /\ IMax \in Nat /\ waypoints \in Nat
    BY <1>1, ControllerAssumption, TrailingAssumption DEF IInv, Ready
  <2> DEFINE p_value == GapError * trailing_p_gain
             i_value == NextIGap * trailing_i_gain
             d_value == (car.vs - opponent.vs) * trailing_d_gain
             most == slower * trailing_d_gain
             wanted == opponent.vs - p_value - i_value - d_value
  <2>3. slower \in Nat /\ opponent.vs - car.vs <= slower
    BY <2>1 DEF Larger
  <2>4. p_value \in Int /\ i_value \in Int /\ d_value \in Int /\ most \in Nat
    <3> HIDE DEF slower
    <3> QED  BY <2>1, <2>2, <2>3
  <2>5. -d_value <= most
    <3> HIDE DEF slower
    <3>1. (opponent.vs - car.vs) * trailing_d_gain <= most
      BY <2>1, <2>2, <2>3, ProductGrows
    <3>2. (opponent.vs - car.vs) * trailing_d_gain = -d_value
      BY <2>1, <2>2
    <3> QED  BY <3>1, <3>2
  <2>6. i_value >= -(IMax * trailing_i_gain)
    <3>1. (-IMax) * trailing_i_gain <= i_value
      BY <2>1, <2>2, ProductGrows
    <3> QED  BY <2>2, <3>1
  <2>7. p_value >= IMax * trailing_i_gain
    BY <1>1
  <2>8. wanted \in Int /\ wanted <= opponent.vs + most
    <3> HIDE DEF p_value, i_value, d_value, most
    <3>1. IMax * trailing_i_gain \in Int
      BY <2>2
    <3> QED  BY <2>1, <2>4, <2>5, <2>6, <2>7, <3>1
  <2>9. trailing_controller(waypoints) = Clip(wanted, 0, waypoints)
    <3>1. ~(Gap > trailing_gap)
      BY <1>1, <2>1, <2>2 DEF GapError
    <3> QED  BY <3>1 DEF trailing_controller
  <2> HIDE DEF wanted, most
  <2>10. Clip(wanted, 0, waypoints) \in Nat
         /\ Clip(wanted, 0, waypoints) <= Larger(opponent.vs + most, 0)
    BY <2>1, <2>2, <2>4, <2>8 DEF Clip, Larger
  <2>11. PICK speed \in 0..Larger(waypoints, blind_trailing_speed) :
           /\ calc_speed_command(speed)
           /\ drive' = IF Stops THEN [speed |-> 0, steer |-> 0]
                       ELSE [speed |-> speed, steer |-> curr_steering_angle']
    BY <1>1 DEF control_loop, pursuit_cycle
  <2>12. speed <= Clip(wanted, 0, waypoints) /\ speed \in Nat
    BY <1>1, <2>9, <2>10, <2>11 DEF calc_speed_command, speed_adjust_lat_err
  <2>13. Larger(opponent.vs + most, 0) \in Nat
    BY <2>1, <2>4 DEF Larger
  <2>14. drive'.speed \in {0, speed}
    BY <2>11
  <2>15. drive'.speed <= Larger(opponent.vs + most, 0)
    BY <2>10, <2>12, <2>13, <2>14
  <2> QED  BY <2>15 DEF most
<1>2. IInv => (TooClose => drive'.speed <= bound)
  BY <1>1
<1> QED  BY <1>2, ControllerInvariant, PTL DEF TooCloseYields
=============================================================================
