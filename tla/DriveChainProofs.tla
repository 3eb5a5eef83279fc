--------------------------- MODULE DriveChainProofs ---------------------------
(***************************************************************************)
(* Proofs about the drive chain: about the multiplexer alone, for any      *)
(* topics, timeouts and priorities, and about the chain, in which the      *)
(* controller and the multiplexer run by their own specifications, so      *)
(* that what holds of each alone holds of it there.                        *)
(***************************************************************************)
EXTENDS DriveChain, ControllerProofs, SequenceTheorems

-----------------------------------------------------------------------------
(* The multiplexer.                                                        *)

\* Ages stay in their range, and only topics win.
THEOREM MuxTypeCorrect == MuxSpec => []MuxTypeOK
<1>1. MuxInit => MuxTypeOK
  BY MuxAssumption DEF MuxInit, MuxTypeOK
<1>2. MuxTypeOK /\ [MuxNext]_mux_vars => MuxTypeOK'
  <2> SUFFICES ASSUME MuxTypeOK, [MuxNext]_mux_vars PROVE MuxTypeOK'
    OBVIOUS
  <2>1. CASE MuxTick
    BY <2>1, MuxAssumption DEF MuxTick, MuxTypeOK
  <2>2. ASSUME NEW h \in Topics, callback(h) PROVE MuxTypeOK'
    BY <2>2, MuxAssumption DEF callback, Heard, MuxTypeOK
  <2>3. CASE UNCHANGED mux_vars
    BY <2>3 DEF mux_vars, MuxTypeOK
  <2> QED
    BY <2>1, <2>2, <2>3 DEF MuxNext
<1> QED
  BY <1>1, <1>2, PTL DEF MuxSpec

\* Priorities are clamped to natural numbers and can be compared.
LEMMA PriorityRange == ASSUME NEW h \in Topics PROVE Priority(h) \in Nat
  BY MuxAssumption DEF Priority

\* A tick lets topics expire but brings none back to life.
LEMMA TickOnlyAges ==
  ASSUME MuxTypeOK, MuxTick, NEW h \in Topics, ~hasExpired(age', h)
  PROVE  ~hasExpired(age, h)
<1>1. age[h] \in 0..AgeCap /\ timeout[h] \in Nat /\ timeout[h] < AgeCap /\ AgeCap \in Nat
  BY MuxAssumption DEF MuxTypeOK
<1>2. age'[h] = IF age[h] < AgeCap THEN age[h] + 1 ELSE AgeCap
  BY DEF MuxTick
<1> QED
  BY <1>1, <1>2 DEF hasExpired

\* A callback makes its own topic the youngest and leaves the others alone.
LEMMA CallbackAges ==
  ASSUME MuxTypeOK, NEW h \in Topics, callback(h)
  PROVE  /\ ~hasExpired(age', h)
         /\ \A g \in Topics \ {h} : hasExpired(age', g) <=> hasExpired(age, g)
<1>1. /\ age'[h] = 0 /\ timeout[h] \in Nat
      /\ \A g \in Topics \ {h} : age'[g] = age[g]
  BY MuxAssumption DEF callback, Heard, MuxTypeOK
<1> QED
  BY <1>1 DEF hasExpired

\* The callback of a topic h compares it with all that are alive.  It passes,
\* or a live topic that is not h keeps it back.
LEMMA PassesOrMasked ==
  ASSUME MuxTypeOK, NEW h \in Topics, callback(h), Priority(h) > 0
  PROVE  \/ /\ winner' = h
            /\ \A g \in Topics : ~hasExpired(age', g) => Priority(g) <= Priority(h)
         \/ /\ winner' = winner
            /\ \E g \in Topics \ {h} : ~hasExpired(age, g) /\ Priority(h) <= Priority(g)
<1>1. age' = Heard(h)
  BY DEF callback
<1>2. \A g \in Topics : Priority(g) \in Nat /\ position[g] \in Nat
  BY PriorityRange, MuxAssumption
<1>3. CASE Passes(h)
  <2>1. winner' = h
    BY <1>3 DEF callback
  <2>2. ASSUME NEW g \in Topics, ~hasExpired(age', g) PROVE Priority(g) <= Priority(h)
    BY <1>1, <1>2, <1>3, <2>2 DEF Passes, hasPriority, isMasked
  <2> QED
    BY <2>1, <2>2
<1>4. CASE ~Passes(h)
  <2>1. winner' = winner
    BY <1>4 DEF callback
  <2>2. PICK g \in Topics : ~isMasked(age', g)
                            /\ ~(\/ Priority(g) < Priority(h)
                                 \/ Priority(g) = Priority(h) /\ position[h] <= position[g])
    BY <1>1, <1>4, CallbackAges DEF Passes, hasPriority, isMasked
  <2>3. g # h /\ Priority(h) <= Priority(g)
    BY <1>2, <2>2
  <2>4. ~hasExpired(age, g)
    BY <2>2, <2>3, CallbackAges DEF isMasked
  <2> QED
    BY <2>1, <2>3, <2>4
<1> QED
  BY <1>3, <1>4

\* The command at the output is not outranked by any source that is alive, if
\* every topic has a timeout.  (One without is alive before its first message
\* and keeps all others of its priority and below back, winner or not.)  If the
\* topic heard is kept back, the one that does it was alive before the callback,
\* so it did not outrank the winner; a topic of priority 0 outranks nobody.
THEOREM NothingAliveOutranks ==
  ASSUME \A h \in Topics : timeout[h] > 0
  PROVE  MuxSpec => []NoLiveSourceOutranks
<1>1. MuxInit => NoLiveSourceOutranks
  BY MuxAssumption DEF MuxInit, NoLiveSourceOutranks, hasExpired
<1>2. MuxTypeOK /\ NoLiveSourceOutranks /\ [MuxNext]_mux_vars => NoLiveSourceOutranks'
  <2> SUFFICES ASSUME MuxTypeOK, NoLiveSourceOutranks, [MuxNext]_mux_vars
               PROVE  NoLiveSourceOutranks'
    OBVIOUS
  <2> USE DEF NoLiveSourceOutranks
  <2>1. CASE MuxTick
    <3>1. winner' = winner
      BY <2>1 DEF MuxTick
    <3> QED
      BY <2>1, <3>1, TickOnlyAges DEF Priority
  <2>2. ASSUME NEW h \in Topics, callback(h) PROVE NoLiveSourceOutranks'
    <3> SUFFICES ASSUME NEW g \in Topics, ~hasExpired(age', g), Priority(g) > 0
                 PROVE  winner' # NoTopic /\ Priority(g) <= Priority(winner')
      BY DEF Priority
    <3>1. \A t \in Topics : Priority(t) \in Nat
      BY PriorityRange
    <3>2. winner \in Topics \cup {NoTopic} /\ NoTopic \notin Topics
      BY MuxAssumption DEF MuxTypeOK
    <3>3. CASE winner' = h /\ \A t \in Topics : ~hasExpired(age', t) => Priority(t) <= Priority(h)
      BY <3>2, <3>3
    <3>4. CASE winner' = winner /\ g # h
      BY <2>2, <3>4, CallbackAges
    <3>5. CASE g = h /\ winner' = winner
      <4>1. CASE \E t \in Topics \ {h} : ~hasExpired(age, t) /\ Priority(h) <= Priority(t)
        <5>1. PICK t \in Topics \ {h} : ~hasExpired(age, t) /\ Priority(h) <= Priority(t)
          BY <4>1
        <5>2. Priority(t) > 0
          BY <3>1, <3>5, <5>1
        <5>3. winner # NoTopic /\ Priority(t) <= Priority(winner)
          BY <5>1, <5>2
        <5> QED
          BY <3>1, <3>2, <3>5, <5>1, <5>3
      <4> QED
        BY <2>2, <3>2, <3>3, <3>5, <4>1, PassesOrMasked
    <3>6. winner' = h \/ winner' = winner
      BY <2>2 DEF callback
    <3>7. CASE winner' = h /\ winner' # winner
      <4>1. Priority(h) > 0
        BY <2>2, <3>1, <3>7 DEF callback, Passes, hasPriority
      <4> QED
        BY <2>2, <3>3, <3>7, <4>1, PassesOrMasked
    <3> QED
      BY <3>4, <3>5, <3>6, <3>7
  <2>3. CASE UNCHANGED mux_vars
    BY <2>3 DEF mux_vars, hasExpired, Priority
  <2> QED
    BY <2>1, <2>2, <2>3 DEF MuxNext
<1> QED
  BY <1>1, <1>2, MuxTypeCorrect, PTL DEF MuxSpec

-----------------------------------------------------------------------------
(* The controller in the chain.                                            *)

\* A controller that dies leaves everything as it was.
LEMMA CrashKeepsIInv ==
    ASSUME IInv, phase' \in {phase, "crashed"},
           UNCHANGED <<mode, heard, prioritize_dyn, control>>
    PROVE  IInv'
  BY DEF IInv, TypeOK, Ready, OpponentHeard, CounterCountsQuiet, SilenceStops, heard, control

\* What a step of the chain is to the controller and to the multiplexer: a step
\* of theirs, none, or the death of the controller.
LEMMA ChainStep ==
    ASSUME ChainNext
    PROVE  /\ \/ [Next]_vars
              \/ /\ phase' \in {phase, "crashed"}
                 /\ UNCHANGED <<mode, heard, prioritize_dyn, control>>
           /\ [MuxNext]_mux_vars
<1>1. CASE Tick
  BY <1>1 DEF Tick, MuxNext
<1>2. CASE Joy
  BY <1>2 DEF Joy
<1>3. CASE Planner
  BY <1>3 DEF Planner, Next, Hear
<1>4. CASE Localise
  BY <1>4 DEF Localise, Next, Hear
<1>5. CASE ControllerStarts
  BY <1>5 DEF ControllerStarts, Next
<1>6. CASE ControlLoop
  BY <1>6 DEF ControlLoop, Next
<1>7. CASE MuxTeleop
  BY <1>7, ChainAssumption DEF MuxTeleop, Forward, MuxNext
<1>8. CASE MuxDrive
  BY <1>8, ChainAssumption DEF MuxDrive, Forward, MuxNext
<1>9. CASE ackermannCmdCallback \/ Motor \/ Timer \/ Reader
  BY <1>9 DEF ackermannCmdCallback, Motor, Timer, Reader
<1> QED
  BY <1>1, <1>2, <1>3, <1>4, <1>5, <1>6, <1>7, <1>8, <1>9 DEF ChainNext, Processes

\* Every step of the chain preserves the controller's invariant.
LEMMA ChainKeepsIInv == IInv /\ [ChainNext]_chain_vars => IInv'
<1> SUFFICES ASSUME IInv, [ChainNext]_chain_vars PROVE IInv'
  OBVIOUS
<1>1. CASE ChainNext
  BY <1>1, ChainStep, NextIInv, CrashKeepsIInv
<1>2. CASE UNCHANGED chain_vars
  <2>1. UNCHANGED vars
    BY <1>2 DEF chain_vars
  <2> QED  BY <2>1, NextIInv
<1> QED  BY <1>1, <1>2

\* In the chain, where it may die at any time, the controller keeps its
\* invariant: when it lives it is told to stop once the waypoints do not come.
THEOREM ChainRunsController == ChainSpec => [](TypeOK /\ SilenceStops)
<1>1. ChainInit => IInv
  BY InitIInv DEF ChainInit
<1>2. IInv => TypeOK /\ SilenceStops
  BY DEF IInv
<1> QED  BY <1>1, <1>2, ChainKeepsIInv, PTL DEF ChainSpec

-----------------------------------------------------------------------------
(* The multiplexer in the chain.                                           *)

\* The chain implements the specification of the multiplexer: only ticks age
\* the topics, and only their callbacks change the winner.
THEOREM ChainRunsMux == ChainSpec => MuxSpec
<1>1. ChainInit => MuxInit
  BY DEF ChainInit
<1>2. [ChainNext]_chain_vars => [MuxNext]_mux_vars
  BY ChainStep DEF chain_vars
<1> QED  BY <1>1, <1>2, PTL DEF ChainSpec, MuxSpec

\* So the command that stands at the output of the chain's multiplexer is not
\* outranked by any source that is alive.
THEOREM ChainNothingOutranks ==
  ASSUME \A h \in Topics : timeout[h] > 0
  PROVE  ChainSpec => []NoLiveSourceOutranks
<1>1. MuxSpec => []NoLiveSourceOutranks
  BY NothingAliveOutranks
<1> QED  BY <1>1, ChainRunsMux, PTL

-----------------------------------------------------------------------------
(* The messages of the chain.                                              *)

Sent == [from : Topics, speed : Int]

TopicTypes ==
    /\ teleop \in Seq(Int) /\ drive_topic \in Seq(Int)
    /\ ackermann_cmd \in Seq(Sent) /\ motor_speed \in Seq(Sent)

DriverTypes ==
    /\ active \in [Commands -> BOOLEAN]
    /\ driver_mode \in {"initializing", "operating", "shutdown"}
    /\ set_speed \in lower..upper \cup {NoSpeed}
    /\ obeyed \in Topics \cup {NoTopic}

\* A queue that loses its first message keeps to its type.
LEMMA TailType == ASSUME NEW S, NEW q \in Seq(S), q # <<>>
                  PROVE  Head(q) \in S /\ Tail(q) \in Seq(S)
  OBVIOUS

\* What the multiplexer forwards to the motor is a message of the topic.
LEMMA ForwardType ==
    ASSUME NEW h \in Topics, NEW speed \in Int, Forward(h, speed),
           ackermann_cmd \in Seq(Sent)
    PROVE  ackermann_cmd' \in Seq(Sent)
<1>1. [from |-> h, speed |-> speed] \in Sent
  BY DEF Sent
<1> HIDE DEF Sent
<1> QED  BY <1>1 DEF Forward

\* The limits of the speed the driver accepts are in order, and clipping obeys
\* them.
LEMMA LimitTypes == lower \in Int /\ upper \in Int /\ lower <= upper
                    /\ \A v \in Int : clip(v) \in lower..upper
  BY LimitAssumption DEF lower, upper, clip

\* Messages are typed, and the speed set is within the limits.
THEOREM ChainTypeCorrect == ChainSpec => []ChainTypeOK
<1>1. ChainInit => TopicTypes /\ DriverTypes
  BY DEF ChainInit, JoyInit, DriverInit, TopicTypes, DriverTypes
<1>2. TopicTypes /\ DriverTypes /\ IInv /\ IInv' /\ [ChainNext]_chain_vars
         => (TopicTypes /\ DriverTypes)'
  <2> SUFFICES ASSUME TopicTypes, DriverTypes, IInv, IInv', [ChainNext]_chain_vars
               PROVE  TopicTypes' /\ DriverTypes'
    OBVIOUS
  <2> USE DEF TopicTypes, DriverTypes, topics, driver_vars
  <2>1. CASE Tick
    BY <2>1 DEF Tick, Disconnect
  <2>2. CASE Joy
    <3> DEFINE sent == {c \in Published(pressed') : ~static[c]}
               answers == [k \in 1..Cardinality(sent) |-> TeleopSpeed(CHOOSE c \in sent : TRUE)]
    <3>1. Cardinality(sent) \in Nat
      <4>1. sent \in SUBSET Commands
        BY DEF Published
      <4> HIDE DEF sent
      <4> QED  BY <4>1, ChainAssumption, FS_Subset, FS_CardinalityType
    <3>2. TeleopSpeed(CHOOSE c \in sent : TRUE) \in Int
      BY ChainAssumption DEF TeleopSpeed
    <3>3. answers \in Seq(Int)
      <4> HIDE DEF sent
      <4> QED  BY <3>1, <3>2
    <3>4. teleop' = teleop \o answers
      BY <2>2 DEF Joy
    <3>5. teleop' \in Seq(Int)
      <4> HIDE DEF answers
      <4> QED  BY <3>3, <3>4
    <3> QED
      BY <2>2, <3>5 DEF Joy, joy_callback, Activates
  <2>3. CASE Planner \/ Localise \/ ControllerStarts
    BY <2>3 DEF Planner, Localise, ControllerStarts
  <2>4. CASE ControlLoop
    <3>1. /\ "controller" \in due /\ control_loop
          /\ drive_topic' = Append(drive_topic, drive'.speed)
          /\ UNCHANGED <<mux_vars, active, driver_vars, world, teleop,
                         ackermann_cmd, motor_speed, obeyed>>
      BY <2>4 DEF ControlLoop
    <3>2. drive'.speed \in Int
      BY <3>1, LoopPublishes DEF DriveCommands
    <3>3. drive_topic' \in Seq(Int)
      BY <3>1, <3>2
    <3> QED  BY <3>1, <3>3
  <2>5. CASE MuxTeleop
    <3>1. Head(teleop) \in Int /\ Tail(teleop) \in Seq(Int)
      BY <2>5, TailType DEF MuxTeleop
    <3>2. ackermann_cmd' \in Seq(Sent)
      BY <2>5, <3>1, ForwardType, ChainAssumption DEF MuxTeleop
    <3> QED  BY <2>5, <3>1, <3>2 DEF MuxTeleop
  <2>6. CASE MuxDrive
    <3>1. Head(drive_topic) \in Int /\ Tail(drive_topic) \in Seq(Int)
      BY <2>6, TailType DEF MuxDrive
    <3>2. ackermann_cmd' \in Seq(Sent)
      BY <2>6, <3>1, ForwardType, ChainAssumption DEF MuxDrive
    <3> QED  BY <2>6, <3>1, <3>2 DEF MuxDrive
  <2>7. CASE ackermannCmdCallback
    <3>1. Head(ackermann_cmd) \in Sent /\ Tail(ackermann_cmd) \in Seq(Sent)
      BY <2>7, TailType DEF ackermannCmdCallback
    <3>2. [Head(ackermann_cmd) EXCEPT !.speed = @ * speed_to_erpm_gain] \in Sent
      <4> DEFINE m == Head(ackermann_cmd)
      <4>1. m \in Sent /\ m.speed \in Int
        BY <3>1 DEF Sent
      <4>2. m.speed * speed_to_erpm_gain \in Int
        BY <4>1, ChainAssumption
      <4> HIDE DEF m
      <4>3. [m EXCEPT !.speed = m.speed * speed_to_erpm_gain] \in Sent
        BY <4>1, <4>2 DEF Sent
      <4> QED  BY <4>3 DEF m
    <3>3. motor_speed' \in Seq(Sent)
      <4> HIDE DEF Sent
      <4> QED  BY <2>7, <3>2 DEF ackermannCmdCallback
    <3> QED  BY <2>7, <3>1, <3>3 DEF ackermannCmdCallback
  <2>8. CASE Motor
    <3>1. Head(motor_speed) \in Sent /\ Tail(motor_speed) \in Seq(Sent)
      BY <2>8, TailType DEF Motor
    <3>2. Head(motor_speed).from \in Topics /\ Head(motor_speed).speed \in Int
      BY <3>1 DEF Sent
    <3>3. set_speed' \in lower..upper \cup {NoSpeed} /\ obeyed' \in Topics \cup {NoTopic}
          /\ driver_mode' = driver_mode
      BY <2>8, <3>2, LimitTypes DEF Motor, speedCallback
    <3> QED  BY <2>8, <3>1, <3>3 DEF Motor
  <2>9. CASE Timer
    BY <2>9 DEF Timer, timerCallback
  <2>10. CASE Reader
    BY <2>10 DEF Reader, vescPacketCallback, FWMajor, FWMinor
  <2>11. CASE UNCHANGED chain_vars
    BY <2>11 DEF chain_vars
  <2> QED
    BY <2>1, <2>2, <2>3, <2>4, <2>5, <2>6, <2>7, <2>8, <2>9, <2>10, <2>11
       DEF ChainNext, Processes
<1>3. ChainInit => IInv /\ MuxTypeOK
  <2>1. MuxInit => MuxTypeOK
    BY MuxAssumption DEF MuxInit, MuxTypeOK
  <2> QED  BY <2>1, InitIInv DEF ChainInit
<1>4. ChainSpec => []MuxTypeOK
  BY ChainRunsMux, MuxTypeCorrect, PTL
<1>5. TopicTypes /\ DriverTypes /\ IInv /\ MuxTypeOK => ChainTypeOK
  BY DEF DriverTypes, IInv, ChainTypeOK
<1> QED
  BY <1>1, <1>2, <1>3, <1>4, <1>5, ChainKeepsIInv, PTL DEF ChainSpec
=============================================================================
