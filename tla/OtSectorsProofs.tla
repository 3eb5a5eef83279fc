--------------------------- MODULE OtSectorsProofs ---------------------------
(***************************************************************************)
(* Proof that the node knows every flag it was told of (OtSectors), for    *)
(* any number of sectors and any number of events under way.               *)
(***************************************************************************)
EXTENDS OtSectors, TLAPS

Flags == [Sectors -> BOOLEAN]
Event == [name : Sectors, value : BOOLEAN]

Types ==
    /\ server \in Flags
    /\ pc \in {"n_sectors", "ot_flags", "running", "crashed"}
    /\ answer \in Flags \cup {NoSectors}
    /\ matched \in BOOLEAN
    /\ events \in Seq(Event)
    /\ pc = "running" => ot_sectors \in Flags
    /\ pc = "ot_flags" => ot_sectors = NoFlags

\* Only a running node is connected, and only a connected one gets events.
Connected ==
    /\ matched => pc = "running"
    /\ ~matched => events = <<>>

\* The answer is the truth but for what was missed.
AnswerHolds ==
    pc = "ot_flags" /\ answer # NoSectors =>
        \A i \in Sectors \ missed : answer[i] = server[i]

\* Nothing under way is about sector i after place k of the queue.
LastWord(i, k) == \A j \in (k + 1)..Len(events) : events[j].name # i

\* What the node will know of sector i when the queue is empty is the truth.
WillKnow(i) ==
    /\ LastWord(i, 0) => ot_sectors[i] = server[i]
    /\ \A k \in 1..Len(events) :
          events[k].name = i /\ LastWord(i, k) => events[k].value = server[i]

QueueHolds == pc = "running" => \A i \in Sectors \ missed : WillKnow(i)

IInv == Types /\ Connected /\ AnswerHolds /\ QueueHolds

USE SectorsAssumption, NoSectorsAssumption

-----------------------------------------------------------------------------
\* The last digit tells sectors apart as long as there are no more of them
\* than digits (ot_flag_cb).
LEMMA DigitIsSector ==
    ASSUME NEW i \in Sectors
    PROVE  changed_sector_int(i) = i
BY DEF Sectors, changed_sector_int

\* A node that has just started up holds IInv: it has been told nothing.
LEMMA InitIInv == Init => IInv
<1> SUFFICES ASSUME Init PROVE IInv
  OBVIOUS
<1>1. events \in Seq(Event)
  BY DEF Init
<1>2. Types
  BY <1>1 DEF Init, Types, Flags
<1> QED
  BY <1>2 DEF Init, IInv, Connected, AnswerHolds, QueueHolds

\* A change of a flag: its event is the last word about its sector, and the
\* last word about any other sector stays (SetFlag).
LEMMA SetFlagIInv ==
    ASSUME IInv, NEW f \in Sectors, SetFlag(f)
    PROVE  IInv'
<1> USE DEF IInv, Types, Flags
<1>1. Types'
  <2>1. server' \in Flags
    BY DEF SetFlag
  <2>2. events' \in Seq(Event)
    <3> DEFINE e == [name |-> f, value |-> server'[f]]
    <3>1. e \in Event
      BY <2>1 DEF Event
    <3>2. events' = Append(events, e) \/ events' = events
      BY DEF SetFlag
    <3> HIDE DEF e
    <3> QED
      BY <3>1, <3>2
  <2> QED
    BY <2>1, <2>2 DEF SetFlag, handshake
<1>2. Connected'
  BY DEF SetFlag, Connected, handshake
<1>3. AnswerHolds'
  BY DEF SetFlag, AnswerHolds, Connected, handshake
<1>4. QueueHolds'
  <2> SUFFICES ASSUME pc' = "running", NEW i \in Sectors, i \notin missed'
               PROVE  WillKnow(i)'
    BY DEF QueueHolds
  <2>1. CASE ~matched
    <3>1. i # f /\ i \notin missed
      BY <2>1 DEF SetFlag, handshake
    <3>2. server'[i] = server[i] /\ events' = events /\ ot_sectors' = ot_sectors
      BY <2>1, <3>1 DEF SetFlag, handshake
    <3> QED
      BY <3>1, <3>2 DEF QueueHolds, WillKnow, LastWord, SetFlag, handshake
  <2>2. CASE matched
    <3> DEFINE e == [name |-> f, value |-> server'[f]]
    <3>1. /\ events' = Append(events, e) /\ ot_sectors' = ot_sectors
          /\ missed' = missed \ {f}
          /\ e.name = f /\ e.value = server'[f]
      BY <2>2 DEF SetFlag, handshake
    <3>2. /\ Len(events') = Len(events) + 1
          /\ events'[Len(events) + 1] = e
          /\ \A k \in 1..Len(events) : events'[k] = events[k]
          /\ Len(events) \in Nat
      BY <3>1
    <3> HIDE DEF e
    <3>3. CASE i = f
      <4>1. ~LastWord(i, 0)'
        BY <3>1, <3>2, <3>3 DEF LastWord
      <4>2. \A k \in 1..Len(events) : ~LastWord(i, k)'
        BY <3>1, <3>2, <3>3 DEF LastWord
      <4> QED
        BY <3>1, <3>2, <3>3, <4>1, <4>2 DEF WillKnow
    <3>4. CASE i # f
      <4>1. server'[i] = server[i]
        BY <3>4 DEF SetFlag
      <4>2. WillKnow(i)
        BY <3>1, <3>4 DEF QueueHolds, SetFlag, handshake
      <4>3. \A k \in 0..Len(events) : LastWord(i, k)' => LastWord(i, k)
        BY <3>2 DEF LastWord
      <4> QED
        BY <3>1, <3>2, <3>4, <4>1, <4>2, <4>3 DEF WillKnow
    <3> QED
      BY <3>3, <3>4
  <2> QED
    BY <2>1, <2>2
<1> QED
  BY <1>1, <1>2, <1>3, <1>4

\* The service answers with the flags of the moment; the handshake passes
\* them on (GetParameters, Match, init_ot_params).
LEMMA HandshakeIInv ==
    ASSUME IInv, GetParameters \/ Match \/ init_ot_params
    PROVE  IInv'
<1> USE DEF IInv, Types, Connected, AnswerHolds, QueueHolds
<1>1. CASE GetParameters
  BY <1>1 DEF GetParameters, Flags, drive
<1>2. CASE Match
  <2>1. QueueHolds'
    BY <1>2 DEF Match, WillKnow, LastWord
  <2> QED
    BY <1>2, <2>1 DEF Match
<1>3. CASE GotNSectors
  BY <1>3 DEF GotNSectors
<1>4. CASE GotFlags
  <2>1. events = <<>> /\ ~matched
    BY <1>4 DEF GotFlags
  <2>2. QueueHolds'
    BY <1>4, <2>1 DEF GotFlags, WillKnow, LastWord
  <2> QED
    BY <1>4, <2>1, <2>2 DEF GotFlags
<1> QED
  BY <1>1, <1>2, <1>3, <1>4 DEF init_ot_params

\* The first event is handled; it was the last word about its sector or a
\* later one is still under way (ot_flag_cb).
LEMMA FlagIInv ==
    ASSUME IInv, ot_flag_cb
    PROVE  IInv'
<1> USE DEF IInv, Types
<1> DEFINE p == Head(events)
<1>1. /\ p \in Event /\ p = events[1] /\ p.name \in Sectors
      /\ events' = Tail(events) /\ events' \in Seq(Event)
      /\ Len(events') = Len(events) - 1 /\ Len(events) \in Nat \ {0}
      /\ \A k \in 1..Len(events') : events'[k] = events[k + 1]
  <2>1. events \in Seq(Event) /\ events # <<>> /\ events' = Tail(events)
    BY DEF ot_flag_cb
  <2>2. p \in Event
    BY <2>1
  <2>3. p.name \in Sectors
    BY <2>2 DEF Event
  <2> QED
    BY <2>1, <2>2, <2>3
<1>2. ot_sectors' = [ot_sectors EXCEPT ![p.name] = p.value]
  BY <1>1, DigitIsSector DEF ot_flag_cb
<1>3. p.value \in BOOLEAN
  BY <1>1 DEF Event
<1>4. Types' /\ Connected' /\ AnswerHolds'
  BY <1>1, <1>2, <1>3 DEF ot_flag_cb, Connected, AnswerHolds, Flags
<1>5. QueueHolds'
  <2> SUFFICES ASSUME NEW i \in Sectors, i \notin missed
               PROVE  WillKnow(i)'
    BY DEF QueueHolds, ot_flag_cb
  <2>1. WillKnow(i) /\ server' = server
    BY DEF QueueHolds, ot_flag_cb
  <2>2. \A k \in 0..Len(events') : LastWord(i, k)' => LastWord(i, k + 1)
    BY <1>1 DEF LastWord
  <2>3. ASSUME LastWord(i, 0)' PROVE ot_sectors'[i] = server'[i]
    <3>1. LastWord(i, 1)
      BY <2>2, <2>3, <1>1
    <3>2. CASE p.name = i
      BY <3>1, <3>2, <2>1, <1>1, <1>2 DEF WillKnow, Flags, ot_flag_cb
    <3>3. CASE p.name # i
      <4>1. LastWord(i, 0)
        BY <3>1, <3>3, <1>1 DEF LastWord
      <4> QED
        BY <3>3, <4>1, <2>1, <1>2 DEF WillKnow, Flags, ot_flag_cb
    <3> QED
      BY <3>2, <3>3
  <2>4. ASSUME NEW k \in 1..Len(events'), events'[k].name = i, LastWord(i, k)'
        PROVE  events'[k].value = server'[i]
    <3>1. LastWord(i, k + 1) /\ k + 1 \in 1..Len(events) /\ events'[k] = events[k + 1]
      BY <2>2, <2>4, <1>1
    <3> QED
      BY <3>1, <2>1, <2>4 DEF WillKnow
  <2> QED
    BY <2>3, <2>4 DEF WillKnow
<1> QED
  BY <1>4, <1>5

\* Driving changes neither flags nor events (Sense, MainLoop); a crash leaves
\* the phases the invariant speaks of.
LEMMA DriveIInv ==
    ASSUME IInv, Sense \/ MainLoop
    PROVE  IInv'
<1> USE DEF IInv, Types, Connected, AnswerHolds, QueueHolds, WillKnow, LastWord
<1>1. CASE Sense
  BY <1>1 DEF Sense, handshake
<1>2. CASE main_loop_callback
  BY <1>2 DEF main_loop_callback, handshake
<1>3. CASE Crash
  <2>1. pc # "running"
    BY <1>3 DEF Crash, Flags
  <2> QED
    BY <1>3, <2>1 DEF Crash
<1> QED
  BY <1>1, <1>2, <1>3 DEF MainLoop

\* No answer, event, discovery or loop breaks the invariant.
LEMMA NextIInv == IInv /\ [Next]_vars => IInv'
<1> SUFFICES ASSUME IInv, [Next]_vars PROVE IInv'
  OBVIOUS
<1>1. CASE UNCHANGED vars
  <2>1. Types' /\ Connected' /\ AnswerHolds'
    BY <1>1 DEF vars, IInv, Types, Connected, AnswerHolds
  <2>2. QueueHolds'
    <3> SUFFICES ASSUME pc = "running", NEW i \in Sectors \ missed
                 PROVE  WillKnow(i)'
      BY <1>1 DEF vars, QueueHolds
    <3>1. WillKnow(i)
      BY DEF IInv, QueueHolds
    <3>2. events' = events /\ ot_sectors' = ot_sectors /\ server' = server
      BY <1>1 DEF vars
    <3> QED
      BY <3>1, <3>2 DEF WillKnow, LastWord
  <2> QED
    BY <2>1, <2>2 DEF IInv
<1>2. CASE Next
  BY <1>2, SetFlagIInv, HandshakeIInv, FlagIInv, DriveIInv DEF Next
<1> QED
  BY <1>1, <1>2

\* IInv is an invariant of the start-up and of the events after it.
THEOREM Invariance == Spec => []IInv
<1> QED
  BY InitIInv, NextIInv, PTL DEF Spec

\* Whatever the order of answers, changes, discovery and events: with no event
\* under way the node knows every flag but those it missed.
THEOREM Knows == Spec => []KnowsUnlessMissed
<1>1. IInv => KnowsUnlessMissed
  BY DEF IInv, Types, QueueHolds, WillKnow, LastWord, KnowsUnlessMissed
<1> QED
  BY <1>1, Invariance, PTL
=============================================================================
