------------------------------ MODULE OtSectors ------------------------------
(***************************************************************************)
(* Start-up of the node "state_machine": init_ot_params asks the node      *)
(* "ot_interpolator" for the overtaking sectors with two service calls and *)
(* then follows their ot_flag parameters through parameter events.  The    *)
(* main loop timer exists before the first call, so while a call is being  *)
(* waited for (spin_until_future_complete) main loops run in between.      *)
(*                                                                         *)
(* The transitions are StateMachine's, reduced to what the sectors decide. *)
(***************************************************************************)
EXTENDS Naturals, Sequences

CONSTANTS
    NSectors,      \* parameter n_sectors; sectors are numbered from 0
    DigitBase,     \* ten: a sector is told from the last digit of its name
    NoSectors,     \* self.ot_sectors before the first answer: None
    MaxEvents      \* bound: parameter events under way at once

ASSUME SectorsAssumption ==
    /\ NSectors \in Nat /\ DigitBase \in Nat \ {0}
    /\ NSectors <= DigitBase

Sectors == 0..(NSectors - 1)
Nowhere == NSectors        \* a place in no overtaking sector

ASSUME NoSectorsAssumption ==
    NoSectors \notin [Sectors -> BOOLEAN]

VARIABLES
    server,       \* the ot_flag parameters of ot_interpolator
    pc,           \* what init_ot_params waits for
    answer,       \* the answer on its way, or NoSectors
    ot_sectors,   \* self.ot_sectors: the flag of each sector
    matched,      \* the handler's subscription is connected
    events,       \* parameter events on their way to it
    state, blocked, place,   \* state, gb_free and the sector of the car
    missed,       \* ghost: sectors whose last change nobody was told of
    ot_place      \* ghost: where the last main loop overtook, or Nowhere

vars == <<server, pc, answer, ot_sectors, matched, events, state, blocked,
          place, missed, ot_place>>
drive == <<state, blocked, place, ot_place>>
handshake == <<pc, answer, ot_sectors, matched>>

NoFlags == [i \in {} |-> FALSE]    \* the empty list

Init ==
    /\ server \in [Sectors -> BOOLEAN]
    /\ pc = "n_sectors"
    /\ answer = NoSectors
    /\ ot_sectors = NoSectors
    /\ matched = FALSE
    /\ events = <<>>
    /\ state = "GB_TRACK"
    /\ blocked \in BOOLEAN
    /\ place \in Sectors \cup {Nowhere}
    /\ missed = {}
    /\ ot_place = Nowhere

-----------------------------------------------------------------------------
(* ot_interpolator and the middleware.                                     *)

\* The operator changes a flag.  The event reaches the state machine if its
\* subscription is connected; a change that the second answer does not carry
\* and no event reports is missed.
SetFlag(i) ==
    /\ Len(events) < MaxEvents
    /\ server' = [server EXCEPT ![i] = ~@]
    /\ events' = IF matched THEN Append(events, [name |-> i, value |-> server'[i]])
                 ELSE events
    /\ missed' = IF matched THEN missed \ {i}
                 ELSE IF pc = "running" \/ (pc = "ot_flags" /\ answer # NoSectors)
                 THEN missed \cup {i}
                 ELSE missed
    /\ UNCHANGED <<handshake, drive>>

\* The service answers; the answer holds the flags of this moment.
GetParameters ==
    /\ pc \in {"n_sectors", "ot_flags"} /\ answer = NoSectors
    /\ answer' = server
    /\ UNCHANGED <<server, pc, ot_sectors, matched, events, drive, missed>>

\* Discovery connects the handler's subscription with its publisher.
Match ==
    /\ pc = "running" /\ ~matched
    /\ matched' = TRUE
    /\ UNCHANGED <<server, pc, answer, ot_sectors, events, drive, missed>>

-----------------------------------------------------------------------------
(* The node: init_ot_params.                                               *)

\* The first answer: the list of sectors is empty until the second one.
GotNSectors ==
    /\ pc = "n_sectors" /\ answer # NoSectors
    /\ pc' = "ot_flags"
    /\ ot_sectors' = NoFlags
    /\ answer' = NoSectors
    /\ UNCHANGED <<server, matched, events, drive, missed>>

\* The second answer; the handler is created.
GotFlags ==
    /\ pc = "ot_flags" /\ answer # NoSectors
    /\ pc' = "running"
    /\ ot_sectors' = answer
    /\ answer' = NoSectors
    /\ UNCHANGED <<server, matched, events, drive, missed>>

init_ot_params == GotNSectors \/ GotFlags

\* Faulty: sectors are counted from one.
CountsFromOne(i) == (i + 1) % DigitBase

\* int(p.name.split('.')[0][-1])
changed_sector_int(i) == i % DigitBase

ot_flag_cb ==
    /\ pc = "running" /\ events # <<>>
    /\ LET p == Head(events)
       IN  ot_sectors' = [ot_sectors EXCEPT ![changed_sector_int(p.name)] = p.value]
    /\ events' = Tail(events)
    /\ UNCHANGED <<server, pc, answer, matched, drive, missed>>

-----------------------------------------------------------------------------
(* The node: sensors and main loop.                                        *)

Sense ==
    /\ pc # "crashed"
    /\ blocked' \in BOOLEAN
    /\ place' \in Sectors \cup {Nowhere}
    /\ UNCHANGED <<server, handshake, events, state, missed, ot_place>>

\* for sector in self.ot_sectors
check_ot_sector == place \in DOMAIN ot_sectors /\ ot_sectors[place]

\* Faulty: once overtaking, the sector is not checked any more.
OvertakesOn ==
    CASE state = "GB_TRACK" -> IF blocked THEN {"TRAILING"} ELSE {"GB_TRACK"}
      [] state = "TRAILING" ->
            IF blocked THEN {"TRAILING"} \cup (IF check_ot_sector THEN {"OVERTAKE"} ELSE {})
            ELSE {"TRAILING", "GB_TRACK"}
      [] state = "OVERTAKE" -> {"TRAILING", "OVERTAKE"}

\* The states a main loop may go to; what the line and the raceline decide is
\* left open.
Transition ==
    CASE state = "GB_TRACK" -> IF blocked THEN {"TRAILING"} ELSE {"GB_TRACK"}
      [] state = "TRAILING" ->
            IF blocked THEN {"TRAILING"} \cup (IF check_ot_sector THEN {"OVERTAKE"} ELSE {})
            ELSE {"TRAILING", "GB_TRACK"}
      [] state = "OVERTAKE" ->
            {"TRAILING"} \cup (IF check_ot_sector THEN {"OVERTAKE"}
                               ELSE IF blocked THEN {} ELSE {"GB_TRACK"})

\* Faulty: the sectors are looked up in every state.
LooksUpAlways == TRUE

\* Only the transitions of TRAILING and OVERTAKE look the sectors up.
LooksUpSectors == state \in {"TRAILING", "OVERTAKE"}

\* None is not iterable, and the exception ends the node.
Crash ==
    /\ pc # "crashed"
    /\ LooksUpSectors /\ ot_sectors = NoSectors
    /\ pc' = "crashed"
    /\ UNCHANGED <<server, answer, ot_sectors, matched, events, drive, missed>>

main_loop_callback ==
    /\ pc # "crashed"
    /\ LooksUpSectors => ot_sectors # NoSectors
    /\ state' \in Transition
    /\ ot_place' = IF state' = "OVERTAKE" THEN place ELSE Nowhere
    /\ UNCHANGED <<server, handshake, events, blocked, place, missed>>

MainLoop == main_loop_callback \/ Crash

Next ==
    \/ \E i \in Sectors : SetFlag(i)
    \/ GetParameters
    \/ Match
    \/ init_ot_params
    \/ ot_flag_cb
    \/ Sense
    \/ MainLoop

Spec == Init /\ [][Next]_vars

\* The service answers, the middleware connects, the spinning node handles
\* what has come and its timer fires.
FairSpec ==
    /\ Spec
    /\ WF_vars(GetParameters)
    /\ WF_vars(Match)
    /\ WF_vars(init_ot_params)
    /\ WF_vars(ot_flag_cb)
    /\ WF_vars(MainLoop)

-----------------------------------------------------------------------------
(* Correctness.                                                            *)

\* When no event is under way, the node knows every flag, whatever changed
\* while it started up, but those it missed (init_ot_params, ot_flag_cb).
KnowsUnlessMissed ==
    pc = "running" /\ events = <<>> =>
        \A i \in Sectors \ missed : ot_sectors[i] = server[i]

\* The docstring of init_ot_params promises to "Obtain the initial overtaking
\* parameters from the parameter server. Then instantiate a parameter event
\* handler to get the updates on those parameters": no change goes missing.
KnowsFlags ==
    matched /\ events = <<>> => \A i \in Sectors : ot_sectors[i] = server[i]

\* A sector the operator closes for good after start-up is closed: from some
\* point on no main loop overtakes in it.
ClosedForGood(i) == <>[](matched /\ ~server[i] /\ i \notin missed)
ClosedSectorsStayClear ==
    \A i \in Sectors : ClosedForGood(i) => <>[](ot_place # i)

\* The node starts up, unless an opponent is in front of it before the first
\* answer has come: main loops that run during the calls do no other harm.
StartsUp ==
    <>(pc = "running") \/ <>(blocked /\ pc = "n_sectors")
=============================================================================
