---------------------------- MODULE AckermannMux ----------------------------
(***************************************************************************)
(* The multiplexer of drive commands (node "ackermann_mux"): a message is  *)
(* passed on, in the callback that receives it, if its topic has the       *)
(* highest priority of the topics heard recently.  No locks are configured *)
(* (mux.yaml), so none are modelled.  Time is counted in ticks; age is     *)
(* mux_->now() - stamp_.                                                   *)
(***************************************************************************)
EXTENDS Integers

CONSTANTS
    Topics,              \* the velocity topics
    timeout,             \* their timeouts in ticks; 0 for none
    priority_param,      \* their priorities as configured
    position,            \* their places in the list of handles
    AgeCap,              \* ages stop counting here
    NoTopic

ASSUME MuxAssumption ==
    /\ timeout \in [Topics -> Nat]
    /\ priority_param \in [Topics -> Int]
    /\ position \in [Topics -> Nat]
    /\ \A h, g \in Topics : position[h] = position[g] => h = g
    /\ AgeCap \in Nat /\ \A h \in Topics : timeout[h] < AgeCap
    /\ NoTopic \notin Topics

VARIABLES
    age,                 \* of the last message of each topic
    winner               \* the topic of the last message passed on, or NoTopic

mux_vars == <<age, winner>>

\* clamp(priority, 0, 255)
Priority(h) ==
    IF priority_param[h] < 0 THEN 0
    ELSE IF priority_param[h] > 255 THEN 255 ELSE priority_param[h]

\* Stamps are 0 before the first message.
MuxInit ==
    /\ age = [h \in Topics |-> AgeCap]
    /\ winner = NoTopic

hasExpired(ages, h) == timeout[h] > 0 /\ ages[h] > timeout[h]
isMasked(ages, h) == hasExpired(ages, h)

\* Faulty: whatever topic is heard passes.
LastWins(ages, h) == ~isMasked(ages, h) /\ Priority(h) > 0

\* The loop keeps the first of the topics of the highest priority; with
\* priority 0 a topic never gets ahead of the initial one.
hasPriority(ages, h) ==
    /\ ~isMasked(ages, h)
    /\ Priority(h) > 0
    /\ \A g \in Topics : ~isMasked(ages, g) =>
          \/ Priority(g) < Priority(h)
          \/ Priority(g) = Priority(h) /\ position[h] <= position[g]

\* Faulty: the stamp stays that of the first message.
StampKept(h) == age

\* The callback of a topic; Passes tells whether it publishes the message.
Heard(h) == [age EXCEPT ![h] = 0]
Passes(h) == hasPriority(Heard(h), h)

callback(h) ==
    /\ age' = Heard(h)
    /\ winner' = IF Passes(h) THEN h ELSE winner

MuxTick ==
    /\ age' = [h \in Topics |-> IF age[h] < AgeCap THEN age[h] + 1 ELSE AgeCap]
    /\ UNCHANGED winner

MuxNext == MuxTick \/ \E h \in Topics : callback(h)

MuxSpec == MuxInit /\ [][MuxNext]_mux_vars

-----------------------------------------------------------------------------
(* Correctness.                                                            *)

MuxTypeOK ==
    /\ age \in [Topics -> 0..AgeCap]
    /\ winner \in Topics \cup {NoTopic}

\* The command that stands at the output is not outranked by any source that
\* is alive: a source that came alive after it has been passed on itself, and
\* one that was alive before would have masked it (hasPriority, callback).
NoLiveSourceOutranks ==
    \A h \in Topics : ~hasExpired(age, h) /\ Priority(h) > 0 =>
        winner # NoTopic /\ Priority(h) <= Priority(winner)
=============================================================================
