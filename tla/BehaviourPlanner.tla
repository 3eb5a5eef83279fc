-------------------------- MODULE BehaviourPlanner --------------------------
(***************************************************************************)
(* What the behaviour planner promises to the controller, which sees only  *)
(* the published state and local waypoints: an overtaking spline is a      *)
(* lease.  A message of the spliner takes the lease for at most TtlMax     *)
(* cycles, every cycle uses one up, and without a lease no cycle follows a *)
(* spline.  StateMachine implements this.                                  *)
(***************************************************************************)
EXTENDS Integers

CONSTANTS TtlMax, initial_state

StateType == {"GB_TRACK", "TRAILING", "OVERTAKE", "FTGONLY"}

VARIABLES
    mode,     \* the state the machine is in
    pub,      \* the last publication
    lease     \* cycles the spline may still be followed

vars == <<mode, pub, lease>>

Init ==
    /\ mode = initial_state
    /\ pub = [state |-> "none", forced |-> FALSE, onLine |-> FALSE]
    /\ lease = 0

\* A new spline arrived.
Renew ==
    /\ lease' \in 1..TtlMax
    /\ UNCHANGED <<mode, pub>>

\* The operator moves the machine.
SetMode ==
    /\ mode' \in StateType
    /\ UNCHANGED <<pub, lease>>

\* One cycle.  A spline is followed only under a lease, and only in TRAILING
\* or OVERTAKE.  Unless the operator forces the state, OVERTAKE follows a
\* spline and is entered from TRAILING only, and FTGONLY is never entered.
Cycle ==
    /\ mode' \in StateType
    /\ \E forced, onLine \in BOOLEAN :
          /\ pub' = [state |-> mode', forced |-> forced, onLine |-> onLine]
          /\ onLine => lease > 0 /\ mode' \in {"TRAILING", "OVERTAKE"}
          /\ ~forced /\ mode' = "OVERTAKE" =>
                 onLine /\ mode \in {"TRAILING", "OVERTAKE"}
          /\ ~forced /\ mode' = "FTGONLY" => mode = "FTGONLY"
    /\ lease' = IF lease = 0 THEN 0 ELSE lease - 1

Next == Renew \/ SetMode \/ Cycle

Spec == Init /\ [][Next]_vars
=============================================================================
