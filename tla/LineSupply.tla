---------------------------- MODULE LineSupply ----------------------------
(***************************************************************************)
(* The supply of the race line: the planner publishes it once, the         *)
(* republishers (node "global_republisher") repeat it twice a second, to   *)
(* themselves too, and the sector tuner scales it.  Messages of one sender *)
(* stay in order, those of two do not.  The markers a republisher waits    *)
(* for come with the waypoints; the other topics it repeats go the same    *)
(* way and are left out.                                                   *)
(***************************************************************************)
EXTENDS GlobalPlanner, SectorTuner

CONSTANTS
    Republishers,        \* the nodes that run one
    WithFile,            \* those of them that are given a map_path
    Planner, Tuner,
    Link,                \* the share holds a link to the planner's file
    MaxChanges           \* bound: changes of the tuner's parameters

ASSUME SupplyAssumption ==
    /\ WithFile \subseteq Republishers /\ MaxChanges \in Nat
    /\ Planner # Tuner /\ {Planner, Tuner} \cap Republishers = {}
    /\ Velocities \in [{OldLine, NewLine} -> Seq(Nat)]
    /\ Link \notin {NoLine, OldLine, NewLine}

Receivers == Republishers \cup {Tuner}
Lines == {OldLine, NewLine}

VARIABLES
    share,               \* what stack_master's install share has as the file
    started,             \* the receivers that are up
    glb_wpnts,           \* the line each republisher holds
    track_length,        \* the line each one's parameter track_length is of
    in_flight,           \* messages on /global_waypoints: [from, to, line]
    changes

republisher_vars == <<started, glb_wpnts, track_length>>
supply_vars == <<planner_vars, tuner_vars, share, republisher_vars, in_flight, changes>>

\* The share has the map as it was built last: a copy, a link if it was built
\* with --symlink-install, or nothing.
SupplyInit ==
    /\ PlannerInit /\ TunerInit
    /\ share \in {NoLine, OldLine, Link}
    /\ started = {}
    /\ glb_wpnts = [r \in Republishers |-> NoLine]
    /\ track_length = [r \in Republishers |-> NoLine]
    /\ in_flight = {} /\ changes = 0

To(sender, line) == {[from |-> sender, to |-> r, line |-> line] : r \in started}

PlannerStep ==
    /\ PlannerNext
    /\ in_flight' = IF planner_out' # planner_out
                    THEN in_flight \cup To(Planner, planner_out') ELSE in_flight
    /\ UNCHANGED <<tuner_vars, share, republisher_vars, changes>>

\* A slicer has cut the line it was sent, and builds stack_master anew
\* (finish_sector.sh).
FinishSectors ==
    /\ planner_out # NoLine
    /\ share' \in {json, Link}
    /\ UNCHANGED <<planner_vars, tuner_vars, republisher_vars, in_flight, changes>>

---------------------------------------------------------------------------
(* The republishers. *)

\* read_global_waypoints: the planner writes to the sources of stack_master, a
\* republisher of the base system reads in its install share, that of a mapping
\* run nowhere (mapping_launch.xml:106).
InstalledLine == IF share = Link THEN json ELSE share

StartRepublisher(r) ==
    /\ r \notin started /\ started' = started \cup {r}
    /\ glb_wpnts' = [glb_wpnts EXCEPT ![r] =
                        IF r \in WithFile /\ ~create_map THEN InstalledLine ELSE NoLine]
    /\ UNCHANGED <<planner_vars, tuner_vars, share, track_length, in_flight, changes>>

\* A faulty variant: a line is repeated until it has come back once.
UntilItComesBack(r) ==
    /\ glb_wpnts[r] # NoLine /\ track_length[r] = NoLine
    /\ \A m \in in_flight : m.from # r
    /\ in_flight' = in_flight \cup To(r, glb_wpnts[r])
    /\ UNCHANGED <<planner_vars, tuner_vars, share, republisher_vars, changes>>

\* A message has arrived before its sender sends the next one, half a second
\* later.
global_republisher(r) ==
    /\ glb_wpnts[r] # NoLine
    /\ \A m \in in_flight : m.from # r
    /\ in_flight' = in_flight \cup To(r, glb_wpnts[r])
    /\ UNCHANGED <<planner_vars, tuner_vars, share, republisher_vars, changes>>

glb_wpnts_cb(m) ==
    /\ m.to \in Republishers
    /\ glb_wpnts' = [glb_wpnts EXCEPT ![m.to] = m.line]
    /\ track_length' = [track_length EXCEPT ![m.to] = m.line]
    /\ in_flight' = in_flight \ {m}
    /\ UNCHANGED <<planner_vars, tuner_vars, share, started, changes>>

---------------------------------------------------------------------------
(* The sector tuner. *)

\* A mapping run does without (mapping_launch.xml).
StartTuner ==
    /\ ~create_map
    /\ Tuner \notin started /\ started' = started \cup {Tuner}
    /\ UNCHANGED <<planner_vars, tuner_vars, share, glb_wpnts, track_length, in_flight, changes>>

TunerReceives(m) ==
    /\ m.to = Tuner /\ tuner_alive
    /\ global_waypoints_cb(m.line)
    /\ in_flight' = in_flight \ {m}
    /\ UNCHANGED <<planner_vars, share, republisher_vars, changes>>

TunerTimer ==
    /\ tuner_alive
    /\ UNCHANGED <<planner_vars, share, republisher_vars, in_flight, changes>>
    /\ timer_callback

TunerMarkers ==
    /\ tuner_alive /\ marker_callback
    /\ UNCHANGED <<planner_vars, share, republisher_vars, in_flight, changes>>

TunerEvent ==
    /\ tuner_alive /\ dyn_param_cb
    /\ UNCHANGED <<planner_vars, share, republisher_vars, in_flight, changes>>

ChangeParameter(values) ==
    /\ changes < MaxChanges /\ changes' = changes + 1
    /\ Tuner \in started /\ tuner_alive
    /\ SetParameter(values)
    /\ UNCHANGED <<planner_vars, share, republisher_vars, in_flight>>

SupplyNext ==
    \/ PlannerStep \/ FinishSectors
    \/ \E r \in Republishers : StartRepublisher(r) \/ global_republisher(r)
    \/ \E m \in in_flight : glb_wpnts_cb(m) \/ TunerReceives(m)
    \/ StartTuner \/ TunerTimer \/ TunerMarkers \/ TunerEvent
    \/ \E values \in ParameterValues : ChangeParameter(values)

\* The nodes are launched, messages arrive and timers and events come; the
\* car, the user and the planner's outcomes owe nothing.
SupplySpec ==
    /\ SupplyInit /\ [][SupplyNext]_supply_vars
    /\ \A r \in Republishers : /\ WF_supply_vars(StartRepublisher(r))
                               /\ WF_supply_vars(global_republisher(r))
    /\ \A from \in Republishers \cup {Planner}, to \in Receivers :
          WF_supply_vars(\E m \in in_flight :
              m.from = from /\ m.to = to /\ (glb_wpnts_cb(m) \/ TunerReceives(m)))
    /\ WF_supply_vars(StartTuner) /\ WF_supply_vars(TunerTimer)
    /\ WF_supply_vars(TunerEvent)

---------------------------------------------------------------------------
(* Properties. *)

\* Values stay in their ranges; what the planner publishes as new is in the
\* file; and the tuner's two messages are equal as long as they are one.
SupplyTypeOK ==
    /\ PlannerTypeOK
    /\ share \in Lines \cup {NoLine, Link}
    /\ glb_wpnts \in [Republishers -> Lines \cup {NoLine}]
    /\ track_length \in [Republishers -> Lines \cup {NoLine}]
    /\ \A m \in in_flight : m.to \in started /\ m.line \in Lines
    /\ aliased => glb_wpnts_scaled = glb_wpnts_og
    /\ \A i \in SectorIds : sectors_params.scaling[i] \in 0..Full

\* What the two files that configure the tuner have to agree on for ScaledOnce.
\* The sectors begin with the line, and in none of them do head and tail overlap;
\* and the last one, which the slicer ends at the length of the line
\* (sector_slicer.py:124), ends at most hl_change waypoints and one before it.
Lap == end[n_sectors - 1]
WideSectors ==
    /\ n_sectors > 0 /\ start[0] = 0
    /\ \A i \in SectorIds : Border(i) - start[i] >= 2 * hl_change
LinesOnSectors == \A line \in Lines : Len(Velocities[line]) <= Lap + hl_change + 1

\* The scaling of the sector that holds s, on the closed lap.
ScalingAt(s, scaling) ==
    LET x == s % Lap
    IN scaling[CHOOSE i \in SectorIds : start[i] <= x /\ x < Border(i)]

\* The mean of the scalings over hl_change waypoints on either side, in 1/Unit.
Smoothed(s, scaling) ==
    MapThenSumSet(LAMBDA x : ScalingAt(x, scaling), (s - hl_change)..(s + hl_change - 1))

ScaledBy(line, scaling) ==
    [k \in DOMAIN Velocities[line] |->
        (Velocities[line][k] * Smoothed(k - 1, scaling)) \div Unit]

\* Once the tuner has had a second message, what it publishes are the
\* velocities of the line it received last, scaled once, by the smoothed
\* scalings: no jump at a border of two sectors nor where the lap closes.  (The
\* first message it scales in place, again and again until the next arrives,
\* sector_tuner.py:171; and the sectors are at least twice hl_change long.)
ScaledOnce ==
    [][(TunerTimer /\ ~Shared /\ tuner_alive') =>
          LET vx == ScaledBy(glb_wpnts_og.line, sectors_params.scaling)
          IN SubSeq(glb_wpnts_scaled'.vx, 1, Len(vx)) = vx]_supply_vars

\* In the end, with a line to scale that is repeated, and a change of the
\* parameters handled, the velocities are those of the line scaled by the
\* parameters, none above the global limit.  (A tuner that is given a longer line
\* than its first one has ended; one that is sent a line only once scales that
\* message for ever; and before the first change the limit is not looked at.)
SettlesOnScaling ==
    <>[]((/\ tuner_alive /\ glb_wpnts_scaled # NoMsg
          /\ \E r \in Republishers : glb_wpnts[r] # NoLine
          /\ Len(glb_wpnts_og.vx) <= Len(glb_wpnts_scaled.vx)
          /\ changes > 0 /\ ~event)
           => LET vx == ScaledBy(glb_wpnts_og.line, Clip(parameters).scaling)
              IN SubSeq(glb_wpnts_scaled.vx, 1, Len(vx)) = vx)

\* Nobody holds or is about to get an earlier line, from a file or a sender.
NoOldLine ==
    /\ \A r \in Republishers : glb_wpnts[r] # OldLine
    /\ \A m \in in_flight : m.line # OldLine
    /\ OldLine \notin {json, share}

\* A new line that a republisher holds reaches everyone, and the parameter
\* track_length with it, however late they start and whether or not it has been
\* installed.  (With an earlier line about it may be lost: the share may still
\* hold that one; and a republisher listens to the topic it publishes on, so the
\* old line it has just sent comes back after the new one.)
NewLineReachesAll ==
    ((\E r \in Republishers : glb_wpnts[r] = NewLine) /\ NoOldLine)
        ~> (/\ \A r \in Republishers : track_length[r] = NewLine
            /\ create_map \/ ~tuner_alive \/ (glb_wpnts_og # NoMsg /\ glb_wpnts_og.line = NewLine))
=============================================================================
