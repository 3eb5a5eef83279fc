---------------------------- MODULE SectorTuner ----------------------------
(***************************************************************************)
(* The sector tuner (node "sector_tuner"): it scales the velocities of the *)
(* global waypoints by the sector they are in and publishes the result     *)
(* twice a second, and markers of the sectors once.  Single threaded: a    *)
(* callback is a step.                                                     *)
(*                                                                         *)
(* A line is the sequence of its velocities and the name of its geometry;  *)
(* a waypoint's s is its index, as in scale_points.  Scalings are counted  *)
(* in 1/Full, interpolated ones in 1/Unit; velocities are whole numbers.   *)
(***************************************************************************)
EXTENDS Integers, Sequences, FiniteSetsExt

CONSTANTS
    n_sectors, start, end,      \* of the sectors 0 .. n_sectors - 1
    hl_change,
    Full,                       \* the scaling 1
    ParameterValues,            \* scaling per sector and global_limit, together
    Velocities,                 \* of a line
    NoMsg                       \* no message yet

SectorIds == 0..(n_sectors - 1)
Unit == 2 * hl_change * Full

\* What the slicer writes (sector_slicer.py:154-161): sorted points, the first
\* of them 0, or -1 after the slider has been drawn back to its stop; no sector
\* is there before a track has been sliced (maps/small_loop).
ASSUME SectorTunerAssumption ==
    /\ n_sectors \in Nat /\ hl_change \in Nat \ {0} /\ Full \in Nat \ {0}
    /\ start \in [SectorIds -> Int] /\ end \in [SectorIds -> Nat]
    /\ n_sectors > 0 => start[0] \in {-1, 0}
    /\ \A i \in SectorIds : start[i] <= end[i]
    /\ \A i \in SectorIds \ {0} : start[i] = end[i - 1] + 1
    /\ ParameterValues \subseteq [scaling : [SectorIds -> 0..Full], global_limit : 0..Full]

VARIABLES
    parameters,          \* of the node: the scaling per sector, the limit
    event,               \* a parameter event is under way
    sectors_params,      \* the node's copy, taken at start and with each event
    glb_wpnts_og,
    glb_wpnts_scaled,
    aliased,             \* the two are one message
    tuner_alive

tuner_vars == <<parameters, event, sectors_params, glb_wpnts_og,
                glb_wpnts_scaled, aliased, tuner_alive>>

TunerInit ==
    /\ parameters \in ParameterValues
    /\ event = FALSE /\ sectors_params = parameters      \* not clipped yet
    /\ glb_wpnts_og = NoMsg /\ glb_wpnts_scaled = NoMsg /\ aliased = FALSE
    /\ tuner_alive = TRUE

---------------------------------------------------------------------------
SetParameter(values) ==
    /\ parameters' = values /\ event' = TRUE
    /\ UNCHANGED <<sectors_params, glb_wpnts_og, glb_wpnts_scaled, aliased, tuner_alive>>

Clip(p) == [p EXCEPT !.scaling = [i \in SectorIds |->
                IF p.scaling[i] > p.global_limit THEN p.global_limit ELSE p.scaling[i]]]

dyn_param_cb ==
    /\ event /\ event' = FALSE
    /\ sectors_params' = Clip(parameters)
    /\ UNCHANGED <<parameters, glb_wpnts_og, glb_wpnts_scaled, aliased, tuner_alive>>

global_waypoints_cb(line) ==
    /\ glb_wpnts_og' = [line |-> line, vx |-> Velocities[line]]
    /\ aliased' = FALSE
    /\ UNCHANGED <<parameters, event, sectors_params, glb_wpnts_scaled, tuner_alive>>

---------------------------------------------------------------------------
(* get_vel_scaling *)

\* np.interp between from at border - hl_change and to at border + hl_change.
Interp(s, border, from, to) ==
    LET x == CASE s < border - hl_change -> 0
               [] s > border + hl_change -> 2 * hl_change
               [] OTHER -> s - border + hl_change
    IN from * (2 * hl_change - x) + to * x

\* Where sector i gives way to the next, and whose scaling comes there.
Border(i) == IF i = n_sectors - 1 THEN end[i] ELSE start[i + 1]
NextSector(i) == (i + 1) % n_sectors
PrevSector(i) == (i - 1) % n_sectors

InHead(i, s) == start[i] <= s /\ s < start[i] + hl_change
InBody(i, s) == start[i] + hl_change <= s /\ s < Border(i) - hl_change

\* Before its border; the last sector looks at no upper end and, once its
\* head and its body are ruled out, at no lower one.
InTail(i, s) == /\ ~InHead(i, s) /\ ~InBody(i, s)
                /\ Border(i) - hl_change <= s
                /\ i = n_sectors - 1 \/ s < Border(i)

Decides(i, s) == InHead(i, s) \/ InBody(i, s) \/ InTail(i, s)

\* A faulty variant: a tail that leads back to the sector's own scaling.
BackToItself(i, s, scaling) ==
    CASE InHead(i, s) -> Interp(s, start[i], scaling[PrevSector(i)], scaling[i])
      [] InBody(i, s) -> scaling[i] * 2 * hl_change
      [] OTHER -> Interp(s, Border(i), scaling[NextSector(i)], scaling[i])

ScalerOf(i, s, scaling) ==
    CASE InHead(i, s) -> Interp(s, start[i], scaling[PrevSector(i)], scaling[i])
      [] InBody(i, s) -> scaling[i] * 2 * hl_change
      [] OTHER -> Interp(s, Border(i), scaling[i], scaling[NextSector(i)])

\* The loop over the sectors goes on after a match: the last one counts.
Deciding(s) == CHOOSE i \in SectorIds :
    Decides(i, s) /\ \A j \in SectorIds : j > i => ~Decides(j, s)

get_vel_scaling(s, scaling) ==
    IF n_sectors = 1 THEN scaling[0] * 2 * hl_change
    ELSE ScalerOf(Deciding(s), s, scaling)

---------------------------------------------------------------------------
Scaled(v, k) == (v * get_vel_scaling(k - 1, sectors_params.scaling)) \div Unit

\* What scale_points writes to: the message that was the original when the
\* timer first ran, for good.
Target == IF glb_wpnts_scaled = NoMsg THEN glb_wpnts_og ELSE glb_wpnts_scaled
Shared == aliased \/ glb_wpnts_scaled = NoMsg

\* A faulty variant: the velocities last published are scaled again.
ScalesTheScaled ==
    /\ glb_wpnts_scaled' = [Target EXCEPT !.vx =
          [k \in DOMAIN Target.vx |-> Scaled(Target.vx[k], k)]]
    /\ UNCHANGED <<glb_wpnts_og, aliased, tuner_alive>>

\* A longer line than the first one leaves the array of the message; and with
\* no sector get_vel_scaling has no scaler to return.
scale_points ==
    /\ glb_wpnts_scaled' = [Target EXCEPT !.vx =
          [k \in DOMAIN Target.vx |-> IF n_sectors > 0 /\ k <= Len(glb_wpnts_og.vx)
                                      THEN Scaled(glb_wpnts_og.vx[k], k)
                                      ELSE Target.vx[k]]]
    /\ glb_wpnts_og' = IF Shared THEN glb_wpnts_scaled' ELSE glb_wpnts_og
    /\ aliased' = Shared
    /\ tuner_alive' = (Len(glb_wpnts_og.vx) <= IF n_sectors > 0 THEN Len(Target.vx) ELSE 0)

timer_callback ==
    /\ glb_wpnts_og # NoMsg
    /\ UNCHANGED <<parameters, event, sectors_params>>
    /\ scale_points

\* A sector that starts beyond the line has no waypoint to put its marker at.
marker_callback ==
    /\ glb_wpnts_og # NoMsg
    /\ tuner_alive' = \A i \in SectorIds : /\ Len(glb_wpnts_og.vx) > 0
                                           /\ start[i] < Len(glb_wpnts_og.vx)
    /\ UNCHANGED <<parameters, event, sectors_params, glb_wpnts_og,
                   glb_wpnts_scaled, aliased>>
=============================================================================
