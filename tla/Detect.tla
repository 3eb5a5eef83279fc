------------------------------- MODULE Detect -------------------------------
(***************************************************************************)
(* The opponent detection (node "detection").  A multi threaded executor   *)
(* runs its timer, its subscriptions and its parameter callback in threads *)
(* of their own and the lock the node creates is never taken: the steps of *)
(* pathCb and of loop that another thread can tell apart are actions.  The *)
(* waypoints come twice a second: no two calls of pathCb overlap.          *)
(*                                                                         *)
(* A scan is the sequence of its clusters, each with the frenet position   *)
(* of its mean and the size of the rectangle fitted to it: segmentation,   *)
(* rectangle fitting and the geometry of the conversions are left out.     *)
(***************************************************************************)
EXTENDS Integers, Sequences, FiniteSetsExt, SequencesExt

CONSTANTS
    Line,                \* the message on /global_waypoints
    Scans,               \* sequences of clusters
    CarPositions,
    Params,              \* values the reconfigurable parameters take together
    MaxChanges           \* bound: parameter events

ASSUME DetectAssumption ==
    /\ Line \in Seq([s_m : Nat, d_right : Int, d_left : Int]) /\ Line # <<>>
    /\ \A i, j \in DOMAIN Line : i < j => Line[i].s_m < Line[j].s_m
    /\ Last(Line).s_m > 0
    /\ Scans \subseteq Seq([s : Nat, d : Int, points : Nat, size : Nat])
    /\ CarPositions \subseteq Nat
    /\ Params \subseteq [min_obs_size : Nat, max_obs_size : Nat,
                         max_viewing_distance : Nat, boundaries_inflation : Nat]
    /\ MaxChanges \in Nat

VARIABLES
    params, changes, path_needs_update,
    s_array, d_right_array, d_left_array, biggest_d, smallest_d,
    track_length,        \* 0: None, no path yet
    path_pc,             \* where pathCb is
    scans, car_s,        \* the latest messages
    loop_pc,             \* where loop is
    cloud, sampled_s,    \* what loop has sampled
    at, idx, kept,       \* the cluster looked at, its waypoint, those to keep
    obstacles,           \* the clusters last published on raw_obstacles
    alive,               \* no exception has ended the process
    calm                 \* ghost: no thread has touched what loop reads since
                         \* it began

boundaries == <<s_array, d_right_array, d_left_array, biggest_d, smallest_d,
                track_length>>
path_vars == <<boundaries, path_needs_update, path_pc>>
loop_vars == <<loop_pc, cloud, sampled_s, at, idx, kept, obstacles>>
input_vars == <<scans, car_s>>
detect_vars == <<params, changes, path_vars, input_vars, loop_vars, alive, calm>>

DetectInit ==
    /\ params \in Params /\ changes = 0 /\ path_needs_update = FALSE
    /\ s_array = <<>> /\ d_right_array = <<>> /\ d_left_array = <<>>
    /\ biggest_d = 0 /\ smallest_d = 0 /\ track_length = 0
    /\ path_pc = "idle"
    /\ scans = <<>> /\ car_s = 0
    /\ loop_pc = "idle" /\ cloud = <<>> /\ sampled_s = 0
    /\ at = 1 /\ idx = 0 /\ kept = {} /\ obstacles = {}
    /\ alive = TRUE /\ calm = FALSE

---------------------------------------------------------------------------
(* Callbacks of one step. *)

laserCb(msg) == /\ scans' = msg
                /\ UNCHANGED <<params, changes, path_vars, car_s, loop_vars, alive, calm>>

carStateCb(s) == /\ car_s' = s
                 /\ UNCHANGED <<params, changes, path_vars, scans, loop_vars, alive, calm>>

dyn_param_cb(values) ==
    /\ changes < MaxChanges /\ changes' = changes + 1
    /\ params' = values
    /\ path_needs_update' = TRUE
    /\ calm' = FALSE
    /\ UNCHANGED <<boundaries, path_pc, input_vars, loop_vars, alive>>

---------------------------------------------------------------------------
(* pathCb: the arrays are emptied, filled waypoint by waypoint with the    *)
(* inflation of the moment, and only then the flag is taken back.          *)

PathUnchanged == UNCHANGED <<params, changes, input_vars, loop_vars, alive>>

\* A faulty variant: the flag is not looked at once there is a path.
FirstPathOnly == track_length = 0

MustRebuild == track_length = 0 \/ path_needs_update

pathCb ==
    /\ path_pc = "idle"
    /\ IF MustRebuild
          THEN path_pc' = "clear" /\ s_array' = <<>> /\ calm' = FALSE
          ELSE path_pc' = "reset" /\ UNCHANGED <<s_array, calm>>
    /\ UNCHANGED <<d_right_array, d_left_array, biggest_d, smallest_d,
                   track_length, path_needs_update>>
    /\ PathUnchanged

ClearBoundaries ==
    /\ path_pc = "clear" /\ path_pc' = "append_s"
    /\ d_right_array' = <<>> /\ d_left_array' = <<>>
    /\ UNCHANGED <<s_array, biggest_d, smallest_d, track_length, path_needs_update, calm>>
    /\ PathUnchanged

Waypoint == Line[Len(s_array)]

AppendS ==
    /\ path_pc = "append_s" /\ path_pc' = "append_d"
    /\ s_array' = Append(s_array, Line[Len(s_array) + 1].s_m)
    /\ UNCHANGED <<d_right_array, d_left_array, biggest_d, smallest_d,
                   track_length, path_needs_update, calm>>
    /\ PathUnchanged

\* A faulty variant: the right border on both sides.
RightForBoth ==
    /\ path_pc = "append_d" /\ path_pc' = IF Len(s_array) < Len(Line) THEN "append_s" ELSE "extremes"
    /\ d_right_array' = Append(d_right_array, Waypoint.d_right - params.boundaries_inflation)
    /\ d_left_array' = Append(d_left_array, Waypoint.d_right - params.boundaries_inflation)
    /\ UNCHANGED <<s_array, biggest_d, smallest_d, track_length, path_needs_update, calm>>
    /\ PathUnchanged

AppendBoundaries ==
    /\ path_pc = "append_d"
    /\ d_right_array' = Append(d_right_array, Waypoint.d_right - params.boundaries_inflation)
    /\ d_left_array' = Append(d_left_array, Waypoint.d_left - params.boundaries_inflation)
    /\ path_pc' = IF Len(s_array) < Len(Line) THEN "append_s" ELSE "extremes"
    /\ UNCHANGED <<s_array, biggest_d, smallest_d, track_length, path_needs_update, calm>>
    /\ PathUnchanged

\* A faulty variant: the extremes of one side.
RightSideOnly == Range(d_right_array)

HalfWidths == Range(d_right_array) \cup Range(d_left_array)

Extremes ==
    /\ path_pc = "extremes" /\ path_pc' = "reset"
    /\ smallest_d' = Min(HalfWidths) /\ biggest_d' = Max(HalfWidths)
    /\ track_length' = Last(Line).s_m
    /\ calm' = FALSE
    /\ UNCHANGED <<s_array, d_right_array, d_left_array, path_needs_update>>
    /\ PathUnchanged

ResetFlag ==
    /\ path_pc = "reset" /\ path_pc' = "idle"
    /\ path_needs_update' = FALSE
    /\ UNCHANGED <<boundaries, calm>>
    /\ PathUnchanged

PathStep == \/ ClearBoundaries \/ AppendS \/ AppendBoundaries \/ Extremes
            \/ ResetFlag

---------------------------------------------------------------------------
(* loop *)

LoopUnchanged == UNCHANGED <<params, changes, path_vars, input_vars>>

Rebuilding == path_pc \notin {"idle", "reset"}

\* A transform that is missing, now and at the time of the scan, is None and
\* leaves no cluster to look at.
StartLoop(found) ==
    /\ loop_pc = "idle" /\ track_length # 0
    /\ loop_pc' = "look"
    /\ cloud' = IF found THEN scans ELSE <<>>
    /\ sampled_s' = car_s
    /\ at' = 1 /\ kept' = {} /\ calm' = ~Rebuilding
    /\ UNCHANGED <<idx, obstacles, alive>>
    /\ LoopUnchanged

Abs(x) == IF x < 0 THEN -x ELSE x

normalize_s(x) == LET y == x % track_length
                  IN IF 2 * y > track_length THEN y - track_length ELSE y

bisect_left(s) == Cardinality({i \in DOMAIN s_array : s_array[i] < s})

\* A faulty variant: the index of bisect_left itself, one past the array after
\* the last waypoint.
NextWaypoint(s) == bisect_left(s) + 1

\* bisect_left less one, but for 0, counted from 1 here.
IndexOf(s) == IF bisect_left(s) = 0 THEN 1 ELSE bisect_left(s)

Keep(yes) == /\ kept' = IF yes THEN kept \cup {cloud[at]} ELSE kept
             /\ at' = at + 1

\* The first tests of laserPointOnTrack need no array.
Undecided(c) ==
    /\ normalize_s(c.s - sampled_s) <= params.max_viewing_distance
    /\ Abs(c.d) < biggest_d
    /\ Abs(c.d) > smallest_d

Accepted(c) ==
    /\ normalize_s(c.s - sampled_s) <= params.max_viewing_distance
    /\ Abs(c.d) < biggest_d
    /\ Abs(c.d) <= smallest_d

LookAt ==
    /\ loop_pc = "look" /\ at <= Len(cloud)
    /\ LET c == cloud[at]
           large == c.points >= params.min_obs_size
       IN IF large /\ Undecided(c)
             THEN /\ loop_pc' = "index" /\ idx' = IndexOf(c.s)
                  /\ UNCHANGED <<at, kept>>
             ELSE /\ Keep(large /\ Accepted(c))
                  /\ UNCHANGED <<loop_pc, idx>>
    /\ UNCHANGED <<cloud, sampled_s, obstacles, alive, calm>>
    /\ LoopUnchanged

\* Comparing with an entry that is not there raises and ends the process.
IndexBoundaries ==
    /\ loop_pc = "index"
    /\ LET c == cloud[at]
           right_ends == idx > Len(d_right_array)
           off_right == c.d <= -d_right_array[idx]
           left_ends == idx > Len(d_left_array)
       IN IF right_ends \/ (~off_right /\ left_ends)
             THEN /\ alive' = FALSE
                  /\ UNCHANGED <<loop_pc, at, kept>>
             ELSE /\ Keep(~off_right /\ c.d < d_left_array[idx])
                  /\ loop_pc' = "look" /\ UNCHANGED alive
    /\ UNCHANGED <<cloud, sampled_s, idx, obstacles, calm>>
    /\ LoopUnchanged

\* checkObstacles and publishObstaclesMessage.
Publish ==
    /\ loop_pc = "look" /\ at > Len(cloud)
    /\ loop_pc' = "idle"
    /\ obstacles' = {c \in kept : c.size <= params.max_obs_size}
    /\ cloud' = <<>> /\ kept' = {} /\ at' = 1 /\ idx' = 0 /\ calm' = FALSE
    /\ UNCHANGED <<sampled_s, alive>>
    /\ LoopUnchanged

LoopStep == LookAt \/ IndexBoundaries \/ Publish

DetectNext ==
    /\ alive
    /\ \/ \E msg \in Scans : laserCb(msg)
       \/ \E s \in CarPositions : carStateCb(s)
       \/ \E values \in Params : dyn_param_cb(values)
       \/ pathCb \/ PathStep
       \/ \E found \in BOOLEAN : StartLoop(found)
       \/ LoopStep

\* Both threads run on, and the republisher keeps sending the waypoints.
DetectSpec ==
    /\ DetectInit /\ [][DetectNext]_detect_vars
    /\ WF_detect_vars(alive /\ (pathCb \/ PathStep))
    /\ WF_detect_vars(alive /\ LoopStep)

---------------------------------------------------------------------------
(* Properties. *)

\* Values stay in their ranges, and the arrays in step with each other: the
\* lateral arrays never run ahead of s_array and hold one width of the line
\* less one of the inflations per waypoint.  Outside of a rebuild the extremes
\* are those of the arrays.
DetectTypeOK ==
    /\ params \in Params /\ changes \in 0..MaxChanges
    /\ path_needs_update \in BOOLEAN /\ alive \in BOOLEAN /\ calm \in BOOLEAN
    /\ path_pc \in {"idle", "clear", "append_s", "append_d", "extremes", "reset"}
    /\ loop_pc \in {"idle", "look", "index"}
    /\ Len(d_right_array) = Len(d_left_array)
    /\ path_pc # "clear" => Len(s_array) - Len(d_right_array) \in {0, 1}
    /\ \A i \in DOMAIN s_array : s_array[i] = Line[i].s_m
    /\ \A i \in DOMAIN d_right_array : \E p \in Params :
          /\ d_right_array[i] = Line[i].d_right - p.boundaries_inflation
          /\ d_left_array[i] = Line[i].d_left - p.boundaries_inflation
    /\ track_length # 0 /\ ~Rebuilding =>
          LET borders == Range(d_right_array) \cup Range(d_left_array)
          IN smallest_d = Min(borders) /\ biggest_d = Max(borders)
    /\ scans \in Scans \cup {<<>>} /\ kept \subseteq Range(cloud)
    /\ at \in 1..(Len(cloud) + 1) /\ idx \in 0..Len(Line)

\* The boundaries are those of the line, narrowed by the inflation v.
BuiltFor(v) ==
    /\ d_left_array = [i \in DOMAIN Line |-> Line[i].d_left - v]
    /\ d_right_array = [i \in DOMAIN Line |-> Line[i].d_right - v]
    /\ track_length # 0 /\ ~Rebuilding

\* A cluster off the arrays ends the node (detect.py:321), and that happens
\* only while pathCb rebuilds them for a change of a parameter: neither a
\* cluster beyond the last waypoint nor one before the first does it.
DiesOnlyInRebuild == ~alive => Rebuilding /\ changes > 0

\* The last waypoint before s, the first one if there is none.
SegmentOf(s) ==
    LET before == {i \in DOMAIN Line : Line[i].s_m < s}
    IN IF before = {} THEN 1 ELSE Max(before)

Visible(c) ==
    LET ahead == (c.s - sampled_s) % Last(Line).s_m
    IN 2 * ahead > Last(Line).s_m \/ ahead <= params.max_viewing_distance

Within(c, margin) ==
    LET w == Line[SegmentOf(c.s)]
        v == params.boundaries_inflation
    IN -(w.d_right - v) - margin < c.d /\ c.d < w.d_left - v + margin

Expected(c, margin) ==
    /\ c.points >= params.min_obs_size /\ c.size <= params.max_obs_size
    /\ Visible(c) /\ Within(c, margin)

\* What a loop publishes that no other thread disturbed and that found the
\* boundaries up to date: every cluster of its scan that is large enough, not
\* too large, not too far ahead and between the narrowed borders of its
\* segment, and no other.  Neither the shortcuts for the narrowest and the
\* widest place nor an earlier loop change that.  (A cluster exactly on the
\* border may go either way: the shortcut takes it, the arrays do not.)
JudgedByTheLine ==
    [][(Publish /\ calm /\ BuiltFor(params.boundaries_inflation)) =>
          /\ {c \in Range(cloud) : Expected(c, 0)} \subseteq obstacles'
          /\ obstacles' \subseteq {c \in Range(cloud) : Expected(c, 1)}]_detect_vars

\* A change that pathCb was not in the middle of takes effect: the boundaries
\* get the new inflation, unless it changes again or a loop dies of the
\* rebuild.  (One that comes while pathCb runs may be lost: the flag it sets
\* is taken back at the end of that very call, detect.py:269.)
ChangeTakesEffect ==
    \A v \in {p.boundaries_inflation : p \in Params} :
        (path_pc = "idle" /\ path_needs_update /\ params.boundaries_inflation = v)
            ~> (~alive \/ params.boundaries_inflation # v \/ BuiltFor(v))
=============================================================================
