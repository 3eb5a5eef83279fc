--------------------------- MODULE GlobalPlanner ---------------------------
(***************************************************************************)
(* The global planner (node "global_planner"): it waits until the car has  *)
(* driven its laps, saves the map when the user presses the button, plans  *)
(* the race line on it, writes it to global_waypoints.json, publishes what *)
(* that file holds and destroys itself.  Single threaded: a callback is a  *)
(* step.  The car's poses are cells of the lap, the first pose of a lap    *)
(* the one at_init_pos_check accepts; image processing and optimisation    *)
(* are the outcomes they may have.                                         *)
(***************************************************************************)
EXTENDS Integers

CONSTANTS
    Cells,               \* of the lap: 0 .. Cells - 1
    RequiredLaps,        \* values required_laps may have in the configuration
    NoLine, OldLine, NewLine,   \* what global_waypoints.json may hold
    MaxLaps              \* bound: how often the car comes back to its start

ASSUME PlannerAssumption ==
    /\ Cells \in Nat \ {0, 1} /\ MaxLaps \in Nat
    /\ RequiredLaps \subseteq Nat
    /\ NoLine # OldLine /\ NoLine # NewLine /\ OldLine # NewLine

VARIABLES
    create_map, map_editor_mode,
    node,                \* "running", "destroyed", "crashed": an exception ended it
    car,                 \* where the car is
    pose_valid, map_valid,
    current_position, initial_position,
    was_at_init_pos, lap_count, required_laps,
    window,              \* the button is on the screen
    map_dir,             \* the directory of the map exists
    json,                \* the line global_waypoints.json holds
    watershed,
    planner_out,         \* the line the planner has published
    returns              \* ghost: how often the car came back to its start

places == <<car, current_position, initial_position>>
files == <<map_dir, json>>
planner_vars == <<create_map, map_editor_mode, node, places, pose_valid, map_valid,
                  was_at_init_pos, lap_count, required_laps, window, files,
                  watershed, planner_out, returns>>

\* Mapping starts without a directory of the map or, against the manual, with
\* one; planning without mapping needs the map and may find an earlier line.
PlannerInit ==
    /\ create_map \in BOOLEAN /\ map_editor_mode \in BOOLEAN
    /\ create_map \/ map_editor_mode
    /\ map_dir \in (IF create_map THEN BOOLEAN ELSE {TRUE})
    /\ json \in (IF map_dir THEN {NoLine, OldLine} ELSE {NoLine})
    /\ node = "running" /\ car = 0
    /\ pose_valid = FALSE /\ map_valid = ~create_map
    /\ current_position = 0 /\ initial_position = 0
    /\ was_at_init_pos = TRUE /\ lap_count = 0
    /\ required_laps \in (IF map_editor_mode THEN {0} ELSE RequiredLaps)   \* unread there
    /\ window = create_map /\ watershed = TRUE
    /\ planner_out = NoLine /\ returns = 0

---------------------------------------------------------------------------
(* The callbacks that only store what they get. *)

\* The car drives on, while its poses matter; they come faster than it crosses
\* a cell.
Drive ==
    /\ create_map /\ node = "running"
    /\ returns < MaxLaps
    /\ car' = (car + 1) % Cells
    /\ returns' = IF pose_valid /\ car' = initial_position THEN returns + 1 ELSE returns
    /\ pose_valid' = TRUE
    /\ initial_position' = IF pose_valid THEN initial_position ELSE car'
    /\ current_position' = car'
    /\ UNCHANGED <<create_map, map_editor_mode, node, map_valid, was_at_init_pos,
                   lap_count, required_laps, window, files, watershed,
                   planner_out>>

update_map ==
    /\ ~map_valid /\ map_valid' = TRUE       \* later ones change nothing here
    /\ UNCHANGED <<create_map, map_editor_mode, node, places, pose_valid,
                   was_at_init_pos, lap_count, required_laps, window, files,
                   watershed, planner_out, returns>>

---------------------------------------------------------------------------
(* Laps. *)

at_init_pos_check == current_position = initial_position

\* A faulty variant: a lap each time the car is seen at its start.
EveryVisit == IF at_init_pos_check THEN lap_count + 1 ELSE lap_count

LapsCounted == IF at_init_pos_check /\ ~was_at_init_pos THEN lap_count + 1
                                                        ELSE lap_count

update_lap_count == /\ lap_count' = LapsCounted
                    /\ was_at_init_pos' = at_init_pos_check

---------------------------------------------------------------------------
(* Planning. *)

\* How the computation may end: no closed contour; none of the length driven,
\* which is looked at only after laps; no minimum curvature line; no line for
\* overtaking or no shortest path, an exception nobody catches; or all lines.
Endings == {"no_contour", "wrong_length", "infeasible", "no_second_line", "all"}

MayEnd(e) == e = "wrong_length" => ~map_editor_mode /\ required_laps > 0

Success(e, bounds) == e = "all" /\ bounds

\* The bounds come from the watershed, or else from the distance transform;
\* but the second line needs those of the watershed: without them
\* add_dist_to_cent raises an OSError, which global_plan_callback takes as the
\* end of the planner.  Of other exceptions it knows nothing.
NodeAfter(e, bounds) ==
    CASE e = "no_second_line" -> "crashed"
      [] e = "all" /\ ~bounds -> "destroyed"
      [] OTHER -> "running"

compute_global_trajectory(e, bounds) ==
    /\ MayEnd(e)
    /\ bounds => watershed
    /\ watershed' = IF e \in {"no_contour", "wrong_length"} THEN watershed ELSE bounds
    /\ json' = IF Success(e, bounds) THEN NewLine ELSE json

\* A faulty variant: the planner publishes as new whatever it has read.
PublishAsNew(line) == node' = "destroyed" /\ planner_out' = NewLine

\* read_and_publish: what the file holds, if it is there; then the node goes.
Publish(line) ==
    /\ node' = "destroyed"
    /\ planner_out' = line

PlanOffline(e, bounds) ==
    /\ ~create_map
    /\ compute_global_trajectory(e, bounds)
    /\ IF NodeAfter(e, bounds) = "running"
          THEN Publish(json')             \* whatever the computation returned
          ELSE node' = NodeAfter(e, bounds) /\ UNCHANGED planner_out
    /\ UNCHANGED <<was_at_init_pos, lap_count, required_laps, initial_position,
                   window, map_dir>>

Laps == IF map_editor_mode THEN UNCHANGED <<was_at_init_pos, lap_count>>
                           ELSE update_lap_count

\* The button counts once the laps are driven, and while it is on the screen.
Ready(clicked) ==
    /\ window /\ clicked
    /\ map_editor_mode \/ LapsCounted >= required_laps

Mapping == create_map /\ pose_valid /\ map_valid

KeepMapping(clicked) ==
    /\ Mapping /\ ~Ready(clicked) /\ Laps
    /\ UNCHANGED <<node, required_laps, initial_position, window, files,
                   watershed, planner_out>>

\* os.makedirs raises if the directory is there; or it has made it, and the
\* script that saves the state of the SLAM cannot be run.
SaveFails(clicked) ==
    /\ Mapping /\ Ready(clicked) /\ Laps
    /\ map_dir' = TRUE
    /\ node' = "destroyed" /\ initial_position' = current_position
    /\ UNCHANGED <<required_laps, window, json, watershed, planner_out>>

SaveMap ==
    /\ ~map_dir /\ map_dir' = TRUE
    /\ window' = FALSE
    /\ initial_position' = current_position

SaveForEditor(clicked) ==
    /\ Mapping /\ map_editor_mode /\ Ready(clicked) /\ Laps /\ SaveMap
    /\ Publish(NoLine)
    /\ UNCHANGED <<required_laps, json, watershed>>

\* After a contour of the wrong length the laps start anew, with one to drive:
\* "Will try again in one lap".  But the window is closed, so none is Ready.
PlanOnMap(e, bounds, clicked) ==
    /\ Mapping /\ ~map_editor_mode /\ Ready(clicked) /\ SaveMap
    /\ compute_global_trajectory(e, bounds)
    /\ IF e = "wrong_length"
          THEN was_at_init_pos' = TRUE /\ lap_count' = 0 /\ required_laps' = 1
          ELSE Laps /\ UNCHANGED required_laps
    /\ IF Success(e, bounds)
          THEN Publish(json')
          ELSE node' = NodeAfter(e, bounds) /\ UNCHANGED planner_out

global_plan_callback ==
    /\ UNCHANGED <<create_map, map_editor_mode, car, current_position, pose_valid,
                   map_valid, returns>>
    /\ \E clicked \in BOOLEAN, e \in Endings, bounds \in BOOLEAN :
          \/ PlanOffline(e, bounds)
          \/ KeepMapping(clicked) \/ SaveFails(clicked) \/ SaveForEditor(clicked)
          \/ PlanOnMap(e, bounds, clicked)

PlannerNext ==
    \/ Drive
    \/ node = "running" /\ (update_map \/ global_plan_callback)

PlannerSpec == PlannerInit /\ [][PlannerNext]_planner_vars

---------------------------------------------------------------------------
(* Properties. *)

\* Values stay in their ranges; a line is published only from the file, and
\* the file only in the directory of the map.
PlannerTypeOK ==
    /\ node \in {"running", "destroyed", "crashed"}
    /\ {car, current_position, initial_position} \subseteq 0..(Cells - 1)
    /\ lap_count \in 0..(MaxLaps + 1)
    /\ json \in {NoLine, OldLine, NewLine} /\ planner_out \in {NoLine, OldLine, NewLine}
    /\ planner_out = NewLine => json = NewLine
    /\ json # NoLine => map_dir

\* The planner saves the map of a mapping run only after the car has come back
\* to its start as often as required_laps asks: standing there, or being there
\* when the run begins, is not a lap.  (Poses that jitter about the edge of the
\* start are not in the model.)
MapAfterLaps ==
    [][map_dir' # map_dir => map_editor_mode \/ returns >= required_laps]_planner_vars
=============================================================================
