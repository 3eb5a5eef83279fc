----------------------------- MODULE MCTracking -----------------------------
(* A track of four cells; one obstacle that moves a cell at a time or jumps *)
(* across the start line, and two at once.                                 *)
EXTENDS Tracking

MCMessages == { <<>>, <<0>>, <<0, 3>> }
MCViews == {Cells}
MCMinVs == -1

(* Parameters are changed together, while nothing is tracked.              *)
MCNext ==
    /\ TrackingNext
    /\ UNCHANGED publish_static \/ tracked_obstacles = <<>>
    /\ noMemoryMode' = ~publish_static'
MCSpec ==
    TrackingInit /\ [][MCNext]_tracking_vars /\ WF_tracking_vars(loop)
=============================================================================
