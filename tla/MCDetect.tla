------------------------------ MODULE MCDetect ------------------------------
(* Detect with a line of three waypoints whose widths differ.              *)
EXTENDS Detect

MCLine == << [s_m |-> 0, d_right |-> 2, d_left |-> 3],
             [s_m |-> 3, d_right |-> 4, d_left |-> 1],
             [s_m |-> 6, d_right |-> 3, d_left |-> 3] >>

Cluster(s, d, points, size) == [s |-> s, d |-> d, points |-> points, size |-> size]

\* Clusters inside where the line is not at its narrowest, on either side;
\* one after the last waypoint and one at the start; one outside, one of too
\* few points and one too large.
MCScans == { <<Cluster(2, 2, 10, 1), Cluster(5, -3, 10, 1), Cluster(1, 0, 4, 1)>>,
             <<Cluster(7, 2, 10, 1), Cluster(4, 2, 10, 1), Cluster(0, 0, 10, 3)>> }

Values(inflation, view) ==
    [min_obs_size |-> 5, max_obs_size |-> 2, max_viewing_distance |-> view,
     boundaries_inflation |-> inflation]
MCParams == {Values(0, 3), Values(1, 1)}
=============================================================================
