---------------------------- MODULE MCLineSupply ----------------------------
(* LineSupply with two sectors of at least twice hl_change, cut as the slicer
   does; the earlier line ends before the second one, the new one after it.  The
   republisher of a mapping run has no file, that of the base system has. *)
EXTENDS LineSupply, TLC

MCStart == (0 :> 0) @@ (1 :> 2)
MCEnd == (0 :> 1) @@ (1 :> 4)
MCVelocities == [line \in {OldLine, NewLine} |->
                    IF line = OldLine THEN <<3, 3>> ELSE <<3, 3, 3, 3, 3>>]

Values(a, b, limit) == [scaling |-> (0 :> a) @@ (1 :> b), global_limit |-> limit]
\* The hypotheses of the theorem ScalesOnce hold here.
ASSUME MCSectors == WideSectors /\ LinesOnSectors

MCParameterValues == {Values(1, 2, 2), Values(2, 2, 1)}
=============================================================================
