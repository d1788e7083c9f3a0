--------------------------- MODULE MCRtRefinement ---------------------------
(* RtRefinement and RtTiming for TLC. *)
EXTENDS RtRefinement, RtTiming, TLC

Symmetry == Permutations(Tasks)
=============================================================================
