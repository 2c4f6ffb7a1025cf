--------------------------- MODULE MCPrioritizer ----------------------------
(***************************************************************************)
(* Instances of Prioritizer for TLC.                                       *)
(***************************************************************************)
EXTENDS Prioritizer, TLC

CONSTANTS pa, pb, w1, w2

\* Partitions and workers are interchangeable.  Used by the safety run only.
Symmetry == Permutations(Partitions) \cup Permutations(Workers)
=============================================================================
