---------------------------- MODULE MCCoordLease ----------------------------
(***************************************************************************)
(* Instances of CoordLease for TLC.                                        *)
(***************************************************************************)
EXTENDS CoordLease, TLC

CONSTANTS g1, g2, g3

Interchangeable == Permutations(Guards)

\* A worker's clock is right, or off by one tick in either direction.
OneTickOff == {-1, 0, 1}
=============================================================================
