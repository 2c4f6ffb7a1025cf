------------------------------ MODULE MCOutbox ------------------------------
(***************************************************************************)
(* An instance of Outbox for TLC.                                          *)
(***************************************************************************)
EXTENDS Outbox, TLC

CONSTANTS p1, p2, s1, s2, w1, w2, v1, v2
=============================================================================
