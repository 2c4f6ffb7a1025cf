---------------------------- MODULE MCClusterLock ----------------------------
(***************************************************************************)
(* An instance of ClusterLock for TLC.                                     *)
(***************************************************************************)
EXTENDS ClusterLock, TLC

CONSTANTS c1, c2, o1, o2, o3

MCOwnerOf == (c1 :> o1) @@ (c2 :> o2)

LockPlan(fresh, watches, faults, n) ==
    [fresh |-> fresh, watches |-> watches, faults |-> faults, calls |-> n,
     prompt |-> TRUE, inherited |-> {}, horizon |-> MaxTime]

\* Guards with and without a watch, guards over a cache that fails, and remote
\* clients, whose owners stay.
MCDeployments ==
    {LockPlan(TRUE, TRUE, FALSE, 3), LockPlan(TRUE, FALSE, FALSE, 2),
     LockPlan(TRUE, TRUE, TRUE, 2), LockPlan(FALSE, FALSE, FALSE, 3)}

\* Guards whose renewals may reach the cache late.
MCLate == {[LockPlan(TRUE, FALSE, FALSE, 5) EXCEPT !.prompt = FALSE]}
=============================================================================
