-------------------------- MODULE MCClusterElection --------------------------
(***************************************************************************)
(* An instance of ClusterElection for TLC.                                 *)
(***************************************************************************)
EXTENDS ClusterElection, TLC

CONSTANTS t1, t2, t3

\* A candidate stands for the id it draws.
MCOwnerOf == [t \in Candidates |-> t]

ElectionPlan(who, heirs, faults, what, h) ==
    [enrols |-> who, inherited |-> heirs, faults |-> faults, events |-> what,
     prompt |-> TRUE, horizon |-> h]

\* Two candidates over a cache that fails; two whose watches break while the
\* replica shuts down; one that comes upon the claim of a replica that died, and
\* again with renewals that may be late.
MCDeployments ==
    {ElectionPlan({t1, t2}, {}, TRUE, {}, 2),
     ElectionPlan({t1, t2}, {}, FALSE, {"shutdown", "cut", "fatal"}, 2),
     ElectionPlan({t1}, {t3}, FALSE, {"resign", "crash", "shutdown", "cut"}, MaxTime),
     [ElectionPlan({t1}, {t3}, FALSE, {}, 5) EXCEPT !.prompt = FALSE]}
=============================================================================
