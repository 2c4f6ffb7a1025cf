-------------------------- MODULE MCConsumerGroup ---------------------------
(***************************************************************************)
(* An instance of ConsumerGroup for TLC.                                   *)
(***************************************************************************)
EXTENDS ConsumerGroup

CONSTANTS c1, c2

GroupPlan(ids, readers, parts, ops, seeded, failing) ==
    [ids |-> ids, readers |-> readers, partitions |-> parts, ops |-> ops, seeded |-> seeded, failures |-> failing]

\* Two members that stream; one of three, which gains and loses at a time; two
\* that divide two topics; one that seeks in a group that may be deleted; two
\* that seek, of which one streams.
MCDeployments ==
    {GroupPlan({1, 2}, {1, 2}, "orders" :> 2, {"join", "leave", "stream"}, TRUE, TRUE),
     GroupPlan({1, 2, 3}, {2}, "orders" :> 3, {"join", "stream"}, TRUE, FALSE),
     GroupPlan({1, 2}, {}, "orders" :> 2 @@ "users" :> 1, {"join", "leave"}, TRUE, TRUE),
     GroupPlan({1}, {1}, "orders" :> 2, {"join", "leave", "stream", "seek", "delete"},
               FALSE, TRUE),
     GroupPlan({1, 2}, {1}, "orders" :> 1, {"join", "stream", "seek"}, FALSE, FALSE)}
=============================================================================
