---------------------------- MODULE MCTraceMail -----------------------------
(***************************************************************************)
(* Instances of TraceMail for TLC.                                         *)
(***************************************************************************)
EXTENDS TraceMail, TLC

CONSTANTS i1, i2, p1, p2

\* The first instance submits every batch; any instance processes them.
FirstOwns == [t \in Traces |-> i1]

\* Every batch has one entity in each partition.
OneEach == [t \in Traces |-> [p \in Partitions |-> 1]]

\* Two subscriptions follow one batch; two batches share their partitions; one
\* subscription follows a batch the sweeper may take.
Followed == [batches |-> {1}, subs |-> 2, sweeps |-> FALSE, partial |-> TRUE]
Shared == [batches |-> {1, 2}, subs |-> 0, sweeps |-> FALSE, partial |-> FALSE]
Swept == [batches |-> {1}, subs |-> 1, sweeps |-> TRUE, partial |-> TRUE]
MCDeployments == {Followed, Shared, Swept}

\* Two batches that share their partitions, and handlers that fail in mid-batch.
MidBatchFailures == {[Shared EXCEPT !.partial = TRUE]}
=============================================================================
