----------------------------- MODULE OrderedLog -----------------------------
(***************************************************************************)
(* What one outbox partition promises, with none of its machinery: a log   *)
(* that messages enter once and never leave, and one consumer position     *)
(* that only moves over messages somebody has finished with, in order.     *)
(*                                                                         *)
(* There are no processes here, no leases, no batches, no tables and no    *)
(* failures: module Outbox is shown to implement this whatever its workers *)
(* do to each other (Outbox!ImplementsLog).                                *)
(***************************************************************************)
EXTENDS Naturals, FiniteSets, Functions

CONSTANT Ids        \* the messages, named by the ids their producers drew

VARIABLES
    pending,        \* messages published and not in the log yet
    log,            \* its entries: [seq, body_id]
    handled,        \* positions somebody has handled
    refused,        \* positions somebody has refused
    dead,           \* positions set aside as dead letters
    position        \* the consumer has finished with 1..position

vars == <<pending, log, handled, refused, dead, position>>

Init ==
    /\ pending = {}
    /\ log = {}
    /\ handled = {}
    /\ refused = {}
    /\ dead = {}
    /\ position = 0

Length == Cardinality(log)
Logged == {e.body_id : e \in log}

\* A producer's transaction publishes new messages, all at once.
Publish ==
    \E new \in SUBSET (Ids \ (pending \cup Logged)) :
        /\ pending' = pending \cup new
        /\ UNCHANGED <<log, handled, refused, dead, position>>

\* Pending messages are appended, in the order of their ids and with no gap.
Append ==
    \E ids \in SUBSET pending :
        \E f \in Bijection(ids, (Length + 1)..(Length + Cardinality(ids))) :
            /\ \A i, j \in ids : i < j => f[i] < f[j]
            /\ log' = log \cup {[seq |-> f[i], body_id |-> i] : i \in ids}
            /\ pending' = pending \ ids
            /\ UNCHANGED <<handled, refused, dead, position>>

\* S, and everything in the log before it, has now been finished with.
InOrder(S) ==
    /\ S \subseteq 1..Length
    /\ \A s \in S : 1..(s - 1) \subseteq handled \cup refused \cup S

\* A message is handled, perhaps again.
Handle ==
    \E s \in 1..Length :
        /\ InOrder({s})
        /\ handled' = handled \cup {s}
        /\ UNCHANGED <<pending, log, refused, dead, position>>

\* Messages are refused.
Refuse ==
    \E S \in SUBSET (1..Length) :
        /\ InOrder(S)
        /\ refused' = refused \cup S
        /\ UNCHANGED <<pending, log, handled, dead, position>>

\* The position moves on, over handled messages and over refused ones, which
\* become dead letters in the same step.
Advance ==
    \E p \in (position + 1)..Length, D \in SUBSET refused :
        /\ D \subseteq (position + 1)..p
        /\ (position + 1)..p \subseteq handled \cup D
        /\ position' = p
        /\ dead' = dead \cup D
        /\ UNCHANGED <<pending, log, handled, refused>>

Next == Publish \/ Append \/ Handle \/ Refuse \/ Advance

Spec == Init /\ [][Next]_vars
=============================================================================
