---------------------------- MODULE OutboxProofs ----------------------------
(***************************************************************************)
(* Proofs about the leased pipeline of module Outbox, for every number of  *)
(* processes, every batch size and every bound.                            *)
(***************************************************************************)
EXTENDS Outbox, FiniteSetTheorems, FunctionTheorems, WellFoundedInduction, TLAPS

-----------------------------------------------------------------------------
(* The inductive invariant, in parts. *)

\* Producers: ids in flight are fresh and belong to one transaction.
ProducerInv ==
    /\ \A i \in Committed : i < nextId
    /\ \A p \in Producers : \A i \in open[p] : i < nextId /\ i \notin Committed
    /\ \A p, q \in Producers : p # q => open[p] \cap open[q] = {}
    /\ \A i \in Ids : committedAt[i] <= commits

\* Sequencers: the row lock makes a claim the only one and keeps it valid.
ClaimInv ==
    /\ \A s \in Sequencers : claim[s] \subseteq incoming
    /\ \A s \in Sequencers : claim[s] # {} => rowLock = s

\* What a row that is not sequenced yet can still overtake.
OvertakeInv ==
    /\ \A r \in sequenced : \A j \in incoming :
          j < r.body_id => committedAt[j] > committedAt[r.body_id]
    /\ \A s \in Sequencers : \A i \in claim[s] : \A j \in incoming \ claim[s] :
          j < i => committedAt[j] > committedAt[i]

\* The counter of seqs and the set of rows agree.
CountInv == sequence = Cardinality(BodiesOf(sequenced))

\* Outgoing holds original rows, and every unprocessed one.
OutgoingInv ==
    /\ outgoing \subseteq sequenced
    /\ \A s \in (processedSeq + 1)..sequence : s \in SeqsOf(outgoing)

CursorInv ==
    /\ processedSeq <= sequence
    /\ \A v \in Vacuums : upto[v] <= processedSeq
    /\ \A v \in Vacuums : \A q \in chunk[v] : q <= upto[v]
    /\ \A v \in Vacuums : vpc[v] # "chunk" => chunk[v] = {}

\* A batch is a segment that starts at or below the cursor; the holder of the
\* lease has one that starts right after it.
BatchOK(w) ==
    /\ \A b \in batch[w] : b <= sequence
    /\ \A b \in batch[w] : \A t \in 1..b : t \in batch[w] \/ t <= processedSeq
    /\ lockedBy = w => \A b \in batch[w] : b > processedSeq
    /\ cursor[w] \in batch[w] \cup {0}
    /\ rejected[w] \subseteq batch[w]
    /\ rejected[w] \subseteq refused
    /\ \A s \in rejected[w] : s <= cursor[w]
    /\ \A s \in batch[w] : s <= cursor[w] => s \in handled \cup rejected[w]
    /\ wpc[w] \in {"idle", "empty"} => batch[w] = {}
    /\ wpc[w] = "Reject" => Remaining(w) \subseteq refused

BatchInv == \A w \in Workers : BatchOK(w)

SeqInv == ProducerInv /\ ClaimInv /\ OvertakeInv /\ CountInv /\ SequencedOnce /\ FifoOrder
RowInv == OutgoingInv /\ BodiesAccounted
DeliveryInv == CursorInv /\ BatchInv /\ NothingSkipped /\ DeadLetterOnce /\ OrderedDelivery

IndInv == TypeOK /\ SeqInv /\ RowInv /\ DeliveryInv

\* A chunk that was selected short still covers what is left to delete, however
\* many vacuums work on the same rows.
SweepInv ==
    \A v \in Vacuums :
        vpc[v] = "chunk" /\ Cardinality(chunk[v]) < VacBatch
          => \A r \in outgoing : r.seq \in chunk[v] \/ r.seq > upto[v]

-----------------------------------------------------------------------------
(* Lemmas about the operators *)

\* A set of ids or seqs is finite.
LEMMA BoundedFinite ==
    ASSUME NEW S, S \subseteq 1..MaxMsgs
    PROVE  IsFiniteSet(S)
<1>1. 1 \in Int /\ MaxMsgs \in Int
  BY BoundAssumption
<1>2. IsFiniteSet(1..MaxMsgs)
  BY <1>1, FS_Interval
<1>3. S \in SUBSET (1..MaxMsgs)
  OBVIOUS
<1> QED
  BY <1>2, <1>3, FS_Subset

\* ORDER BY ... LIMIT returns rows of the table, and with a row every row that
\* sorts before it.
LEMMA FirstNPrefix ==
    ASSUME NEW S, S \subseteq 1..MaxMsgs, NEW n \in Nat
    PROVE  /\ FirstN(S, n) \subseteq S
           /\ \A x \in FirstN(S, n), y \in S : y < x => y \in FirstN(S, n)
<1>1. FirstN(S, n) \subseteq S
  BY DEF FirstN
<1>2. ASSUME NEW x \in FirstN(S, n), NEW y \in S, y < x
      PROVE  y \in FirstN(S, n)
  <2> DEFINE X == {z \in S : z < x}
             Y == {z \in S : z < y}
  <2>1. Y \subseteq X
    <3>1. x \in S
      BY <1>1
    <3>2. \A z \in S : z \in Nat
      BY BoundAssumption
    <3>3. x \in Nat /\ y \in Nat
      BY <3>1, <3>2
    <3>4. ASSUME NEW z \in Y PROVE z \in X
      <4>1. z \in Nat /\ z \in S /\ z < y
        BY <3>2
      <4>2. z < x
        BY <1>2, <3>3, <4>1
      <4> QED
        BY <4>1, <4>2
    <3> QED
      BY <3>4
  <2>2. IsFiniteSet(X) /\ IsFiniteSet(Y)
    BY BoundedFinite
  <2>3. Cardinality(Y) <= Cardinality(X) /\ Cardinality(X) \in Nat /\ Cardinality(Y) \in Nat
    <3>1. Y \in SUBSET X
      BY <2>1
    <3> QED
      BY <2>2, <3>1, FS_Subset, FS_CardinalityType
  <2>4. Cardinality(X) < n
    BY <1>2 DEF FirstN
  <2>5. Cardinality(Y) < n
    BY <2>3, <2>4
  <2> QED
    BY <2>5 DEF FirstN
<1> QED
  BY <1>1, <1>2

\* A result shorter than LIMIT is the whole table.
LEMMA FirstNShort ==
    ASSUME NEW S, S \subseteq 1..MaxMsgs, NEW n \in Nat,
           Cardinality(FirstN(S, n)) < n
    PROVE  FirstN(S, n) = S
<1> DEFINE F == FirstN(S, n)
<1>1. F \subseteq S
  BY FirstNPrefix
<1>2. SUFFICES ASSUME S \ F # {} PROVE FALSE
  BY <1>1
<1>a. \A y \in S : y \in Nat
  BY BoundAssumption
<1>3. PICK x \in S \ F : \A y \in S \ F : ~ (<<y, x>> \in OpToRel(<, Nat))
  <2>1. S \ F \subseteq Nat
    BY <1>a, Zenon
  <2> QED
    BY <1>2, <2>1, NatLessThanWellFounded, WFMin, Zenon
<1>4. ASSUME NEW y \in S \ F PROVE ~(y < x)
  <2>1. y \in Nat /\ x \in Nat
    BY <1>a, <1>3
  <2>2. ~ (<<y, x>> \in OpToRel(<, Nat))
    BY <1>3
  <2> QED
    BY <2>1, <2>2 DEF OpToRel
<1>5. {y \in S : y < x} \subseteq F
  BY <1>4
<1>6. Cardinality({y \in S : y < x}) <= Cardinality(F)
      /\ Cardinality(F) \in Nat /\ Cardinality({y \in S : y < x}) \in Nat
  <2>1. IsFiniteSet(F) /\ IsFiniteSet({y \in S : y < x})
    BY <1>1, BoundedFinite
  <2> QED
    <3>1. {y \in S : y < x} \in SUBSET F
      BY <1>5
    <3> QED
      BY <2>1, <3>1, FS_Subset, FS_CardinalityType
<1>7. x \in F
  <2>1. Cardinality({y \in S : y < x}) < n
    BY <1>6
  <2> QED
    BY <1>3, <2>1 DEF FirstN
<1> QED
  BY <1>3, <1>7

\* Numbering gives each id a seq of its own, uses all of them and keeps order.
LEMMA NumberingFacts ==
    ASSUME NEW ids, NEW start \in Nat, NEW f \in Numbering(ids, start)
    PROVE  /\ f \in [ids -> (start + 1)..(start + Cardinality(ids))]
           /\ \A a, b \in ids : f[a] = f[b] => a = b
           /\ \A s \in (start + 1)..(start + Cardinality(ids)) : \E a \in ids : f[a] = s
           /\ \A a, b \in ids : a < b => f[a] < f[b]
BY DEF Numbering, Bijection, Injection, Surjection, IsInjective

-----------------------------------------------------------------------------
(* The types, all parts at once, and per part what can change them. *)

\* A step that leaves the lease row alone keeps its types.
LEMMA LeaseFrame ==
    ASSUME LeaseTypes, UNCHANGED leaseVars
    PROVE  LeaseTypes'
BY DEF LeaseTypes, leaseVars

\* A step that leaves the other tables alone keeps theirs.
LEMMA TableFrame ==
    ASSUME TableTypes,
           UNCHANGED <<nextId, incoming, body, sequence, outgoing, deadLetters, counter>>
    PROVE  TableTypes'
BY DEF TableTypes

\* A step that leaves the processes where they are keeps theirs.
LEMMA ProcessFrame ==
    ASSUME ProcessTypes, UNCHANGED <<open, rowLock, claim, workerVars, vacVars>>
    PROVE  ProcessTypes'
BY DEF ProcessTypes, workerVars, vacVars

\* A step that leaves the history alone keeps its types.
LEMMA HistoryFrame ==
    ASSUME HistoryTypes,
           UNCHANGED <<commitVars, sequenced, handled, refused, faults>>
    PROVE  HistoryTypes'
BY DEF HistoryTypes, commitVars

(* The initial state, and what each part of the invariant depends on. *)

\* The invariant holds of empty tables.
LEMMA InitInv == Init => IndInv
<1> SUFFICES ASSUME Init PROVE IndInv
  OBVIOUS
<1> USE BoundAssumption DEF Init
<1>1. TypeOK
  <2>1. TableTypes
    BY DEF TableTypes, Seqs
  <2>2. LeaseTypes
    BY DEF LeaseTypes
  <2>3. ProcessTypes
    BY DEF ProcessTypes
  <2>4. HistoryTypes
    BY DEF HistoryTypes
  <2> QED
    BY <2>1, <2>2, <2>3, <2>4 DEF TypeOK
<1>2. BodiesOf({}) = {} /\ SeqsOf({}) = {} /\ Committed = {}
  BY DEF BodiesOf, SeqsOf, Committed
<1>3. CountInv
  BY <1>2, FS_EmptySet DEF CountInv
<1>4. SeqInv
  BY <1>2, <1>3 DEF SeqInv, ProducerInv, ClaimInv, OvertakeInv, SequencedOnce, FifoOrder, Ids
<1>5. RowInv
  BY <1>2 DEF RowInv, OutgoingInv, BodiesAccounted
<1>6. DeliveryInv
  BY DEF DeliveryInv, CursorInv, BatchInv, BatchOK, NothingSkipped, DeadLetterOnce,
         OrderedDelivery, Remaining, Seqs
<1> QED
  BY <1>1, <1>4, <1>5, <1>6 DEF IndInv

\* A step that touches neither incoming nor the sequencers keeps SeqInv.
LEMMA SeqFrame ==
    ASSUME SeqInv,
           UNCHANGED <<nextId, incoming, sequence, open, rowLock, claim,
                       commits, committedAt, sequenced>>
    PROVE  SeqInv'
BY DEF SeqInv, ProducerInv, ClaimInv, OvertakeInv, CountInv, SequencedOnce,
       FifoOrder, Committed, SeqsOf, BodiesOf, Ids

\* A step that adds or deletes no row keeps RowInv.
LEMMA RowFrame ==
    ASSUME RowInv,
           UNCHANGED <<outgoing, body, incoming, sequence, processedSeq, sequenced>>
    PROVE  RowInv'
BY DEF RowInv, OutgoingInv, BodiesAccounted, SeqsOf, BodiesOf

\* A step that touches neither cursor nor workers keeps DeliveryInv.
LEMMA DeliveryFrame ==
    ASSUME DeliveryInv,
           UNCHANGED <<processedSeq, sequence, vpc, upto, chunk, lockedBy, wpc, batch,
                       cursor, rejected, deadLetters, handled, refused>>
    PROVE  DeliveryInv'
BY DEF DeliveryInv, CursorInv, BatchInv, BatchOK, NothingSkipped, DeadLetterOnce,
       OrderedDelivery, Remaining, Seqs

-----------------------------------------------------------------------------
(* Producers *)

\* INSERT in an open transaction: the id is fresh and nobody sees it.
LEMMA EnqueueStep ==
    ASSUME IndInv, NEW p \in Producers, Enqueue(p)
    PROVE  IndInv'
<1> USE BoundAssumption DEF Enqueue, leaseVars, workerVars, vacVars, commitVars
<1>0. TableTypes /\ LeaseTypes /\ ProcessTypes /\ HistoryTypes
  BY DEF IndInv, TypeOK
<1>1. TypeOK'
  <2>1. TableTypes' /\ ProcessTypes'
    BY <1>0 DEF TableTypes, ProcessTypes, Ids
  <2> QED
    BY <1>0, <2>1, LeaseFrame, HistoryFrame DEF TypeOK
<1>2. SeqInv'
  <2>1. Committed' = Committed
    BY DEF Committed
  <2>2. ProducerInv'
    <3>1. nextId \in Nat /\ \A i \in Ids : i \in Nat
      BY <1>0 DEF TableTypes, Ids
    <3>2. \A q \in Producers : open[q] \subseteq Ids
      BY <1>0 DEF ProcessTypes
    <3>3. \A i \in Committed : i \in Ids /\ i < nextId
      BY DEF IndInv, SeqInv, ProducerInv, Committed
    <3>4. \A q \in Producers : \A i \in open[q] : i < nextId /\ i \notin Committed
      BY DEF IndInv, SeqInv, ProducerInv
    <3>5. \A q \in Producers : open'[q] = IF q = p THEN open[p] \cup {nextId} ELSE open[q]
      BY <1>0 DEF ProcessTypes
    <3>6. \A q \in Producers : \A i \in open'[q] : i < nextId' /\ i \notin Committed'
      BY <2>1, <3>1, <3>2, <3>3, <3>4, <3>5
    <3>7. \A q, r \in Producers : q # r => open'[q] \cap open'[r] = {}
      BY <3>1, <3>2, <3>4, <3>5 DEF IndInv, SeqInv, ProducerInv
    <3>8. \A i \in Committed' : i < nextId'
      BY <2>1, <3>1, <3>3
    <3> QED
      BY <3>6, <3>7, <3>8 DEF IndInv, SeqInv, ProducerInv
  <2>3. (ClaimInv /\ OvertakeInv /\ CountInv /\ SequencedOnce /\ FifoOrder)'
    BY <2>1 DEF IndInv, SeqInv, ClaimInv, OvertakeInv, CountInv, SequencedOnce, FifoOrder,
           SeqsOf, BodiesOf
  <2> QED
    BY <2>2, <2>3 DEF SeqInv
<1>3. RowInv' /\ DeliveryInv'
  BY RowFrame, DeliveryFrame DEF IndInv
<1> QED
  BY <1>1, <1>2, <1>3 DEF IndInv

\* COMMIT: the new rows are the latest, so they overtake nothing.
LEMMA CommitEnqueueStep ==
    ASSUME IndInv, NEW p \in Producers, CommitEnqueue(p)
    PROVE  IndInv'
<1> USE BoundAssumption DEF CommitEnqueue, leaseVars, workerVars, vacVars, commitVars
<1>0. TableTypes /\ LeaseTypes /\ ProcessTypes /\ HistoryTypes
  BY DEF IndInv, TypeOK
<1>1. TypeOK'
  <2>1. TableTypes'
    BY <1>0 DEF TableTypes, ProcessTypes
  <2>2. ProcessTypes'
    BY <1>0 DEF ProcessTypes
  <2>3. HistoryTypes'
    BY <1>0 DEF HistoryTypes
  <2> QED
    BY <1>0, <2>1, <2>2, <2>3, LeaseFrame DEF TypeOK
<1>2. Committed' = Committed \cup open[p]
  BY <1>0 DEF HistoryTypes, ProcessTypes, Committed
<1>3. \A i \in open[p] : i \in Ids /\ i \notin Committed /\ committedAt'[i] = commits + 1
  BY DEF IndInv, TypeOK, TableTypes, ProcessTypes, HistoryTypes, SeqInv, ProducerInv
<1>4. \A i \in Ids \ open[p] : committedAt'[i] = committedAt[i]
  OBVIOUS
<1>5. \A i \in Ids : committedAt[i] \in Nat /\ committedAt[i] <= commits /\ commits \in Nat
  BY DEF IndInv, TypeOK, TableTypes, ProcessTypes, HistoryTypes, SeqInv, ProducerInv
<1>6. SeqInv'
  <2>1. ProducerInv'
    BY <1>2, <1>3, <1>4, <1>5 DEF IndInv, TypeOK, TableTypes, ProcessTypes, HistoryTypes, SeqInv, ProducerInv
  <2>2. ClaimInv'
    BY DEF IndInv, SeqInv, ClaimInv
  <2>3. CountInv' /\ SequencedOnce'
    BY <1>2, <1>3 DEF IndInv, SeqInv, CountInv, SequencedOnce, SeqsOf, BodiesOf
  <2>4. \A r \in sequenced : r.body_id \in Ids /\ r.body_id \notin open[p]
    BY <1>3 DEF IndInv, TypeOK, TableTypes, ProcessTypes, HistoryTypes, SeqInv, SequencedOnce, BodiesOf, Rows
  <2>5. \A j \in incoming : j \in Ids /\ j \notin open[p]
    BY <1>3 DEF IndInv, TypeOK, TableTypes, ProcessTypes, HistoryTypes, SeqInv, SequencedOnce
  <2>6. FifoOrder'
    BY <1>4, <2>4 DEF IndInv, SeqInv, FifoOrder
  <2>7. ASSUME NEW r \in sequenced, NEW j \in incoming', j < r.body_id
        PROVE  committedAt'[j] > committedAt'[r.body_id]
    BY <1>3, <1>4, <1>5, <2>4, <2>5, <2>7 DEF IndInv, SeqInv, OvertakeInv
  <2>8. ASSUME NEW s \in Sequencers, NEW i \in claim[s], NEW j \in incoming' \ claim[s], j < i
        PROVE  committedAt'[j] > committedAt'[i]
    BY <1>3, <1>4, <1>5, <2>5, <2>8 DEF IndInv, SeqInv, OvertakeInv, ClaimInv
  <2>9. OvertakeInv'
    BY <2>7, <2>8 DEF OvertakeInv
  <2> QED
    BY <2>1, <2>2, <2>3, <2>6, <2>9 DEF SeqInv
<1>7. RowInv'
  BY DEF IndInv, RowInv, OutgoingInv, BodiesAccounted, SeqsOf, BodiesOf
<1>8. DeliveryInv'
  BY DeliveryFrame DEF IndInv
<1> QED
  BY <1>1, <1>6, <1>7, <1>8 DEF IndInv

\* ROLLBACK: the ids are gone for good.
LEMMA RollbackEnqueueStep ==
    ASSUME IndInv, NEW p \in Producers, RollbackEnqueue(p)
    PROVE  IndInv'
<1> USE DEF RollbackEnqueue, dbVars, leaseVars, workerVars, vacVars, commitVars
<1>0. TableTypes /\ LeaseTypes /\ ProcessTypes /\ HistoryTypes
  BY DEF IndInv, TypeOK
<1>1. TypeOK'
  <2>1. ProcessTypes'
    BY <1>0 DEF ProcessTypes
  <2> QED
    BY <1>0, <2>1, TableFrame, LeaseFrame, HistoryFrame DEF TypeOK
<1>2. SeqInv'
  BY DEF IndInv, TypeOK, TableTypes, ProcessTypes, HistoryTypes, SeqInv, ProducerInv, ClaimInv, OvertakeInv, CountInv,
         SequencedOnce, FifoOrder, Committed, SeqsOf, BodiesOf
<1>3. RowInv' /\ DeliveryInv'
  BY RowFrame, DeliveryFrame DEF IndInv
<1> QED
  BY <1>1, <1>2, <1>3 DEF IndInv

-----------------------------------------------------------------------------
(* Sequencers *)

\* The claim takes the smallest ids, so what is left behind and smaller
\* can only be committed later.
LEMMA SeqClaimStep ==
    ASSUME IndInv, NEW s \in Sequencers, SeqClaim(s)
    PROVE  IndInv'
<1> USE DEF SeqClaim, dbVars, leaseVars, workerVars, vacVars, commitVars
<1> DEFINE C == FirstN(incoming, SeqBatch)
<1>0. TableTypes /\ LeaseTypes /\ ProcessTypes /\ HistoryTypes
  BY DEF IndInv, TypeOK
<1>1. /\ C \subseteq incoming
      /\ \A x \in C, y \in incoming : y < x => y \in C
  <2>1. incoming \subseteq 1..MaxMsgs
    BY <1>0 DEF TableTypes, Ids
  <2> QED
    BY <2>1, FirstNPrefix, BatchAssumption
<1>2. TypeOK'
  <2>1. ProcessTypes'
    <3>1. C \subseteq Ids
      BY <1>0, <1>1 DEF TableTypes
    <3> QED
      BY <1>0, <3>1 DEF ProcessTypes
  <2> QED
    BY <1>0, <2>1, TableFrame, LeaseFrame, HistoryFrame DEF TypeOK
<1>3. \A t \in Sequencers : claim[t] = {}
  BY NoOneAssumption DEF IndInv, SeqInv, ClaimInv
<1>4. \A t \in Sequencers : claim'[t] = IF t = s THEN C ELSE {}
  BY <1>0, <1>3 DEF ProcessTypes
<1>5. SeqInv'
  <2>1. Committed' = Committed
    BY DEF Committed
  <2>2. ProducerInv' /\ CountInv' /\ SequencedOnce' /\ FifoOrder'
    BY <2>1 DEF IndInv, SeqInv, ProducerInv, CountInv, SequencedOnce, FifoOrder, SeqsOf, BodiesOf
  <2>3. ClaimInv'
    BY <1>1, <1>4 DEF ClaimInv
  <2>4. OvertakeInv'
    BY <1>1, <1>4 DEF IndInv, SeqInv, OvertakeInv
  <2> QED
    BY <2>2, <2>3, <2>4 DEF SeqInv
<1>6. RowInv' /\ DeliveryInv'
  BY RowFrame, DeliveryFrame DEF IndInv
<1> QED
  BY <1>2, <1>5, <1>6 DEF IndInv

\* The hand-over to outgoing: fresh consecutive seqs, in id order.
LEMMA SeqCommitStep ==
    ASSUME IndInv, NEW s \in Sequencers, SeqCommit(s)
    PROVE  IndInv'
<1> USE DEF leaseVars, workerVars, vacVars, commitVars
<1> DEFINE C == claim[s]
           n == Cardinality(C)
<1>0. TableTypes /\ LeaseTypes /\ ProcessTypes /\ HistoryTypes
  BY DEF IndInv, TypeOK
<1>1. PICK f \in Numbering(C, sequence) :
         LET rows == {[seq |-> f[i], body_id |-> i] : i \in C}
         IN  outgoing' = outgoing \cup rows /\ sequenced' = sequenced \cup rows
  BY DEF SeqCommit
<1> DEFINE R == {[seq |-> f[i], body_id |-> i] : i \in C}
<1>2. outgoing' = outgoing \cup R /\ sequenced' = sequenced \cup R
  BY <1>1
<1>3. /\ C \subseteq incoming /\ C \subseteq Ids /\ C # {}
      /\ C \cap BodiesOf(sequenced) = {}
      /\ \A t \in Sequencers : t # s => claim[t] = {}
  BY <1>0 DEF TableTypes, ProcessTypes, SeqCommit, IndInv, SeqInv, ClaimInv, SequencedOnce
<1>4. sequence \in Nat /\ processedSeq \in Nat /\ n \in Nat
  <2>1. IsFiniteSet(C)
    BY <1>3, BoundedFinite DEF Ids
  <2> QED
    BY <1>0, <2>1, FS_CardinalityType, BoundAssumption DEF TableTypes, LeaseTypes
<1>5. /\ f \in [C -> (sequence + 1)..(sequence + n)]
      /\ \A a, b \in C : f[a] = f[b] => a = b
      /\ \A q \in (sequence + 1)..(sequence + n) : \E a \in C : f[a] = q
      /\ \A a, b \in C : a < b => f[a] < f[b]
  <2> HIDE DEF C, n
  <2>1. f \in Numbering(C, sequence)
    BY <1>1
  <2> QED
    BY <1>4, <2>1, NumberingFacts DEF n
<1>6. /\ incoming' = incoming \ C
      /\ sequence' = sequence + n
      /\ rowLock' = NoOne
      /\ claim' = [claim EXCEPT ![s] = {}]
      /\ UNCHANGED <<nextId, body, processedSeq, attempts, lockedBy, lockedUntil,
                     deadLetters, counter, open, wpc, batch, cursor, rejected, vpc,
                     snapshot, upto, chunk, commits, committedAt, handled, refused, faults>>
  BY DEF SeqCommit
<1> HIDE DEF n
<1>a. \A r \in R : \E i \in C : r.seq = f[i] /\ r.body_id = i
  OBVIOUS
<1>b. \A i \in C : \E r \in R : r.seq = f[i] /\ r.body_id = i
  <2> TAKE i \in C
  <2>1. [seq |-> f[i], body_id |-> i] \in R
    OBVIOUS
  <2> QED
    BY <2>1
<1>7. BodiesOf(sequenced') = BodiesOf(sequenced) \cup C
  <2> HIDE DEF C, R
  <2>1. \A b \in BodiesOf(sequenced') : b \in BodiesOf(sequenced) \cup C
    BY <1>2, <1>a DEF BodiesOf
  <2>2. \A b \in BodiesOf(sequenced) \cup C : b \in BodiesOf(sequenced')
    BY <1>2, <1>b DEF BodiesOf
  <2> QED
    BY <2>1, <2>2
<1>8. SeqsOf(R) = (sequence + 1)..(sequence + n)
  <2> HIDE DEF C, R
  <2>1. \A q \in SeqsOf(R) : q \in (sequence + 1)..(sequence + n)
    BY <1>5, <1>a DEF SeqsOf
  <2>2. \A q \in (sequence + 1)..(sequence + n) : q \in SeqsOf(R)
    BY <1>5, <1>b DEF SeqsOf
  <2> QED
    BY <2>1, <2>2
<1>9. CountInv'
  <2>1. BodiesOf(sequenced) \subseteq Ids
    BY <1>0 DEF HistoryTypes, Rows, BodiesOf
  <2>2. IsFiniteSet(BodiesOf(sequenced)) /\ IsFiniteSet(C)
    BY <1>3, <2>1, BoundedFinite DEF Ids
  <2>3. Cardinality(BodiesOf(sequenced) \cup C)
          = Cardinality(BodiesOf(sequenced)) + Cardinality(C) - Cardinality(BodiesOf(sequenced) \cap C)
    BY <2>2, FS_Union
  <2>4. Cardinality(BodiesOf(sequenced) \cap C) = 0
    BY <1>3, FS_EmptySet
  <2>5. Cardinality(BodiesOf(sequenced)) = sequence
    BY DEF IndInv, SeqInv, CountInv
  <2>6. Cardinality(BodiesOf(sequenced) \cup C) = sequence + n
    BY <1>4, <2>3, <2>4, <2>5 DEF n
  <2> QED
    BY <1>6, <1>7, <2>6 DEF CountInv
<1>10. sequence + n <= MaxMsgs
  <2>1. BodiesOf(sequenced') \in SUBSET (1..MaxMsgs)
    BY <1>0, <1>3, <1>7 DEF HistoryTypes, Rows, BodiesOf, Ids
  <2>2. 1 \in Int /\ MaxMsgs \in Int /\ MaxMsgs \in Nat
    BY BoundAssumption
  <2>3. IsFiniteSet(1..MaxMsgs) /\ Cardinality(1..MaxMsgs) = MaxMsgs
    <3>1. IsFiniteSet(1..MaxMsgs) /\ Cardinality(1..MaxMsgs) = IF 1 > MaxMsgs THEN 0 ELSE MaxMsgs - 1 + 1
      BY <2>2, FS_Interval
    <3> QED
      BY <2>2, <3>1
  <2>4. Cardinality(BodiesOf(sequenced')) <= MaxMsgs
    BY <2>1, <2>3, FS_Subset
  <2> QED
    BY <1>6, <1>9, <2>4 DEF CountInv
<1>11. R \subseteq Rows
  <2>1. ASSUME NEW i \in C PROVE [seq |-> f[i], body_id |-> i] \in Rows
    BY <1>3, <1>4, <1>5, <1>10, BoundAssumption DEF Rows, Seqs
  <2> QED
    BY <2>1
<1> HIDE DEF C, R
<1>12. TypeOK'
  <2>1. TableTypes'
    BY <1>0, <1>2, <1>4, <1>6, <1>10, <1>11 DEF TableTypes
  <2>2. ProcessTypes'
    BY <1>0, <1>6 DEF ProcessTypes
  <2>3. HistoryTypes'
    BY <1>0, <1>2, <1>6, <1>11 DEF HistoryTypes
  <2>4. LeaseTypes'
    BY <1>0, <1>6, LeaseFrame
  <2> QED
    BY <2>1, <2>2, <2>3, <2>4 DEF TypeOK
<1>13. \A r \in sequenced : r.seq \in 1..sequence /\ r.body_id \in Ids \ C
  <2>1. \A r \in sequenced : r.seq \in SeqsOf(sequenced) /\ r.body_id \in BodiesOf(sequenced)
    BY DEF SeqsOf, BodiesOf
  <2>2. SeqsOf(sequenced) = 1..sequence
    BY DEF IndInv, SeqInv, SequencedOnce
  <2>3. \A r \in sequenced : r.body_id \in Ids
    BY <1>0 DEF HistoryTypes, Rows
  <2> QED
    BY <1>3, <2>1, <2>2, <2>3
<1>14. \A r \in R : r.seq \in Nat /\ r.seq > sequence /\ r.body_id \in C
  BY <1>4, <1>5, <1>a
<1>15. \A t \in Sequencers : claim'[t] = {}
  BY <1>0, <1>3, <1>6 DEF ProcessTypes
<1>16. Committed' = Committed
  BY <1>6 DEF Committed
<1>17. \A i \in Ids : committedAt[i] \in Nat
  BY <1>0 DEF HistoryTypes
<1>18. SequencedOnce'
  <2>1. ASSUME NEW r1 \in sequenced', NEW r2 \in sequenced',
               r1.seq = r2.seq \/ r1.body_id = r2.body_id
        PROVE  r1 = r2
    <3>1. CASE r1 \in sequenced /\ r2 \in sequenced
      BY <2>1, <3>1 DEF IndInv, SeqInv, SequencedOnce
    <3>2. CASE r1 \in R /\ r2 \in R
      <4>1. PICK i \in C : r1.seq = f[i] /\ r1.body_id = i
        BY <1>a, <3>2
      <4>2. PICK j \in C : r2.seq = f[j] /\ r2.body_id = j
        BY <1>a, <3>2
      <4>3. i = j
        BY <1>5, <2>1, <4>1, <4>2
      <4> QED
        BY <3>2, <4>1, <4>2, <4>3, <1>11 DEF Rows
    <3>3. CASE r1 \in sequenced /\ r2 \in R
      BY <1>4, <1>13, <1>14, <2>1, <3>3
    <3>4. CASE r1 \in R /\ r2 \in sequenced
      BY <1>4, <1>13, <1>14, <2>1, <3>4
    <3> QED
      BY <1>2, <3>1, <3>2, <3>3, <3>4
  <2>2. SeqsOf(sequenced') = 1..sequence'
    <3>1. SeqsOf(sequenced') = SeqsOf(sequenced) \cup SeqsOf(R)
      BY <1>2 DEF SeqsOf
    <3>2. SeqsOf(sequenced) = 1..sequence
      BY DEF IndInv, SeqInv, SequencedOnce
    <3>3. \A q : q \in (1..sequence) \cup ((sequence + 1)..(sequence + n)) <=> q \in 1..(sequence + n)
      BY <1>4
    <3> QED
      BY <1>6, <1>8, <3>1, <3>2, <3>3
  <2>3. Committed = incoming \cup BodiesOf(sequenced) /\ incoming \cap BodiesOf(sequenced) = {}
    BY DEF IndInv, SeqInv, SequencedOnce
  <2>4. Committed' = incoming' \cup BodiesOf(sequenced')
    BY <1>3, <1>6, <1>7, <1>16, <2>3
  <2>5. incoming' \cap BodiesOf(sequenced') = {}
    BY <1>3, <1>6, <1>7, <2>3
  <2>6. \A r1, r2 \in sequenced' :
           r1.seq = r2.seq \/ r1.body_id = r2.body_id => r1 = r2
    BY <2>1
  <2>7. BodiesOf(sequenced)' = BodiesOf(sequenced') /\ SeqsOf(sequenced)' = SeqsOf(sequenced')
    BY DEF BodiesOf, SeqsOf
  <2> QED
    BY <2>2, <2>4, <2>5, <2>6, <2>7 DEF SequencedOnce
<1>19. FifoOrder'
  <2>1. ASSUME NEW r1 \in sequenced', NEW r2 \in sequenced',
               r1.body_id < r2.body_id,
               committedAt[r1.body_id] <= committedAt[r2.body_id]
        PROVE  r1.seq < r2.seq
    <3>1. CASE r1 \in sequenced /\ r2 \in sequenced
      BY <2>1, <3>1 DEF IndInv, SeqInv, FifoOrder
    <3>2. CASE r1 \in R /\ r2 \in R
      <4>1. PICK i \in C : r1.seq = f[i] /\ r1.body_id = i
        BY <1>a, <3>2
      <4>2. PICK j \in C : r2.seq = f[j] /\ r2.body_id = j
        BY <1>a, <3>2
      <4> QED
        BY <1>5, <2>1, <4>1, <4>2
    <3>3. CASE r1 \in sequenced /\ r2 \in R
      BY <1>4, <1>13, <1>14, <3>3
    <3>4. CASE r1 \in R /\ r2 \in sequenced
      <4>1. r1.body_id \in incoming /\ r1.body_id \in Ids /\ r2.body_id \in Ids
        BY <1>3, <1>13, <1>14, <3>4
      <4>2. committedAt[r1.body_id] > committedAt[r2.body_id]
        BY <2>1, <3>4, <4>1 DEF IndInv, SeqInv, OvertakeInv
      <4> QED
        BY <1>17, <2>1, <4>1, <4>2
    <3> QED
      BY <1>2, <3>1, <3>2, <3>3, <3>4
  <2> QED
    BY <1>6, <2>1 DEF FifoOrder
<1>20. OvertakeInv'
  <2>1. ASSUME NEW r \in sequenced', NEW j \in incoming', j < r.body_id
        PROVE  committedAt[j] > committedAt[r.body_id]
    <3>1. CASE r \in sequenced
      BY <1>6, <2>1, <3>1 DEF IndInv, SeqInv, OvertakeInv
    <3>2. CASE r \in R
      BY <1>6, <1>14, <2>1, <3>2 DEF IndInv, SeqInv, OvertakeInv, C
    <3> QED
      BY <1>2, <3>1, <3>2
  <2> QED
    BY <1>6, <1>15, <2>1 DEF OvertakeInv
<1>21. SeqInv'
  <2>1. ProducerInv'
    BY <1>6, <1>16 DEF IndInv, SeqInv, ProducerInv
  <2>2. ClaimInv'
    BY <1>15 DEF ClaimInv
  <2> QED
    BY <1>9, <1>18, <1>19, <1>20, <2>1, <2>2 DEF SeqInv
<1>22. RowInv'
  <2>1. outgoing' \subseteq sequenced'
    BY <1>2 DEF IndInv, RowInv, OutgoingInv
  <2>2. SeqsOf(outgoing') = SeqsOf(outgoing) \cup SeqsOf(R)
    BY <1>2 DEF SeqsOf
  <2>3. ASSUME NEW q \in (processedSeq + 1)..(sequence + n)
        PROVE  q \in SeqsOf(outgoing')
    <3>1. CASE q \in (processedSeq + 1)..sequence
      BY <2>2, <3>1 DEF IndInv, RowInv, OutgoingInv
    <3>2. CASE q \in (sequence + 1)..(sequence + n)
      BY <1>8, <2>2, <3>2
    <3> QED
      BY <1>4, <3>1, <3>2
  <2>4. OutgoingInv'
    <3>1. SeqsOf(outgoing)' = SeqsOf(outgoing')
      BY DEF SeqsOf
    <3> QED
      BY <1>6, <2>1, <2>3, <3>1 DEF OutgoingInv
  <2>5. BodiesAccounted'
    <3>1. BodiesOf(outgoing') = BodiesOf(outgoing) \cup BodiesOf(R)
      BY <1>2 DEF BodiesOf
    <3>2. BodiesOf(R) = C
      BY <1>a, <1>b DEF BodiesOf
    <3>3. BodiesOf(outgoing)' = BodiesOf(outgoing')
      BY DEF BodiesOf
    <3> QED
      BY <1>3, <1>6, <3>1, <3>2, <3>3 DEF IndInv, RowInv, BodiesAccounted
  <2> QED
    BY <2>4, <2>5 DEF RowInv
<1>23. DeliveryInv'
  <2>1. sequence <= sequence' /\ sequence' \in Nat
    BY <1>4, <1>6
  <2>2. CursorInv'
    BY <1>4, <1>6 DEF IndInv, DeliveryInv, CursorInv
  <2>3. BatchInv'
    <3>1. \A w \in Workers : \A b \in batch[w] : b <= sequence'
      <4>1. \A w \in Workers : \A b \in batch[w] : b \in Nat /\ b <= sequence
        BY <1>0, BoundAssumption DEF ProcessTypes, Seqs, IndInv, DeliveryInv, BatchInv, BatchOK
      <4> QED
        BY <1>4, <1>6, <4>1
    <3> QED
      BY <1>6, <3>1 DEF IndInv, DeliveryInv, BatchInv, BatchOK, Remaining
  <2>4. NothingSkipped' /\ DeadLetterOnce' /\ OrderedDelivery'
    BY <1>6 DEF IndInv, DeliveryInv, NothingSkipped, DeadLetterOnce, OrderedDelivery
  <2> QED
    BY <2>2, <2>3, <2>4 DEF DeliveryInv
<1> QED
  BY <1>12, <1>21, <1>22, <1>23 DEF IndInv

\* A rolled back claim leaves incoming as it was.
LEMMA SeqAbortStep ==
    ASSUME IndInv, NEW s \in Sequencers, SeqAbort(s)
    PROVE  IndInv'
<1> USE DEF SeqAbort, dbVars, leaseVars, workerVars, vacVars, commitVars
<1>0. TableTypes /\ LeaseTypes /\ ProcessTypes /\ HistoryTypes
  BY DEF IndInv, TypeOK
<1>1. TypeOK'
  <2>1. ProcessTypes'
    BY <1>0 DEF ProcessTypes
  <2>2. HistoryTypes'
    BY <1>0, BoundAssumption DEF HistoryTypes, Fault
  <2> QED
    BY <1>0, <2>1, <2>2, TableFrame, LeaseFrame DEF TypeOK
<1>2. \A t \in Sequencers : claim'[t] = {}
  BY <1>0 DEF ProcessTypes, IndInv, SeqInv, ClaimInv
<1>3. SeqInv'
  <2>1. ProducerInv' /\ CountInv' /\ SequencedOnce' /\ FifoOrder'
    BY DEF IndInv, SeqInv, ProducerInv, CountInv, SequencedOnce, FifoOrder, SeqsOf,
           BodiesOf, Committed
  <2>2. ClaimInv' /\ OvertakeInv'
    BY <1>2 DEF IndInv, SeqInv, ClaimInv, OvertakeInv
  <2> QED
    BY <2>1, <2>2 DEF SeqInv
<1>4. RowInv' /\ DeliveryInv'
  BY RowFrame, DeliveryFrame DEF IndInv
<1> QED
  BY <1>1, <1>3, <1>4 DEF IndInv

-----------------------------------------------------------------------------
(* Processors *)

\* What others do to a worker's batch: the cursor and the history grow, and the
\* cursor stands still for the holder of the lease.
LEMMA BatchKept ==
    ASSUME NEW u \in Workers, BatchOK(u), batch[u] \subseteq Seqs,
           processedSeq \in Nat, processedSeq' \in Nat, processedSeq <= processedSeq',
           sequence' = sequence, handled \subseteq handled', refused \subseteq refused',
           batch'[u] = batch[u], cursor'[u] = cursor[u], rejected'[u] = rejected[u],
           wpc'[u] = wpc[u],
           lockedBy' = u => lockedBy = u /\ processedSeq' = processedSeq
    PROVE  BatchOK(u)'
<1>1. \A b \in batch[u] : b \in Nat
  BY BoundAssumption DEF Seqs
<1>2. \A b \in batch[u] : \A t \in 1..b : t \in batch[u] \/ t <= processedSeq'
  BY <1>1 DEF BatchOK
<1> QED
  BY <1>2 DEF BatchOK, Remaining

\* A worker between passes has no batch.
LEMMA BatchDropped ==
    ASSUME NEW u \in Workers, batch'[u] = {}, cursor'[u] = 0, rejected'[u] = {},
           wpc'[u] = "idle"
    PROVE  BatchOK(u)'
BY DEF BatchOK

\* Everything the cursor has passed was handled or refused.
LEMMA PassedSettled ==
    ASSUME IndInv, NEW t \in 1..processedSeq
    PROVE  t \in handled \cup refused
<1>1. processedSeq \in 0..MaxMsgs /\ deadLetters \in [Seqs -> Nat]
  BY DEF IndInv, TypeOK, LeaseTypes, TableTypes
<1>2. t \in Seqs
  BY <1>1, BoundAssumption DEF Seqs
<1>3. deadLetters[t] \in Nat /\ deadLetters[t] <= 1 /\ (deadLetters[t] = 1 => t \in refused)
  BY <1>1, <1>2 DEF IndInv, DeliveryInv, DeadLetterOnce
<1> QED
  BY <1>3 DEF IndInv, DeliveryInv, NothingSkipped

\* So was everything before a message of a batch that next_msg has handed out.
LEMMA BatchSettled ==
    ASSUME IndInv, NEW w \in Workers, NEW b \in batch[w], NEW t \in 1..b
    PROVE  t \in handled \cup refused \/ t \in Remaining(w)
<1>1. batch[w] \subseteq Seqs /\ cursor[w] \in Nat /\ processedSeq \in Nat
  BY BoundAssumption DEF IndInv, TypeOK, ProcessTypes, LeaseTypes
<1>2. b \in Nat /\ t \in Nat
  BY <1>1, BoundAssumption DEF Seqs
<1>3. BatchOK(w)
  BY DEF IndInv, DeliveryInv, BatchInv
<1>4. CASE t \in batch[w]
  BY <1>1, <1>2, <1>3, <1>4 DEF BatchOK, Remaining
<1>5. CASE t <= processedSeq
  BY <1>1, <1>2, <1>5, PassedSettled
<1> QED
  BY <1>3, <1>4, <1>5 DEF BatchOK

\* The batch read under a fresh lease starts right after the cursor.
LEMMA AcquireStep ==
    ASSUME IndInv, NEW w \in Workers, Acquire(w)
    PROVE  IndInv'
<1> USE DEF vacVars, commitVars
<1> DEFINE S == {q \in SeqsOf(outgoing) : q > processedSeq}
           F == FirstN(S, MsgBatch)
<1>0. TableTypes /\ LeaseTypes /\ ProcessTypes /\ HistoryTypes
  BY DEF IndInv, TypeOK
<1>1. /\ batch' = [batch EXCEPT ![w] = F]
      /\ wpc' = [wpc EXCEPT ![w] = IF F = {} THEN "empty" ELSE "handling"]
      /\ wpc[w] = "idle" /\ lockedBy' = w /\ lockedUntil' = "future"
      /\ attempts' = attempts + 1
      /\ UNCHANGED <<nextId, incoming, body, sequence, outgoing, processedSeq,
                     deadLetters, counter, open, rowLock, claim, cursor, rejected,
                     vpc, snapshot, upto, chunk, commits, committedAt, sequenced, handled,
                     refused, faults>>
  BY DEF Acquire, Readable
<1>2. sequence \in Nat /\ processedSeq \in Nat /\ sequence <= MaxMsgs
  BY <1>0, BoundAssumption DEF TableTypes, LeaseTypes
<1>3. \A q \in SeqsOf(outgoing) : q \in 1..sequence
  <2>1. \A r \in outgoing : r.seq \in SeqsOf(sequenced)
    BY DEF IndInv, RowInv, OutgoingInv, SeqsOf
  <2>2. SeqsOf(sequenced) = 1..sequence
    BY DEF IndInv, SeqInv, SequencedOnce
  <2> QED
    BY <2>1, <2>2 DEF SeqsOf
<1>4. /\ F \subseteq S
      /\ \A x \in F, y \in S : y < x => y \in F
  <2>1. \A q \in S : q \in 1..MaxMsgs
    BY <1>2, <1>3, BoundAssumption
  <2>2. S \subseteq 1..MaxMsgs
    BY <2>1
  <2> HIDE DEF S
  <2> QED
    BY <2>2, FirstNPrefix, BatchAssumption
<1> HIDE DEF F
<1>5. \A b \in F : b \in 1..sequence /\ b > processedSeq /\ b \in Seqs
  BY <1>2, <1>3, <1>4, BoundAssumption DEF Seqs
<1>6. TypeOK'
  <2>1. LeaseTypes'
    BY <1>0, <1>1, NoOneAssumption DEF LeaseTypes
  <2>2. ProcessTypes'
    BY <1>0, <1>1, <1>5 DEF ProcessTypes
  <2> QED
    BY <1>0, <1>1, <2>1, <2>2, TableFrame, HistoryFrame DEF TypeOK
<1>7. BatchOK(w)
  BY DEF IndInv, DeliveryInv, BatchInv
<1>8. batch[w] = {} /\ cursor[w] = 0 /\ rejected[w] = {}
  BY <1>1, <1>7 DEF BatchOK
<1>9. batch'[w] = F /\ cursor'[w] = 0 /\ rejected'[w] = {}
      /\ (F = {} => wpc'[w] = "empty") /\ (F # {} => wpc'[w] = "handling")
  BY <1>0, <1>1, <1>8 DEF ProcessTypes
<1>10. BatchOK(w)'
  <2>1. ASSUME NEW b \in F, NEW t \in 1..b
        PROVE  t \in F \/ t <= processedSeq
    <3>1. CASE t > processedSeq
      <4>1. t \in (processedSeq + 1)..sequence
        BY <1>2, <1>5, <3>1
      <4>2. t \in SeqsOf(outgoing)
        BY <4>1 DEF IndInv, RowInv, OutgoingInv
      <4>3. t \in S
        BY <3>1, <4>2
      <4>4. t = b \/ t < b
        BY <1>5
      <4> QED
        BY <1>4, <4>3, <4>4
    <3> QED
      BY <1>2, <1>5, <3>1
  <2>2. \A b \in F : b <= sequence /\ b > processedSeq /\ ~(b <= 0)
    BY <1>2, <1>5
  <2> QED
    BY <1>1, <1>9, <2>1, <2>2 DEF BatchOK
<1>11. ASSUME NEW u \in Workers, u # w PROVE BatchOK(u)'
  <2>1. BatchOK(u) /\ batch[u] \subseteq Seqs
    BY <1>0 DEF IndInv, DeliveryInv, BatchInv, ProcessTypes
  <2>2. batch'[u] = batch[u] /\ wpc'[u] = wpc[u]
    BY <1>0, <1>1, <1>11 DEF ProcessTypes
  <2> QED
    BY <1>1, <1>2, <1>11, <2>1, <2>2, BatchKept
<1>12. DeliveryInv'
  <2>1. BatchInv'
    BY <1>10, <1>11 DEF BatchInv
  <2> QED
    BY <1>1, <2>1 DEF IndInv, DeliveryInv, CursorInv, NothingSkipped, DeadLetterOnce,
                      OrderedDelivery
<1>13. SeqInv' /\ RowInv'
  BY <1>1, SeqFrame, RowFrame DEF IndInv
<1> QED
  BY <1>6, <1>12, <1>13 DEF IndInv

\* A pass that ends without moving the cursor, and gives the lease up or not.
LEMMA PassEnds ==
    ASSUME IndInv, NEW w \in Workers, EndPass(w),
           LeaseTypes', HistoryTypes', lockedBy' \in {lockedBy, NoOne},
           UNCHANGED <<nextId, incoming, body, sequence, outgoing, processedSeq,
                       deadLetters, counter, open, rowLock, claim, vacVars,
                       commitVars, sequenced, handled, refused>>
    PROVE  IndInv'
<1> USE DEF vacVars, commitVars, EndPass
<1>0. TableTypes /\ LeaseTypes /\ ProcessTypes /\ HistoryTypes
  BY DEF IndInv, TypeOK
<1>1. TypeOK'
  <2>1. ProcessTypes'
    BY <1>0, BoundAssumption DEF ProcessTypes
  <2> QED
    BY <1>0, <2>1, TableFrame DEF TypeOK
<1>2. BatchInv'
  <2>1. ASSUME NEW u \in Workers PROVE BatchOK(u)'
    <3>1. CASE u = w
      BY <1>0, <3>1, BatchDropped DEF ProcessTypes
    <3>2. CASE u # w
      <4>1. BatchOK(u) /\ batch[u] \subseteq Seqs /\ processedSeq \in Nat
        BY <1>0, BoundAssumption DEF IndInv, DeliveryInv, BatchInv, ProcessTypes, LeaseTypes
      <4>2. batch'[u] = batch[u] /\ wpc'[u] = wpc[u] /\ cursor'[u] = cursor[u]
            /\ rejected'[u] = rejected[u]
        BY <1>0, <3>2 DEF ProcessTypes
      <4>3. lockedBy' = u => lockedBy = u
        BY NoOneAssumption
      <4> QED
        BY <4>1, <4>2, <4>3, BatchKept
    <3> QED
      BY <3>1, <3>2
  <2> QED
    BY <2>1 DEF BatchInv
<1>3. DeliveryInv'
  BY <1>2 DEF IndInv, DeliveryInv, CursorInv, NothingSkipped, DeadLetterOnce, OrderedDelivery
<1>4. SeqInv' /\ RowInv'
  BY SeqFrame, RowFrame DEF IndInv
<1> QED
  BY <1>1, <1>3, <1>4 DEF IndInv

\* An empty pass gives the lease back.
LEMMA ReleaseEmptyStep ==
    ASSUME IndInv, NEW w \in Workers, ReleaseEmpty(w)
    PROVE  IndInv'
<1>0. LeaseTypes /\ HistoryTypes
  BY DEF IndInv, TypeOK
<1>1. LeaseTypes' /\ lockedBy' \in {lockedBy, NoOne}
  BY <1>0 DEF ReleaseEmpty, LeaseRelease, Unlock, LeaseTypes
<1>2. HistoryTypes'
  BY <1>0, HistoryFrame DEF ReleaseEmpty
<1> QED
  BY <1>1, <1>2, PassEnds DEF ReleaseEmpty

\* A worker that stops leaves its lease and the cursor behind.
LEMMA WorkerStopsStep ==
    ASSUME IndInv, NEW w \in Workers, WorkerStops(w)
    PROVE  IndInv'
<1>0. LeaseTypes /\ HistoryTypes
  BY DEF IndInv, TypeOK
<1>1. LeaseTypes' /\ lockedBy' = lockedBy
  BY <1>0, LeaseFrame DEF WorkerStops, dbVars, leaseVars
<1>2. HistoryTypes'
  BY <1>0, BoundAssumption DEF WorkerStops, HistoryTypes, Fault, commitVars
<1> QED
  BY <1>1, <1>2, PassEnds DEF WorkerStops, dbVars

\* A step of the handler: the worker's own batch, and the history.
LEMMA HandlerMoves ==
    ASSUME IndInv, NEW w \in Workers, ProcessTypes', HistoryTypes', BatchOK(w)',
           OrderedDelivery',
           handled \subseteq handled', refused \subseteq refused',
           \A u \in Workers : u # w => /\ wpc'[u] = wpc[u]
                                       /\ cursor'[u] = cursor[u]
                                       /\ rejected'[u] = rejected[u],
           UNCHANGED <<dbVars, open, rowLock, claim, batch, vacVars, commitVars,
                       sequenced>>
    PROVE  IndInv'
<1> USE DEF dbVars, leaseVars, vacVars, commitVars
<1>0. TableTypes /\ LeaseTypes /\ ProcessTypes /\ HistoryTypes
  BY DEF IndInv, TypeOK
<1>1. TypeOK'
  BY <1>0, TableFrame, LeaseFrame DEF TypeOK
<1>2. ASSUME NEW u \in Workers PROVE BatchOK(u)'
  <2>1. CASE u # w
    <3>1. BatchOK(u) /\ batch[u] \subseteq Seqs /\ processedSeq \in Nat
      BY <1>0, BoundAssumption DEF IndInv, DeliveryInv, BatchInv, ProcessTypes, LeaseTypes
    <3> QED
      BY <2>1, <3>1, BatchKept
  <2> QED
    BY <2>1
<1>3. NothingSkipped' /\ DeadLetterOnce'
  BY DEF IndInv, DeliveryInv, NothingSkipped, DeadLetterOnce
<1>4. DeliveryInv'
  BY <1>2, <1>3 DEF IndInv, DeliveryInv, CursorInv, BatchInv
<1>5. SeqInv' /\ RowInv'
  BY SeqFrame, RowFrame DEF IndInv
<1> QED
  BY <1>1, <1>4, <1>5 DEF IndInv

\* Finishing the next message keeps the batch sound and the delivery in order.
LEMMA NextSettles ==
    ASSUME IndInv, NEW w \in Workers, NEW next \in batch[w], IsNext(w, next)
    PROVE  /\ next \in Seqs
           /\ \A t \in 1..(next - 1) : t \in handled \cup refused
           /\ \A t \in batch[w] : t <= next => t = next \/ t <= cursor[w]
           /\ \A t \in batch[w] : t <= cursor[w] => t <= next
           /\ cursor[w] < next
<1>1. \A t \in batch[w] : t \in Seqs /\ t \in Nat
  BY BoundAssumption DEF IndInv, TypeOK, ProcessTypes, Seqs
<1>2. cursor[w] \in Nat
  BY BoundAssumption DEF IndInv, TypeOK, ProcessTypes
<1>3. next \in Remaining(w) /\ \A t \in Remaining(w) : next <= t
  BY DEF IsNext
<1>4. cursor[w] < next
  BY <1>1, <1>2, <1>3 DEF Remaining
<1>5. \A t \in batch[w] : t <= next => t = next \/ t <= cursor[w]
  BY <1>1, <1>2, <1>3 DEF Remaining
<1>6. ASSUME NEW t \in 1..(next - 1) PROVE t \in handled \cup refused
  <2>1. next \in Nat
    BY <1>1
  <2>2. t \in 1..next /\ t < next
    BY <2>1
  <2>3. t \notin Remaining(w)
    BY <1>3, <2>1, <2>2
  <2> QED
    BY <2>2, <2>3, BatchSettled
<1> QED
  BY <1>1, <1>2, <1>4, <1>5, <1>6

\* The handler returns Ok for the next message.
LEMMA HandleOkStep ==
    ASSUME IndInv, NEW w \in Workers, HandleOk(w)
    PROVE  IndInv'
<1>0. ProcessTypes /\ HistoryTypes /\ BatchOK(w)
  BY DEF IndInv, TypeOK, DeliveryInv, BatchInv
<1>1. PICK next \in batch[w] :
         /\ IsNext(w, next)
         /\ handled' = handled \cup {next}
         /\ cursor' = [cursor EXCEPT ![w] = next]
  BY DEF HandleOk
<1>2. UNCHANGED <<dbVars, open, rowLock, claim, wpc, batch, rejected, vacVars,
                  commitVars, sequenced, refused, faults>> /\ wpc[w] = "handling"
  BY DEF HandleOk
<1>3. /\ next \in Seqs
      /\ \A t \in 1..(next - 1) : t \in handled \cup refused
      /\ \A t \in batch[w] : t <= next => t = next \/ t <= cursor[w]
      /\ cursor[w] < next
  BY <1>1, NextSettles
<1>4. HistoryTypes'
  BY <1>0, <1>1, <1>2, <1>3 DEF HistoryTypes, commitVars
<1>5. ProcessTypes'
  BY <1>0, <1>1, <1>2, <1>3, BoundAssumption DEF ProcessTypes, vacVars, Seqs
<1>6. cursor'[w] = next
  BY <1>0, <1>1 DEF ProcessTypes
<1>7. BatchOK(w)'
  <2>1. \A s \in rejected[w] : s <= next
    <3>1. \A s \in rejected[w] : s \in Nat /\ s <= cursor[w]
      BY <1>0, BoundAssumption DEF BatchOK, ProcessTypes, Seqs
    <3>2. next \in Nat /\ cursor[w] \in Nat
      BY <1>0, <1>3, BoundAssumption DEF ProcessTypes, Seqs
    <3> QED
      BY <1>3, <3>1, <3>2
  <2>2. \A s \in batch[w] : s <= next => s \in handled' \cup rejected[w]
    BY <1>0, <1>1, <1>3 DEF BatchOK
  <2> QED
    BY <1>0, <1>1, <1>2, <1>6, <2>1, <2>2 DEF BatchOK, dbVars
<1>8. OrderedDelivery'
  BY <1>1, <1>2, <1>3 DEF IndInv, DeliveryInv, OrderedDelivery
<1>9. \A u \in Workers : u # w => cursor'[u] = cursor[u]
  BY <1>0, <1>1 DEF ProcessTypes
<1> QED
  BY <1>1, <1>2, <1>4, <1>5, <1>7, <1>8, <1>9, HandlerMoves

\* The handler rejects the next message.
LEMMA HandleRejectStep ==
    ASSUME IndInv, NEW w \in Workers, HandleReject(w)
    PROVE  IndInv'
<1>0. ProcessTypes /\ HistoryTypes /\ BatchOK(w)
  BY DEF IndInv, TypeOK, DeliveryInv, BatchInv
<1>1. PICK next \in batch[w] :
         /\ IsNext(w, next)
         /\ refused' = refused \cup {next}
         /\ rejected' = [rejected EXCEPT ![w] = @ \cup {next}]
         /\ cursor' = [cursor EXCEPT ![w] = next]
  BY DEF HandleReject
<1>2. UNCHANGED <<dbVars, open, rowLock, claim, wpc, batch, vacVars,
                  commitVars, sequenced, handled, faults>> /\ wpc[w] = "handling"
  BY DEF HandleReject
<1>3. /\ next \in Seqs
      /\ \A t \in 1..(next - 1) : t \in handled \cup refused
      /\ \A t \in batch[w] : t <= next => t = next \/ t <= cursor[w]
      /\ cursor[w] < next
  BY <1>1, NextSettles
<1>4. HistoryTypes'
  BY <1>0, <1>1, <1>2, <1>3 DEF HistoryTypes, commitVars
<1>5. ProcessTypes'
  BY <1>0, <1>1, <1>2, <1>3, BoundAssumption DEF ProcessTypes, vacVars, Seqs
<1>6. cursor'[w] = next /\ rejected'[w] = rejected[w] \cup {next}
  BY <1>0, <1>1 DEF ProcessTypes
<1>7. BatchOK(w)'
  <2>1. \A s \in rejected'[w] : s <= next
    <3>1. \A s \in rejected[w] : s \in Nat /\ s <= cursor[w]
      BY <1>0, BoundAssumption DEF BatchOK, ProcessTypes, Seqs
    <3>2. next \in Nat /\ cursor[w] \in Nat
      BY <1>0, <1>3, BoundAssumption DEF ProcessTypes, Seqs
    <3> QED
      BY <1>3, <1>6, <3>1, <3>2
  <2>2. \A s \in batch[w] : s <= next => s \in handled \cup rejected'[w]
    BY <1>0, <1>3, <1>6 DEF BatchOK
  <2> QED
    BY <1>0, <1>1, <1>2, <1>6, <2>1, <2>2 DEF BatchOK, dbVars
<1>8. OrderedDelivery'
  BY <1>1, <1>2, <1>3 DEF IndInv, DeliveryInv, OrderedDelivery
<1>9. \A u \in Workers : u # w => cursor'[u] = cursor[u] /\ rejected'[u] = rejected[u]
  BY <1>0, <1>1 DEF ProcessTypes
<1> QED
  BY <1>1, <1>2, <1>4, <1>5, <1>7, <1>8, <1>9, HandlerMoves

\* The handler returns; only Reject condemns the tail.
LEMMA HandlerReturnStep ==
    ASSUME IndInv, NEW w \in Workers, HandlerReturn(w)
    PROVE  IndInv'
<1>0. ProcessTypes /\ HistoryTypes /\ BatchOK(w)
  BY DEF IndInv, TypeOK, DeliveryInv, BatchInv
<1>1. UNCHANGED <<dbVars, open, rowLock, claim, batch, cursor, rejected,
                  vacVars, commitVars, sequenced, handled>> /\ wpc[w] = "handling"
  BY DEF HandlerReturn
<1>2. PICK r \in {"Success", "Retry", "Reject"} :
         /\ wpc' = [wpc EXCEPT ![w] = r]
         /\ r # "Reject" => refused' = refused
         /\ r = "Reject" => refused' = refused \cup Remaining(w)
         /\ faults' \in {faults, faults + 1}
         /\ faults' = faults \/ faults < MaxFaults
  BY DEF HandlerReturn, Fault
<1>3. Remaining(w) \subseteq batch[w] /\ batch[w] \subseteq Seqs
  BY <1>0 DEF Remaining, ProcessTypes
<1>4. HistoryTypes'
  <2>1. faults' \in 0..MaxFaults
    BY <1>0, <1>2, BoundAssumption DEF HistoryTypes
  <2>2. refused' \subseteq Seqs
    BY <1>0, <1>2, <1>3 DEF HistoryTypes
  <2> QED
    BY <1>0, <1>1, <2>1, <2>2 DEF HistoryTypes, commitVars
<1>5. ProcessTypes'
  BY <1>0, <1>1, <1>2 DEF ProcessTypes, vacVars
<1>6. wpc'[w] = r /\ \A u \in Workers : u # w => wpc'[u] = wpc[u]
  BY <1>0, <1>2 DEF ProcessTypes
<1>7. BatchOK(w)'
  <2>1. Remaining(w)' = Remaining(w)
    BY <1>1 DEF Remaining
  <2> QED
    BY <1>0, <1>1, <1>2, <1>6, <2>1 DEF BatchOK, dbVars
<1>8. OrderedDelivery'
  <2>1. ASSUME NEW s \in handled' \cup refused', NEW t \in 1..(s - 1)
        PROVE  t \in handled' \cup refused'
    <3>1. CASE s \in handled \cup refused
      BY <1>1, <1>2, <3>1 DEF IndInv, DeliveryInv, OrderedDelivery
    <3>2. CASE r = "Reject" /\ s \in Remaining(w)
      <4>1. s \in batch[w] /\ s \in Nat
        BY <1>3, <3>2, BoundAssumption DEF Seqs
      <4>2. t \in 1..s
        BY <4>1
      <4> QED
        BY <1>1, <1>2, <3>2, <4>1, <4>2, BatchSettled
    <3> QED
      BY <1>1, <1>2, <3>1, <3>2
  <2> QED
    BY <2>1 DEF OrderedDelivery
<1>9. refused \subseteq refused'
  BY <1>2
<1> QED
  BY <1>1, <1>4, <1>5, <1>6, <1>7, <1>8, <1>9, HandlerMoves

\* An ack that moves the cursor to seq, a message of the batch with everything
\* up to it handled or in dead.
LEMMA AdvanceStep ==
    ASSUME IndInv, NEW w \in Workers, NEW seq \in batch[w], NEW dead,
           dead \subseteq batch[w], dead \subseteq refused,
           \A t \in dead : t <= seq,
           \A t \in batch[w] : t <= seq => t \in handled \cup dead,
           AckAdvance(w, seq, dead), EndPass(w),
           UNCHANGED <<nextId, incoming, body, sequence, outgoing, open, rowLock,
                       claim, vacVars, commitVars, sequenced, handled, refused,
                       faults>>
    PROVE  IndInv'
<1> USE DEF vacVars, commitVars, EndPass, AckAdvance, Unlock
<1>0. TableTypes /\ LeaseTypes /\ ProcessTypes /\ HistoryTypes /\ BatchOK(w)
  BY DEF IndInv, TypeOK, DeliveryInv, BatchInv
<1>1. /\ processedSeq \in Nat /\ sequence \in Nat /\ seq \in Nat
      /\ processedSeq < seq /\ seq <= sequence /\ sequence <= MaxMsgs
      /\ \A b \in batch[w] : b \in Nat /\ b \in Seqs /\ b > processedSeq
  BY <1>0, BoundAssumption DEF TableTypes, LeaseTypes, ProcessTypes, BatchOK, Seqs
<1>2. \A s \in Seqs : /\ deadLetters[s] \in Nat
                      /\ s \in dead => deadLetters'[s] = deadLetters[s] + 1
                      /\ s \notin dead => deadLetters'[s] = deadLetters[s]
  BY <1>0 DEF TableTypes
<1>3. TypeOK'
  <2>1. deadLetters' \in [Seqs -> Nat]
    BY <1>2
  <2>2. TableTypes'
    BY <1>0, <2>1 DEF TableTypes
  <2>3. LeaseTypes'
    BY <1>0, <1>1, BoundAssumption DEF LeaseTypes
  <2>4. ProcessTypes'
    BY <1>0, BoundAssumption DEF ProcessTypes
  <2> QED
    BY <1>0, <2>2, <2>3, <2>4, HistoryFrame DEF TypeOK
<1>4. BatchInv'
  <2>1. ASSUME NEW u \in Workers PROVE BatchOK(u)'
    <3>1. CASE u = w
      BY <1>0, <3>1, BatchDropped DEF ProcessTypes
    <3>2. CASE u # w
      <4>1. BatchOK(u) /\ batch[u] \subseteq Seqs
        BY <1>0 DEF IndInv, DeliveryInv, BatchInv, ProcessTypes
      <4>2. batch'[u] = batch[u] /\ wpc'[u] = wpc[u] /\ cursor'[u] = cursor[u]
            /\ rejected'[u] = rejected[u]
        BY <1>0, <3>2 DEF ProcessTypes
      <4>3. lockedBy' # u
        BY NoOneAssumption
      <4>4. processedSeq' \in Nat /\ processedSeq <= processedSeq'
        BY <1>1
      <4> QED
        BY <1>1, <4>1, <4>2, <4>3, <4>4, BatchKept
    <3> QED
      BY <3>1, <3>2
  <2> QED
    BY <2>1 DEF BatchInv
<1>5. NothingSkipped'
  <2>1. ASSUME NEW t \in 1..seq PROVE t \in handled \/ deadLetters'[t] > 0
    <3>1. t \in Seqs
      BY <1>1, BoundAssumption DEF Seqs
    <3>2. CASE t <= processedSeq
      <4>1. t \in handled \/ deadLetters[t] > 0
        BY <1>1, <3>2 DEF IndInv, DeliveryInv, NothingSkipped
      <4> QED
        BY <1>2, <3>1, <4>1
    <3>3. CASE t \in batch[w]
      <4>1. t \in handled \cup dead
        BY <1>1, <3>3
      <4> QED
        BY <1>2, <3>1, <4>1
    <3> QED
      BY <1>0, <3>2, <3>3 DEF BatchOK
  <2> QED
    BY <2>1 DEF NothingSkipped
<1>6. DeadLetterOnce'
  <2>1. ASSUME NEW s \in Seqs
        PROVE  deadLetters'[s] <= 1 /\ (deadLetters'[s] = 1 => s \in refused /\ s <= seq)
    <3>1. s \in Nat
      BY BoundAssumption DEF Seqs
    <3>2. deadLetters[s] <= 1 /\ (deadLetters[s] = 1 => s \in refused /\ s <= processedSeq)
      BY DEF IndInv, DeliveryInv, DeadLetterOnce
    <3>3. CASE s \in dead
      <4>1. s > processedSeq
        BY <1>1, <3>3
      <4>2. deadLetters[s] = 0
        BY <1>1, <1>2, <3>1, <3>2, <4>1
      <4> QED
        BY <1>2, <3>3, <4>2
    <3>4. CASE s \notin dead
      BY <1>1, <1>2, <3>1, <3>2, <3>4
    <3> QED
      BY <3>3, <3>4
  <2> QED
    BY <2>1 DEF DeadLetterOnce
<1>7. CursorInv'
  <2>1. \A v \in Vacuums : upto[v] \in Nat /\ upto[v] <= processedSeq
    BY <1>0, BoundAssumption DEF ProcessTypes, IndInv, DeliveryInv, CursorInv
  <2>2. \A v \in Vacuums : (\A q \in chunk'[v] : q <= upto'[v])
                          /\ (vpc'[v] # "chunk" => chunk'[v] = {})
    BY DEF IndInv, DeliveryInv, CursorInv
  <2>3. processedSeq' <= sequence' /\ \A v \in Vacuums : upto'[v] <= processedSeq'
    BY <1>1, <2>1
  <2> QED
    BY <2>2, <2>3 DEF CursorInv
<1>8. OrderedDelivery'
  BY DEF IndInv, DeliveryInv, OrderedDelivery
<1>9. RowInv'
  <2>1. \A s \in (processedSeq' + 1)..sequence : s \in (processedSeq + 1)..sequence
    BY <1>1
  <2> QED
    BY <2>1 DEF IndInv, RowInv, OutgoingInv, BodiesAccounted, SeqsOf, BodiesOf
<1>10. SeqInv'
  BY SeqFrame DEF IndInv
<1> QED
  BY <1>3, <1>4, <1>5, <1>6, <1>7, <1>8, <1>9, <1>10 DEF IndInv, DeliveryInv

\* What an ack does: it moves the cursor over settled messages, or leaves it.
LEMMA AckCases ==
    ASSUME IndInv, NEW w \in Workers, Ack(w)
    PROVE  \/ \E seq \in batch[w], dead \in SUBSET batch[w] :
                /\ dead \subseteq refused
                /\ \A t \in dead : t <= seq
                /\ \A t \in batch[w] : t <= seq => t \in handled \cup dead
                /\ AckAdvance(w, seq, dead)
           \/ /\ lockedBy' \in {lockedBy, NoOne}
              /\ LeaseTypes'
              /\ UNCHANGED <<processedSeq, deadLetters, counter>>
<1>0. LeaseTypes /\ ProcessTypes /\ BatchOK(w)
  BY DEF IndInv, TypeOK, DeliveryInv, BatchInv
<1>1. /\ \A b \in batch[w] : b \in Nat
      /\ cursor[w] \in Nat
      /\ rejected[w] \in SUBSET batch[w]
      /\ cursor[w] > 0 => cursor[w] \in batch[w]
  BY <1>0, BoundAssumption DEF ProcessTypes, BatchOK, Seqs
<1>2. CASE cursor[w] > 0 /\ AckAdvance(w, cursor[w], rejected[w])
  <2>1. /\ rejected[w] \subseteq refused
        /\ \A t \in rejected[w] : t <= cursor[w]
        /\ \A t \in batch[w] : t <= cursor[w] => t \in handled \cup rejected[w]
    BY <1>0 DEF BatchOK
  <2> QED
    BY <1>1, <1>2, <2>1
<1>3. CASE \E last \in batch[w] : /\ wpc[w] = "Reject"
                                  /\ IsLast(w, last)
                                  /\ AckAdvance(w, last, rejected[w] \cup Remaining(w))
  <2>1. PICK last \in batch[w] : /\ wpc[w] = "Reject"
                                 /\ IsLast(w, last)
                                 /\ AckAdvance(w, last, rejected[w] \cup Remaining(w))
    BY <1>3
  <2> DEFINE dead == rejected[w] \cup Remaining(w)
  <2>2. dead \in SUBSET batch[w] /\ dead \subseteq refused
    BY <1>0, <1>1, <2>1 DEF BatchOK, Remaining
  <2>3. \A t \in dead : t <= last
    BY <2>1, <2>2 DEF IsLast
  <2>4. \A t \in batch[w] : t \in handled \cup dead
    BY <1>0, <1>1 DEF BatchOK, Remaining
  <2> HIDE DEF dead
  <2>5. AckAdvance(w, last, dead)
    BY <2>1 DEF dead
  <2> QED
    BY <2>2, <2>3, <2>4, <2>5
<1>4. CASE AckLost(w)
  BY <1>0, <1>4 DEF AckLost, LeaseTypes
<1>5. CASE LeaseRelease(w) /\ UNCHANGED <<processedSeq, deadLetters, counter>>
  BY <1>0, <1>5 DEF LeaseRelease, Unlock, LeaseTypes
<1>6. CASE lockedBy = w /\ Unlock /\ UNCHANGED <<processedSeq, deadLetters, counter, attempts>>
  BY <1>0, <1>6 DEF Unlock, LeaseTypes
<1> QED
  BY <1>2, <1>3, <1>4, <1>5, <1>6 DEF Ack, AckSuccess, AckRetry, AckReject

\* lease_guarded_ack, in all its branches.
LEMMA AckStep ==
    ASSUME IndInv, NEW w \in Workers, Ack(w)
    PROVE  IndInv'
<1>1. EndPass(w)
      /\ UNCHANGED <<nextId, incoming, body, sequence, outgoing, open, rowLock,
                     claim, vacVars, commitVars, sequenced, handled, refused,
                     faults>>
  BY DEF Ack
<1>2. CASE \E seq \in batch[w], dead \in SUBSET batch[w] :
              /\ dead \subseteq refused
              /\ \A t \in dead : t <= seq
              /\ \A t \in batch[w] : t <= seq => t \in handled \cup dead
              /\ AckAdvance(w, seq, dead)
  <2>1. PICK seq \in batch[w], dead \in SUBSET batch[w] :
              /\ dead \subseteq refused
              /\ \A t \in dead : t <= seq
              /\ \A t \in batch[w] : t <= seq => t \in handled \cup dead
              /\ AckAdvance(w, seq, dead)
    BY <1>2
  <2>2. dead \subseteq batch[w]
    BY <2>1
  <2> QED
    BY <1>1, <2>1, <2>2, AdvanceStep
<1>3. CASE /\ lockedBy' \in {lockedBy, NoOne}
           /\ LeaseTypes'
           /\ UNCHANGED <<processedSeq, deadLetters, counter>>
  <2>1. HistoryTypes'
    BY <1>1, HistoryFrame DEF IndInv, TypeOK
  <2> QED
    BY <1>1, <1>3, <2>1, PassEnds
<1> QED
  BY <1>2, <1>3, AckCases

\* An expiring lease changes nothing but its own validity.
LEMMA LeaseExpiresStep ==
    ASSUME IndInv, LeaseExpires
    PROVE  IndInv'
<1> USE DEF LeaseExpires, workerVars, vacVars, commitVars
<1>0. TableTypes /\ LeaseTypes /\ ProcessTypes /\ HistoryTypes
  BY DEF IndInv, TypeOK
<1>1. LeaseTypes'
  BY <1>0 DEF LeaseTypes
<1>2. HistoryTypes'
  BY <1>0, BoundAssumption DEF HistoryTypes, Fault
<1>3. TypeOK'
  BY <1>0, <1>1, <1>2, TableFrame, ProcessFrame DEF TypeOK
<1>4. SeqInv' /\ RowInv' /\ DeliveryInv'
  BY SeqFrame, RowFrame, DeliveryFrame DEF IndInv
<1> QED
  BY <1>3, <1>4 DEF IndInv

-----------------------------------------------------------------------------
(* Vacuum *)

\* A vacuum step that deletes nothing.
LEMMA VacuumMoves ==
    ASSUME IndInv, ProcessTypes', HistoryTypes', counter' \in Nat,
           \A v \in Vacuums : upto'[v] <= processedSeq,
           \A v \in Vacuums : \A q \in chunk'[v] : q <= upto'[v],
           \A v \in Vacuums : vpc'[v] # "chunk" => chunk'[v] = {},
           UNCHANGED <<nextId, incoming, body, sequence, outgoing, leaseVars,
                       deadLetters, open, rowLock, claim, workerVars, commitVars,
                       sequenced, handled, refused>>
    PROVE  IndInv'
<1> USE DEF leaseVars, workerVars, commitVars
<1>0. TableTypes /\ LeaseTypes
  BY DEF IndInv, TypeOK
<1>1. TypeOK'
  BY <1>0, LeaseFrame DEF TypeOK, TableTypes
<1>2. CursorInv' /\ NothingSkipped' /\ DeadLetterOnce' /\ OrderedDelivery'
  BY DEF IndInv, DeliveryInv, CursorInv, NothingSkipped, DeadLetterOnce, OrderedDelivery
<1>3. BatchInv'
  BY DEF IndInv, DeliveryInv, BatchInv, BatchOK, Remaining
<1>4. SeqInv' /\ RowInv'
  BY SeqFrame, RowFrame DEF IndInv
<1> QED
  BY <1>1, <1>2, <1>3, <1>4 DEF IndInv, DeliveryInv

\* A sweep begins.
LEMMA VacSnapshotStep ==
    ASSUME IndInv, NEW v \in Vacuums, VacSnapshot(v)
    PROVE  IndInv'
<1> USE DEF VacSnapshot, dbVars, leaseVars, workerVars, commitVars
<1>0. TableTypes /\ ProcessTypes /\ HistoryTypes /\ LeaseTypes
  BY DEF IndInv, TypeOK
<1>1. ProcessTypes' /\ HistoryTypes' /\ counter' \in Nat
  BY <1>0, HistoryFrame DEF ProcessTypes, TableTypes, LeaseTypes
<1>2. \A u \in Vacuums : upto'[u] <= processedSeq
  BY <1>0, BoundAssumption DEF IndInv, DeliveryInv, CursorInv, ProcessTypes, LeaseTypes
<1>3. \A u \in Vacuums : (\A q \in chunk'[u] : q <= upto'[u])
                         /\ (vpc'[u] # "chunk" => chunk'[u] = {})
  BY <1>0 DEF IndInv, DeliveryInv, CursorInv, ProcessTypes
<1> QED
  BY <1>1, <1>2, <1>3, VacuumMoves

\* The sweep reads the cursor, which can only grow later.
LEMMA VacReadCursorStep ==
    ASSUME IndInv, NEW v \in Vacuums, VacReadCursor(v)
    PROVE  IndInv'
<1> USE DEF VacReadCursor, dbVars, leaseVars, workerVars, commitVars
<1>0. TableTypes /\ ProcessTypes /\ HistoryTypes /\ LeaseTypes
  BY DEF IndInv, TypeOK
<1>1. ProcessTypes' /\ HistoryTypes' /\ counter' \in Nat
  BY <1>0, HistoryFrame DEF ProcessTypes, TableTypes, LeaseTypes
<1>2. \A u \in Vacuums : upto'[u] <= processedSeq
  BY <1>0, BoundAssumption DEF IndInv, DeliveryInv, CursorInv, ProcessTypes, LeaseTypes
<1>3. \A u \in Vacuums : (\A q \in chunk'[u] : q <= upto'[u])
                         /\ (vpc'[u] # "chunk" => chunk'[u] = {})
  BY <1>0 DEF IndInv, DeliveryInv, CursorInv, ProcessTypes
<1> QED
  BY <1>1, <1>2, <1>3, VacuumMoves

\* The sweep ends.
LEMMA VacDecrementStep ==
    ASSUME IndInv, NEW v \in Vacuums, VacDecrement(v)
    PROVE  IndInv'
<1> USE DEF VacDecrement, EndSweep
<1>0. TableTypes /\ ProcessTypes /\ HistoryTypes /\ LeaseTypes
  BY DEF IndInv, TypeOK
<1>1. ProcessTypes' /\ HistoryTypes'
  BY <1>0, HistoryFrame, BoundAssumption DEF ProcessTypes, workerVars
<1>4. counter' \in Nat
  BY <1>0 DEF DecrementedCounter, TableTypes, ProcessTypes
<1>2. \A u \in Vacuums : upto'[u] <= processedSeq
  BY <1>0, BoundAssumption DEF IndInv, DeliveryInv, CursorInv, ProcessTypes, LeaseTypes
<1>3. \A u \in Vacuums : (\A q \in chunk'[u] : q <= upto'[u])
                         /\ (vpc'[u] # "chunk" => chunk'[u] = {})
  BY <1>0 DEF IndInv, DeliveryInv, CursorInv, ProcessTypes
<1> QED
  BY <1>1, <1>2, <1>3, <1>4, VacuumMoves

\* The sweep is abandoned.
LEMMA VacStopsStep ==
    ASSUME IndInv, NEW v \in Vacuums, VacStops(v)
    PROVE  IndInv'
<1> USE DEF VacStops, EndSweep, dbVars, leaseVars
<1>0. TableTypes /\ ProcessTypes /\ HistoryTypes /\ LeaseTypes
  BY DEF IndInv, TypeOK
<1>1. ProcessTypes'
  BY <1>0, BoundAssumption DEF ProcessTypes, workerVars
<1>4. HistoryTypes' /\ counter' \in Nat
  BY <1>0, BoundAssumption DEF HistoryTypes, TableTypes, Fault, commitVars
<1>2. \A u \in Vacuums : upto'[u] <= processedSeq
  BY <1>0, BoundAssumption DEF IndInv, DeliveryInv, CursorInv, ProcessTypes, LeaseTypes
<1>3. \A u \in Vacuums : (\A q \in chunk'[u] : q <= upto'[u])
                         /\ (vpc'[u] # "chunk" => chunk'[u] = {})
  BY <1>0 DEF IndInv, DeliveryInv, CursorInv, ProcessTypes
<1> QED
  BY <1>1, <1>2, <1>3, <1>4, VacuumMoves

\* The chunk is made of seqs the cursor has passed.
LEMMA ChunkPassed ==
    ASSUME IndInv, NEW v \in Vacuums
    PROVE  /\ {s \in SeqsOf(outgoing) : s <= upto[v]} \subseteq 1..MaxMsgs
           /\ \A q \in Chunk(v) : q \in 1..MaxMsgs /\ q <= upto[v]
           /\ \A q \in chunk[v] : q \in Nat /\ q <= processedSeq
<1> DEFINE S == {s \in SeqsOf(outgoing) : s <= upto[v]}
<1>1. \A s \in SeqsOf(outgoing) : s \in 1..MaxMsgs
  BY DEF SeqsOf, IndInv, TypeOK, TableTypes, Rows, Seqs
<1>2. S \subseteq 1..MaxMsgs
  BY <1>1
<1>3. FirstN(S, VacBatch) \subseteq S
  <2> HIDE DEF S
  <2> QED
    BY <1>2, FirstNPrefix, BatchAssumption
<1>4. upto[v] \in Nat /\ processedSeq \in Nat /\ upto[v] <= processedSeq
  BY BoundAssumption DEF IndInv, TypeOK, ProcessTypes, LeaseTypes, DeliveryInv, CursorInv
<1>5. \A q \in FirstN(S, VacBatch) : q \in 1..MaxMsgs /\ q <= upto[v]
  BY <1>2, <1>3
<1>6. \A q \in chunk[v] : q \in Nat /\ q <= upto[v]
  BY BoundAssumption DEF IndInv, TypeOK, ProcessTypes, Seqs, DeliveryInv, CursorInv
<1>7. \A q \in chunk[v] : q \in Nat /\ q <= processedSeq
  BY <1>4, <1>6
<1> QED
  BY <1>2, <1>5, <1>7 DEF Chunk

\* The chunk is selected.
LEMMA VacSelectChunkStep ==
    ASSUME IndInv, NEW v \in Vacuums, VacSelectChunk(v)
    PROVE  IndInv'
<1> USE DEF VacSelectChunk, dbVars, leaseVars, workerVars, commitVars
<1> DEFINE K == Chunk(v)
<1>0. TableTypes /\ ProcessTypes /\ HistoryTypes /\ LeaseTypes
  BY DEF IndInv, TypeOK
<1>1. K \subseteq Seqs /\ \A q \in K : q <= upto[v]
  BY ChunkPassed DEF Seqs
<1>2. /\ chunk' = [chunk EXCEPT ![v] = K]
      /\ vpc' = [vpc EXCEPT ![v] = IF K = {} THEN "decrement" ELSE "chunk"]
      /\ upto' = upto
  OBVIOUS
<1> HIDE DEF K
<1>3. ProcessTypes' /\ HistoryTypes' /\ counter' \in Nat
  BY <1>0, <1>1, <1>2, HistoryFrame DEF ProcessTypes, TableTypes, LeaseTypes
<1>4. \A u \in Vacuums : upto'[u] <= processedSeq
  BY DEF IndInv, DeliveryInv, CursorInv
<1>5. \A u \in Vacuums : (\A q \in chunk'[u] : q <= upto'[u])
                         /\ (vpc'[u] # "chunk" => chunk'[u] = {})
  BY <1>0, <1>1, <1>2 DEF IndInv, DeliveryInv, CursorInv, ProcessTypes
<1> QED
  BY <1>3, <1>4, <1>5, VacuumMoves

\* A chunk is deleted: rows behind the cursor and exactly their payloads.
LEMMA VacDeleteChunkStep ==
    ASSUME IndInv, NEW v \in Vacuums, VacDeleteChunk(v)
    PROVE  IndInv'
<1> DEFINE K == chunk[v]
           D == {r \in outgoing : r.seq \in K}
<1>0. TableTypes /\ ProcessTypes /\ HistoryTypes /\ LeaseTypes
  BY DEF IndInv, TypeOK
<1>1. /\ outgoing' = {r \in outgoing : r.seq \notin K}
      /\ body' = body \ BodiesOf(D)
      /\ vpc' = [vpc EXCEPT ![v] = AfterChunk(v)]
      /\ chunk' = [chunk EXCEPT ![v] = {}]
      /\ UNCHANGED <<nextId, incoming, sequence, processedSeq, attempts, lockedBy,
                     lockedUntil, deadLetters, counter, open, rowLock, claim, wpc,
                     batch, cursor, rejected, snapshot, upto, commits, committedAt,
                     sequenced, handled, refused, faults>>
  BY DEF VacDeleteChunk, DeleteRows, leaseVars, workerVars, commitVars
<1>2. \A q \in K : q \in Nat /\ q <= processedSeq
  BY ChunkPassed
<1> HIDE DEF K
<1>3. TypeOK'
  <2>1. TableTypes'
    BY <1>0, <1>1 DEF TableTypes
  <2>2. ProcessTypes'
    BY <1>0, <1>1 DEF ProcessTypes, AfterChunk
  <2> QED
    BY <1>0, <1>1, <2>1, <2>2, LeaseFrame, HistoryFrame DEF TypeOK, leaseVars, commitVars
<1>4. OutgoingInv'
  <2>1. outgoing' \subseteq sequenced'
    BY <1>1 DEF IndInv, RowInv, OutgoingInv
  <2>2. ASSUME NEW s \in (processedSeq + 1)..sequence PROVE s \in SeqsOf(outgoing')
    <3>1. s \in SeqsOf(outgoing)
      BY DEF IndInv, RowInv, OutgoingInv
    <3>2. s \notin K
      <4>1. processedSeq \in Nat
        BY <1>0, BoundAssumption DEF LeaseTypes
      <4> QED
        BY <1>2, <4>1
    <3> QED
      BY <1>1, <3>1, <3>2 DEF SeqsOf
  <2> QED
    BY <1>1, <2>1, <2>2 DEF OutgoingInv, SeqsOf
<1>5. BodiesAccounted'
  <2>1. body = incoming \cup BodiesOf(outgoing)
    BY DEF IndInv, RowInv, BodiesAccounted
  <2>2. incoming \cap BodiesOf(D) = {}
    <3>1. incoming \cap BodiesOf(sequenced) = {}
      BY DEF IndInv, SeqInv, SequencedOnce
    <3>2. \A r \in D : r.body_id \in BodiesOf(sequenced)
      BY DEF IndInv, RowInv, OutgoingInv, BodiesOf
    <3> QED
      BY <3>1, <3>2 DEF BodiesOf
  <2>3. \A r \in outgoing' : \A d \in D : r.body_id # d.body_id
    <3>1. \A r \in outgoing' : \A d \in D : r \in sequenced /\ d \in sequenced /\ r.seq # d.seq
      BY <1>1 DEF IndInv, RowInv, OutgoingInv
    <3> QED
      BY <3>1 DEF IndInv, SeqInv, SequencedOnce
  <2>4. outgoing = outgoing' \cup D
    BY <1>1
  <2> HIDE DEF D
  <2>5. \A b \in BodiesOf(outgoing') : b \in BodiesOf(outgoing) /\ b \notin BodiesOf(D)
    BY <2>3, <2>4 DEF BodiesOf
  <2>6. \A b \in BodiesOf(outgoing) : b \in BodiesOf(outgoing') \/ b \in BodiesOf(D)
    BY <2>4 DEF BodiesOf
  <2>7. body' = incoming' \cup BodiesOf(outgoing')
    BY <1>1, <2>1, <2>2, <2>5, <2>6
  <2>8. BodiesOf(outgoing)' = BodiesOf(outgoing')
    BY DEF BodiesOf
  <2> QED
    BY <2>7, <2>8 DEF BodiesAccounted
<1>6. RowInv'
  BY <1>4, <1>5 DEF RowInv
<1>7. SeqInv'
  BY <1>1, SeqFrame DEF IndInv
<1>8. CursorInv'
  BY <1>0, <1>1 DEF IndInv, DeliveryInv, CursorInv, ProcessTypes
<1>9. BatchInv' /\ NothingSkipped' /\ DeadLetterOnce' /\ OrderedDelivery'
  BY <1>1 DEF IndInv, DeliveryInv, BatchInv, BatchOK, Remaining, NothingSkipped,
              DeadLetterOnce, OrderedDelivery
<1> QED
  BY <1>3, <1>6, <1>7, <1>8, <1>9 DEF IndInv, DeliveryInv

-----------------------------------------------------------------------------
(* The theorems *)

\* The invariant is inductive.
LEMMA NextStep ==
    ASSUME IndInv, [Next]_vars
    PROVE  IndInv'
<1>1. CASE UNCHANGED vars
  <2> USE <1>1 DEF vars, dbVars, leaseVars, workerVars, vacVars, commitVars
  <2>1. TypeOK'
    BY TableFrame, LeaseFrame, ProcessFrame, HistoryFrame DEF IndInv, TypeOK
  <2>2. SeqInv' /\ RowInv' /\ DeliveryInv'
    BY SeqFrame, RowFrame, DeliveryFrame DEF IndInv
  <2> QED
    BY <2>1, <2>2 DEF IndInv
<1>2. ASSUME NEW p \in Producers, ProducerStep(p) PROVE IndInv'
  BY <1>2, EnqueueStep, CommitEnqueueStep, RollbackEnqueueStep DEF ProducerStep
<1>3. ASSUME NEW s \in Sequencers, SequencerStep(s) PROVE IndInv'
  BY <1>3, SeqClaimStep, SeqCommitStep, SeqAbortStep DEF SequencerStep
<1>4. ASSUME NEW w \in Workers, WorkerStep(w) PROVE IndInv'
  BY <1>4, AcquireStep, ReleaseEmptyStep, HandleOkStep, HandleRejectStep,
     HandlerReturnStep, AckStep, WorkerStopsStep DEF WorkerStep
<1>5. ASSUME NEW v \in Vacuums, VacuumStep(v) PROVE IndInv'
  BY <1>5, VacSnapshotStep, VacReadCursorStep, VacSelectChunkStep, VacDeleteChunkStep,
     VacDecrementStep, VacStopsStep DEF VacuumStep
<1> QED
  BY <1>1, <1>2, <1>3, <1>4, <1>5, LeaseExpiresStep DEF Next

\* Hence it holds throughout.
LEMMA Inductive == Spec => []IndInv
<1>1. Init => IndInv
  BY InitInv
<1>2. IndInv /\ [Next]_vars => IndInv'
  BY NextStep
<1> QED
  BY <1>1, <1>2, PTL DEF Spec

\* Tables, lease row, workers and vacuums keep their types: the lease row never
\* has an owner without a deadline, no cursor, seq or id leaves its range.
THEOREM TypeCorrect == Spec => []TypeOK
<1>1. IndInv => TypeOK
  BY DEF IndInv
<1> QED
  BY <1>1, Inductive, PTL

\* The sequencer neither loses nor duplicates: every committed id is in incoming
\* or has exactly one seq, and the seqs have no gap.
THEOREM SequencingCorrect == Spec => []SequencedOnce
<1>1. IndInv => SequencedOnce
  BY DEF IndInv, SeqInv
<1> QED
  BY <1>1, Inductive, PTL

\* The sequencer does not reorder: id order is kept among messages that were
\* committed in that order.
THEOREM SequencingFifo == Spec => []FifoOrder
<1>1. IndInv => FifoOrder
  BY DEF IndInv, SeqInv
<1> QED
  BY <1>1, Inductive, PTL

\* The payload table is exactly the payloads of incoming and outgoing: neither
\* the hand-over nor the vacuum leaks one.
THEOREM PayloadsAccounted == Spec => []BodiesAccounted
<1>1. IndInv => BodiesAccounted
  BY DEF IndInv, RowInv
<1> QED
  BY <1>1, Inductive, PTL

\* Processors and vacuums never lose a row that is still needed: unprocessed
\* rows keep their outgoing row and their payload.
THEOREM PayloadsKept == Spec => []UnprocessedKept
<1>1. IndInv => UnprocessedKept
  <2> SUFFICES ASSUME IndInv PROVE UnprocessedKept
    OBVIOUS
  <2>1. BodiesAccounted
    BY DEF IndInv, RowInv
  <2>2. \A r \in outgoing : r.body_id \in body
    BY <2>1 DEF BodiesAccounted, BodiesOf
  <2>3. \A s \in (processedSeq + 1)..sequence : s \in SeqsOf(outgoing)
    BY DEF IndInv, RowInv, OutgoingInv
  <2> QED
    BY <2>1, <2>2, <2>3 DEF UnprocessedKept, SeqsOf
<1> QED
  BY <1>1, Inductive, PTL

\* The tables of the pipeline agree between any two statements, for any number of
\* producers, sequencers, processors and vacuums and any failures of theirs.
THEOREM TablesCorrect == Spec => []TablesAgree
<1>1. TypeOK /\ SequencedOnce /\ UnprocessedKept /\ BodiesAccounted => TablesAgree
  BY DEF TablesAgree
<1> QED
  BY <1>1, TypeCorrect, SequencingCorrect, PayloadsKept, PayloadsAccounted, PTL

\* At-least-once delivery: the cursor passes a message only once it is handled
\* or dead-lettered.
THEOREM DeliveryCorrect == Spec => []NothingSkipped
<1>1. IndInv => NothingSkipped
  BY DEF IndInv, DeliveryInv
<1> QED
  BY <1>1, Inductive, PTL

\* A refusal becomes one dead letter at most, with the cursor past it.
THEOREM RefusalsKeptOnce == Spec => []DeadLetterOnce
<1>1. IndInv => DeadLetterOnce
  BY DEF IndInv, DeliveryInv
<1> QED
  BY <1>1, Inductive, PTL

\* Delivery in partition order: no handler finishes with a message before its
\* predecessors were finished with.
THEOREM DeliveryInOrder == Spec => []OrderedDelivery
<1>1. IndInv => OrderedDelivery
  BY DEF IndInv, DeliveryInv
<1> QED
  BY <1>1, Inductive, PTL

\* The cursor never moves back: the locked_by guard of lease_ack_advance makes
\* the ack of a worker that lost its lease a no-op.
THEOREM CursorNeverBack == Spec => CursorMonotone
<1>1. IndInv /\ [Next]_vars => [processedSeq' >= processedSeq]_vars
  <2> SUFFICES ASSUME IndInv, Next PROVE processedSeq' >= processedSeq
    OBVIOUS
  <2>0. processedSeq \in Nat
    BY BoundAssumption DEF IndInv, TypeOK, LeaseTypes
  <2>1. ASSUME NEW w \in Workers, Ack(w) PROVE processedSeq' >= processedSeq
    <3>1. CASE processedSeq' = processedSeq
      BY <2>0, <3>1
    <3>2. CASE \E seq \in batch[w], dead \in SUBSET batch[w] : AckAdvance(w, seq, dead)
      <4>1. PICK seq \in batch[w] : processedSeq' = seq /\ lockedBy = w
        BY <3>2 DEF AckAdvance
      <4>2. seq > processedSeq /\ seq \in Nat
        BY <4>1, BoundAssumption DEF IndInv, DeliveryInv, BatchInv, BatchOK, TypeOK,
                                     ProcessTypes, Seqs
      <4> QED
        BY <2>0, <4>1, <4>2
    <3> QED
      BY <2>1, <3>1, <3>2, AckCases
  <2>2. ASSUME \A w \in Workers : ~Ack(w) PROVE processedSeq' = processedSeq
    <3> USE DEF dbVars, leaseVars
    <3>1. ASSUME NEW p \in Producers, ProducerStep(p) PROVE processedSeq' = processedSeq
      BY <3>1 DEF ProducerStep, Enqueue, CommitEnqueue, RollbackEnqueue
    <3>2. ASSUME NEW s \in Sequencers, SequencerStep(s) PROVE processedSeq' = processedSeq
      BY <3>2 DEF SequencerStep, SeqClaim, SeqCommit, SeqAbort
    <3>3. ASSUME NEW w \in Workers, WorkerStep(w) PROVE processedSeq' = processedSeq
      BY <2>2, <3>3 DEF WorkerStep, Acquire, ReleaseEmpty, HandleOk, HandleReject,
                        HandlerReturn, WorkerStops
    <3>4. ASSUME NEW v \in Vacuums, VacuumStep(v) PROVE processedSeq' = processedSeq
      BY <3>4 DEF VacuumStep, VacSnapshot, VacReadCursor, VacSelectChunk, VacDeleteChunk,
                  VacDecrement, VacStops
    <3>5. ASSUME LeaseExpires PROVE processedSeq' = processedSeq
      BY <3>5 DEF LeaseExpires
    <3> QED
      BY <3>1, <3>2, <3>3, <3>4, <3>5 DEF Next
  <2> QED
    BY <2>0, <2>1, <2>2
<1> QED
  BY <1>1, Inductive, PTL DEF Spec, CursorMonotone

-----------------------------------------------------------------------------
(* The pipeline implements OrderedLog *)

\* The length of the abstract log is the partition's sequence counter.
LEMMA LogLength ==
    ASSUME IndInv
    PROVE  Log!Length = sequence
<1> DEFINE f == [r \in sequenced |-> r.seq]
<1>1. SeqsOf(sequenced) = 1..sequence /\ sequence \in Nat
  BY BoundAssumption DEF IndInv, SeqInv, SequencedOnce, TypeOK, TableTypes
<1>2. \A r1, r2 \in sequenced : r1.seq = r2.seq => r1 = r2
  BY DEF IndInv, SeqInv, SequencedOnce
<1>3. f \in Bijection(sequenced, 1..sequence)
  <2>1. f \in [sequenced -> 1..sequence]
    BY <1>1 DEF SeqsOf
  <2>2. \A r1, r2 \in sequenced : f[r1] = f[r2] => r1 = r2
    BY <1>2
  <2>3. \A n \in 1..sequence : \E r \in sequenced : f[r] = n
    BY <1>1 DEF SeqsOf
  <2> QED
    BY <2>1, <2>2, <2>3 DEF Bijection, Injection, Surjection, IsInjective
<1>4. ExistsBijection(sequenced, 1..sequence)
  BY <1>3 DEF ExistsBijection
<1>5. ExistsBijection(1..sequence, sequenced)
  BY <1>4, Fun_ExistsBijSymmetric
<1>6. Cardinality(sequenced) = sequence
  BY <1>1, <1>5, FS_CountingElements
<1> QED
  BY <1>6 DEF Log!Length, Log!Cardinality, Cardinality

\* A producer's commit publishes ids no one has seen.
LEMMA CommitPublishes ==
    ASSUME IndInv, NEW p \in Producers, CommitEnqueue(p)
    PROVE  Log!Publish
<1>1. \A i \in open[p] : i \in Ids /\ i \notin Committed
  BY DEF IndInv, SeqInv, ProducerInv, TypeOK, ProcessTypes
<1>2. Committed = incoming \cup BodiesOf(sequenced)
  BY DEF IndInv, SeqInv, SequencedOnce
<1>3. open[p] \in SUBSET (Ids \ (incoming \cup Log!Logged))
  BY <1>1, <1>2 DEF BodiesOf, Log!Logged
<1>4. /\ incoming' = incoming \cup open[p]
      /\ UNCHANGED <<sequenced, handled, refused, DeadSeqs, processedSeq>>
  BY DEF CommitEnqueue, leaseVars, DeadSeqs
<1> QED
  BY <1>3, <1>4 DEF Log!Publish

\* A sequencer's commit appends what it claimed.
LEMMA SeqCommitAppends ==
    ASSUME IndInv, NEW s \in Sequencers, SeqCommit(s)
    PROVE  Log!Append
<1>1. claim[s] \in SUBSET incoming
  BY DEF IndInv, SeqInv, ClaimInv
<1>2. PICK f \in Numbering(claim[s], sequence) :
         sequenced' = sequenced \cup {[seq |-> f[i], body_id |-> i] : i \in claim[s]}
  BY DEF SeqCommit
<1>3. /\ f \in Bijection(claim[s], (Log!Length + 1)..(Log!Length + Cardinality(claim[s])))
      /\ \A i, j \in claim[s] : i < j => f[i] < f[j]
  BY LogLength DEF Numbering
<1>4. /\ incoming' = incoming \ claim[s]
      /\ UNCHANGED <<handled, refused, DeadSeqs, processedSeq>>
  BY DEF SeqCommit, leaseVars, DeadSeqs
<1> QED
  BY <1>1, <1>2, <1>3, <1>4 DEF Log!Append, Log!Cardinality, Cardinality, Log!Bijection,
                                Log!Injection, Log!Surjection, Log!IsInjective,
                                Bijection, Injection, Surjection, IsInjective

\* Seqs a handler finishes with are in the log, and in order.
LEMMA FinishedInOrder ==
    ASSUME IndInv, NEW w \in Workers, NEW S \in SUBSET batch[w],
           \A s \in S : \A t \in 1..(s - 1) : t \in handled \cup refused \cup S
    PROVE  S \subseteq 1..Log!Length /\ Log!InOrder(S)
<1>1. \A b \in batch[w] : b \in 1..sequence
  BY BoundAssumption DEF IndInv, DeliveryInv, BatchInv, BatchOK, TypeOK, ProcessTypes,
                         TableTypes, Seqs
<1>2. S \subseteq 1..Log!Length
  BY <1>1, LogLength
<1> QED
  BY <1>2 DEF Log!InOrder

LEMMA HandleOkHandles ==
    ASSUME IndInv, NEW w \in Workers, HandleOk(w)
    PROVE  Log!Handle
<1>1. PICK next \in batch[w] : IsNext(w, next) /\ handled' = handled \cup {next}
  BY DEF HandleOk
<1>2. next \in 1..Log!Length /\ Log!InOrder({next})
  <2>1. \A t \in 1..(next - 1) : t \in handled \cup refused
    BY <1>1, NextSettles
  <2> QED
    BY <2>1, FinishedInOrder
<1>3. UNCHANGED <<incoming, sequenced, refused, DeadSeqs, processedSeq>>
  BY DEF HandleOk, dbVars, leaseVars, DeadSeqs
<1> QED
  BY <1>1, <1>2, <1>3 DEF Log!Handle

LEMMA HandleRejectRefuses ==
    ASSUME IndInv, NEW w \in Workers, HandleReject(w)
    PROVE  Log!Refuse
<1>1. PICK next \in batch[w] : IsNext(w, next) /\ refused' = refused \cup {next}
  BY DEF HandleReject
<1>2. {next} \in SUBSET (1..Log!Length) /\ Log!InOrder({next})
  <2>1. \A t \in 1..(next - 1) : t \in handled \cup refused
    BY <1>1, NextSettles
  <2> QED
    BY <2>1, FinishedInOrder
<1>3. UNCHANGED <<incoming, sequenced, handled, DeadSeqs, processedSeq>>
  BY DEF HandleReject, dbVars, leaseVars, DeadSeqs
<1> QED
  BY <1>1, <1>2, <1>3 DEF Log!Refuse

LEMMA HandlerReturnRefuses ==
    ASSUME IndInv, NEW w \in Workers, HandlerReturn(w)
    PROVE  Log!Refuse \/ UNCHANGED Log!vars
<1>1. UNCHANGED <<incoming, sequenced, handled, DeadSeqs, processedSeq>>
  BY DEF HandlerReturn, dbVars, leaseVars, DeadSeqs
<1>2. CASE refused' = refused
  BY <1>1, <1>2 DEF Log!vars
<1>3. CASE refused' = refused \cup Remaining(w)
  <2>1. Remaining(w) \in SUBSET batch[w] /\ \A s \in batch[w] : s \in Nat
    BY BoundAssumption DEF Remaining, IndInv, TypeOK, ProcessTypes, Seqs
  <2>2. \A s \in Remaining(w) : \A t \in 1..(s - 1) : t \in handled \cup refused \cup Remaining(w)
    <3> TAKE s \in Remaining(w)
    <3> TAKE t \in 1..(s - 1)
    <3>1. s \in batch[w] /\ t \in 1..s
      BY <2>1
    <3> QED
      BY <3>1, BatchSettled
  <2>3. Remaining(w) \in SUBSET (1..Log!Length) /\ Log!InOrder(Remaining(w))
    BY <2>1, <2>2, FinishedInOrder
  <2> QED
    BY <1>1, <1>3, <2>3 DEF Log!Refuse
<1> QED
  BY <1>2, <1>3 DEF HandlerReturn

\* An ack moves the abstract position, or nothing.
LEMMA AckAdvances ==
    ASSUME IndInv, NEW w \in Workers, Ack(w)
    PROVE  Log!Advance \/ UNCHANGED Log!vars
<1>1. UNCHANGED <<incoming, sequenced, handled, refused>>
  BY DEF Ack
<1>2. CASE UNCHANGED <<processedSeq, deadLetters, counter>>
  BY <1>1, <1>2 DEF Log!vars, DeadSeqs
<1>3. ASSUME NEW seq \in batch[w], NEW D \in SUBSET batch[w],
             D \subseteq refused,
             \A t \in D : t <= seq,
             \A t \in batch[w] : t <= seq => t \in handled \cup D,
             AckAdvance(w, seq, D)
      PROVE  Log!Advance
  <2>0. lockedBy = w /\ processedSeq' = seq
    BY <1>3 DEF AckAdvance
  <2>1. /\ processedSeq \in Nat /\ sequence \in Nat
        /\ \A b \in batch[w] : b \in Nat /\ b \in Seqs /\ processedSeq < b /\ b <= sequence
        /\ \A b \in batch[w] : \A t \in 1..b : t \in batch[w] \/ t <= processedSeq
    BY <2>0, BoundAssumption DEF IndInv, DeliveryInv, BatchInv, BatchOK, TypeOK,
                                 TableTypes, LeaseTypes, ProcessTypes, Seqs
  <2>2. seq \in (processedSeq + 1)..Log!Length
    BY <2>1, LogLength
  <2>3. D \subseteq (processedSeq + 1)..seq
    BY <1>3, <2>1
  <2>4. (processedSeq + 1)..seq \subseteq handled \cup D
    <3>1. ASSUME NEW t \in (processedSeq + 1)..seq PROVE t \in handled \cup D
      <4>1. t \in 1..seq /\ t > processedSeq /\ t <= seq
        BY <2>1
      <4>2. t \in batch[w]
        BY <2>1, <4>1
      <4> QED
        BY <1>3, <4>1, <4>2
    <3> QED
      BY <3>1
  <2>5. DeadSeqs' = DeadSeqs \cup D
    <3>1. \A s \in Seqs : deadLetters[s] \in Nat
      BY DEF IndInv, TypeOK, TableTypes
    <3>2. \A s \in Seqs : deadLetters'[s] = deadLetters[s] + (IF s \in D THEN 1 ELSE 0)
      BY <1>3 DEF AckAdvance
    <3>3. \A s \in Seqs : deadLetters'[s] > 0 <=> deadLetters[s] > 0 \/ s \in D
      BY <3>1, <3>2
    <3>4. D \subseteq Seqs
      BY <2>1
    <3> QED
      BY <3>3, <3>4 DEF DeadSeqs
  <2>6. D \in SUBSET refused
    BY <1>3
  <2> QED
    BY <1>1, <2>0, <2>2, <2>3, <2>4, <2>5, <2>6 DEF Log!Advance
<1> QED
  BY <1>2, <1>3, AckCases

\* Each step of the pipeline is a step of the log or leaves it alone.
LEMMA StepImplements ==
    ASSUME IndInv, [Next]_vars
    PROVE  [Log!Next]_(Log!vars)
<1> USE DEF Log!Next
<1>1. CASE UNCHANGED <<incoming, sequenced, handled, refused, deadLetters, processedSeq>>
  BY <1>1 DEF Log!vars, DeadSeqs
<1>2. ASSUME NEW p \in Producers, ProducerStep(p) PROVE [Log!Next]_(Log!vars)
  <2>1. CASE CommitEnqueue(p)
    BY <2>1, CommitPublishes
  <2>2. CASE Enqueue(p) \/ RollbackEnqueue(p)
    BY <1>1, <2>2 DEF Enqueue, RollbackEnqueue, dbVars, leaseVars
  <2> QED
    BY <1>2, <2>1, <2>2 DEF ProducerStep
<1>3. ASSUME NEW s \in Sequencers, SequencerStep(s) PROVE [Log!Next]_(Log!vars)
  <2>1. CASE SeqCommit(s)
    BY <2>1, SeqCommitAppends
  <2>2. CASE SeqClaim(s) \/ SeqAbort(s)
    BY <1>1, <2>2 DEF SeqClaim, SeqAbort, dbVars, leaseVars
  <2> QED
    BY <1>3, <2>1, <2>2 DEF SequencerStep
<1>4. ASSUME NEW w \in Workers, WorkerStep(w) PROVE [Log!Next]_(Log!vars)
  <2>1. CASE HandleOk(w) \/ HandleReject(w) \/ HandlerReturn(w) \/ Ack(w)
    BY <2>1, HandleOkHandles, HandleRejectRefuses, HandlerReturnRefuses, AckAdvances
  <2>2. CASE Acquire(w) \/ ReleaseEmpty(w) \/ WorkerStops(w)
    BY <1>1, <2>2 DEF Acquire, ReleaseEmpty, WorkerStops, dbVars, leaseVars
  <2> QED
    BY <1>4, <2>1, <2>2 DEF WorkerStep
<1>5. ASSUME NEW v \in Vacuums, VacuumStep(v) PROVE [Log!Next]_(Log!vars)
  BY <1>1, <1>5 DEF VacuumStep, VacSnapshot, VacReadCursor, VacSelectChunk,
                    VacDeleteChunk, VacDecrement, VacStops, dbVars, leaseVars
<1>6. CASE LeaseExpires
  BY <1>1, <1>6 DEF LeaseExpires
<1>7. CASE UNCHANGED vars
  BY <1>1, <1>7 DEF vars, dbVars, leaseVars
<1> QED
  BY <1>2, <1>3, <1>4, <1>5, <1>6, <1>7 DEF Next

\* The outbox partition implements the ordered log: whatever the interleaving of
\* producers, sequencers, leased workers and vacuums, and whatever fails, an
\* observer of the messages sees only publish, append, handle, refuse, advance.
THEOREM PipelineImplementsLog == Spec => ImplementsLog
<1>1. Init => Log!Init
  BY DEF Init, Log!Init, DeadSeqs
<1>2. IndInv /\ [Next]_vars => [Log!Next]_(Log!vars)
  BY StepImplements
<1> QED
  BY <1>1, <1>2, Inductive, PTL DEF Spec, ImplementsLog, Log!Spec

-----------------------------------------------------------------------------
(* What a vacuum has done when it decrements the counter *)

SweepVars == <<vpc, upto, chunk, outgoing>>

\* New outgoing rows lie beyond every cursor a vacuum has read.
LEMMA SeqCommitSweep ==
    ASSUME IndInv, SweepInv, DrainedBeforeDecrement, NEW s \in Sequencers, SeqCommit(s)
    PROVE  SweepInv' /\ DrainedBeforeDecrement'
<1>1. UNCHANGED <<vpc, chunk, upto>>
  BY DEF SeqCommit, vacVars
<1>2. PICK f \in Numbering(claim[s], sequence) :
         outgoing' = outgoing \cup {[seq |-> f[i], body_id |-> i] : i \in claim[s]}
  BY DEF SeqCommit
<1>3. /\ sequence \in Nat /\ processedSeq \in Nat /\ processedSeq <= sequence
      /\ \A v \in Vacuums : upto[v] \in Nat /\ upto[v] <= processedSeq
      /\ claim[s] \subseteq 1..MaxMsgs
  BY BoundAssumption DEF IndInv, TypeOK, TableTypes, LeaseTypes, ProcessTypes, DeliveryInv,
                         CursorInv, Ids
<1>4. \A i \in claim[s] : f[i] \in Nat /\ f[i] > sequence
  <2> DEFINE C == claim[s]
  <2>1. IsFiniteSet(C)
    BY <1>3, BoundedFinite
  <2>2. Cardinality(C) \in Nat
    BY <2>1, FS_CardinalityType
  <2>3. f \in Numbering(C, sequence)
    BY <1>2
  <2> HIDE DEF C
  <2>4. f \in [C -> (sequence + 1)..(sequence + Cardinality(C))]
    BY <1>3, <2>3, NumberingFacts
  <2>5. \A i \in C : f[i] \in Nat /\ f[i] > sequence
    BY <1>3, <2>2, <2>4
  <2> QED
    BY <2>5 DEF C
<1>5. \A r \in outgoing' : r \in outgoing \/ (r.seq \in Nat /\ r.seq > sequence)
  BY <1>2, <1>4
<1>6. \A v \in Vacuums : \A r \in outgoing' : r \in outgoing \/ r.seq > upto[v]
  BY <1>3, <1>5
<1> QED
  BY <1>1, <1>6 DEF SweepInv, DrainedBeforeDecrement

\* A chunk that falls short of the limit is all there is to delete.
LEMMA ShortChunk ==
    ASSUME IndInv, NEW v \in Vacuums, Cardinality(Chunk(v)) < VacBatch, NEW r \in outgoing
    PROVE  r.seq \in Chunk(v) \/ r.seq > upto[v]
<1> DEFINE S == {s \in SeqsOf(outgoing) : s <= upto[v]}
           K == Chunk(v)
<1>1. S \subseteq 1..MaxMsgs
  BY ChunkPassed
<1>2. K = FirstN(S, VacBatch) /\ Cardinality(K) < VacBatch
  BY DEF Chunk
<1>3. r.seq \in Nat /\ upto[v] \in Nat
  BY BoundAssumption DEF IndInv, TypeOK, TableTypes, ProcessTypes, Rows, Seqs
<1>4. r.seq \in S \/ r.seq > upto[v]
  BY <1>3 DEF SeqsOf
<1> HIDE DEF S, K
<1>5. K = S
  BY <1>1, <1>2, FirstNShort, BatchAssumption
<1> QED
  BY <1>4, <1>5 DEF K

\* A vacuum's own steps, and what they do to the sweeps of the others: rows only
\* disappear.
LEMMA VacuumSweep ==
    ASSUME IndInv, SweepInv, DrainedBeforeDecrement, NEW v \in Vacuums, VacuumStep(v)
    PROVE  SweepInv' /\ DrainedBeforeDecrement'
<1>0. /\ vpc \in [Vacuums -> {"idle", "read", "delete", "chunk", "decrement"}]
      /\ upto \in [Vacuums -> 0..MaxMsgs]
      /\ chunk \in [Vacuums -> SUBSET Seqs]
      /\ \A r \in outgoing : r.seq \in Nat /\ r.seq > 0
  BY BoundAssumption DEF IndInv, TypeOK, TableTypes, ProcessTypes, Rows, Seqs
<1> USE DEF dbVars, leaseVars
<1>1. CASE VacSnapshot(v)
  BY <1>0, <1>1 DEF VacSnapshot, SweepInv, DrainedBeforeDecrement
<1>2. CASE VacReadCursor(v)
  BY <1>0, <1>2 DEF VacReadCursor, SweepInv, DrainedBeforeDecrement
<1>3. CASE VacSelectChunk(v)
  <2> DEFINE K == Chunk(v)
  <2>1. /\ vpc' = [vpc EXCEPT ![v] = IF K = {} THEN "decrement" ELSE "chunk"]
        /\ chunk' = [chunk EXCEPT ![v] = K]
        /\ UNCHANGED <<upto, outgoing>>
    BY <1>3 DEF VacSelectChunk
  <2>2. Cardinality(K) < VacBatch => \A r \in outgoing : r.seq \in K \/ r.seq > upto[v]
    BY ShortChunk
  <2> HIDE DEF K
  <2>3. K = {} => Cardinality(K) < VacBatch
    BY FS_EmptySet, BatchAssumption
  <2>4. SweepInv'
    BY <1>0, <2>1, <2>2 DEF SweepInv
  <2>5. DrainedBeforeDecrement'
    BY <1>0, <2>1, <2>2, <2>3 DEF DrainedBeforeDecrement
  <2> QED
    BY <2>4, <2>5
<1>4. CASE VacDeleteChunk(v)
  <2>1. /\ outgoing' = {r \in outgoing : r.seq \notin chunk[v]}
        /\ vpc[v] = "chunk"
        /\ vpc' = [vpc EXCEPT ![v] = AfterChunk(v)]
        /\ chunk' = [chunk EXCEPT ![v] = {}]
        /\ upto' = upto
    BY <1>4 DEF VacDeleteChunk, DeleteRows
  <2>2. AfterChunk(v) = "decrement" => \A r \in outgoing' : r.seq > upto[v]
    BY <2>1 DEF SweepInv, AfterChunk
  <2>3. AfterChunk(v) \in {"delete", "decrement"}
    BY DEF AfterChunk
  <2>4. SweepInv'
    BY <1>0, <2>1, <2>3 DEF SweepInv
  <2>5. DrainedBeforeDecrement'
    BY <1>0, <2>1, <2>2 DEF DrainedBeforeDecrement
  <2> QED
    BY <2>4, <2>5
<1>5. CASE VacDecrement(v)
  BY <1>0, <1>5 DEF VacDecrement, EndSweep, SweepInv, DrainedBeforeDecrement
<1>6. CASE VacStops(v)
  BY <1>0, <1>6 DEF VacStops, EndSweep, SweepInv, DrainedBeforeDecrement
<1> QED
  BY <1>1, <1>2, <1>3, <1>4, <1>5, <1>6 DEF VacuumStep

\* For any number of vacuums on one partition: whichever of them decrements the
\* counter has seen every row up to its cursor deleted, although acks, new rows
\* and the other vacuums come between its chunks.
THEOREM DrainsComplete == Spec => []DrainedBeforeDecrement
<1>1. Init => SweepInv /\ DrainedBeforeDecrement
  BY DEF Init, SweepInv, DrainedBeforeDecrement
<1>2. IndInv /\ SweepInv /\ DrainedBeforeDecrement /\ [Next]_vars
        => SweepInv' /\ DrainedBeforeDecrement'
  <2> SUFFICES ASSUME IndInv, SweepInv, DrainedBeforeDecrement, [Next]_vars
               PROVE  SweepInv' /\ DrainedBeforeDecrement'
    OBVIOUS
  <2>1. CASE UNCHANGED SweepVars
    BY <2>1 DEF SweepVars, SweepInv, DrainedBeforeDecrement
  <2> USE DEF dbVars, leaseVars, vacVars, SweepVars
  <2>2. CASE UNCHANGED vars
    BY <2>1, <2>2 DEF vars
  <2>3. ASSUME NEW p \in Producers, ProducerStep(p) PROVE UNCHANGED SweepVars
    BY <2>3 DEF ProducerStep, Enqueue, CommitEnqueue, RollbackEnqueue
  <2>4. ASSUME NEW s \in Sequencers, SequencerStep(s), ~SeqCommit(s)
        PROVE  UNCHANGED SweepVars
    BY <2>4 DEF SequencerStep, SeqClaim, SeqAbort
  <2>5. ASSUME NEW w \in Workers, WorkerStep(w) PROVE UNCHANGED SweepVars
    BY <2>5 DEF WorkerStep, Acquire, ReleaseEmpty, HandleOk, HandleReject,
                HandlerReturn, Ack, WorkerStops
  <2>6. ASSUME LeaseExpires PROVE UNCHANGED SweepVars
    BY <2>6 DEF LeaseExpires
  <2>7. ASSUME NEW u \in Vacuums, VacuumStep(u) PROVE SweepInv' /\ DrainedBeforeDecrement'
    BY <2>7, VacuumSweep
  <2> QED
    BY <2>1, <2>2, <2>3, <2>4, <2>5, <2>6, <2>7, SeqCommitSweep DEF Next
<1> QED
  BY <1>1, <1>2, Inductive, PTL DEF Spec
=============================================================================
