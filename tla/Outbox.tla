------------------------------- MODULE Outbox -------------------------------
(***************************************************************************)
(* The leased pipeline of the transactional outbox of toolkit-db, for one  *)
(* partition of one queue:                                                 *)
(*                                                                         *)
(*   producers -> incoming -> sequencers -> outgoing -> leased processors  *)
(*             -> cursor / dead letters -> vacuum.                         *)
(*                                                                         *)
(* Every table but the trace table is keyed by the partition, so the rows  *)
(* of two partitions never meet and one partition stands for all of them.  *)
(* Messages are untraced: the trace rows of a traced batch are left out.   *)
(*                                                                         *)
(* Processes (sequencer, processor and vacuum workers of any number of     *)
(* application instances) share nothing but the database.  A database      *)
(* transaction is one action where its row locks serialise it against the  *)
(* statements it could conflict with, and several actions where another    *)
(* transaction can commit between its statements.                          *)
(***************************************************************************)
EXTENDS Naturals, FiniteSets, Functions

CONSTANTS
    Producers,      \* open producer transactions
    Sequencers,     \* sequencer workers, over all instances
    Workers,        \* leased processor workers, one per instance
    Vacuums,        \* vacuum workers, over all instances
    SeqBatch,       \* SequencerConfig::batch_size
    MsgBatch,       \* msg_batch_size of a processor pass
    VacBatch,       \* VacuumTask::batch_size
    MaxMsgs,        \* bound: rows ever inserted into incoming
    MaxFaults,      \* bound: crashes, database errors, retries, late acks
    NoOne           \* SQL NULL in locked_by, and an unheld row lock

ASSUME BatchAssumption ==
    /\ SeqBatch \in Nat \ {0}
    /\ MsgBatch \in Nat \ {0}
    /\ VacBatch \in Nat \ {0}

ASSUME BoundAssumption == MaxMsgs \in Nat /\ MaxFaults \in Nat

ASSUME NoOneAssumption == NoOne \notin Workers /\ NoOne \notin Sequencers

VARIABLES
    \* the database, one partition's rows
    nextId,         \* next value of the incoming id generator
    incoming,       \* ids committed to incoming
    body,           \* ids of the rows of body
    sequence,       \* partitions.sequence
    outgoing,       \* rows of outgoing: [seq, body_id]
    processedSeq,   \* processor.processed_seq
    attempts,       \* processor.attempts
    lockedBy,       \* processor.locked_by
    lockedUntil,    \* processor.locked_until: NULL, or its side of NOW()
    deadLetters,    \* number of dead_letters rows of each seq
    counter,        \* vacuum_counter.counter
    \* the processes
    open,           \* ids inserted by each open producer transaction
    rowLock,        \* sequencer whose transaction locks the partition row
    claim,          \* ids each open sequencer transaction has claimed
    wpc,            \* where each processor worker is
    batch,          \* seqs each worker has read
    cursor,         \* seq of the last message each worker's batch has processed
    rejected,       \* seqs each worker's batch has recorded as rejections
    vpc,            \* where each vacuum worker is
    snapshot,       \* the counter value each vacuum has snapshot
    upto,           \* the processed_seq each vacuum has read
    chunk,          \* seqs of the rows each vacuum is about to delete
    \* history
    commits,        \* number of producer commits so far
    committedAt,    \* which commit made each id visible, 0 before
    sequenced,      \* every row ever inserted into outgoing
    handled,        \* seqs for which a handler call has returned Ok
    refused,        \* seqs a handler has rejected, persisted or not
    faults          \* faults so far, for the bound

dbVars == <<nextId, incoming, body, sequence, outgoing, processedSeq,
            attempts, lockedBy, lockedUntil, deadLetters, counter>>
leaseVars == <<processedSeq, attempts, lockedBy, lockedUntil>>
workerVars == <<wpc, batch, cursor, rejected>>
vacVars == <<vpc, snapshot, upto, chunk>>
commitVars == <<commits, committedAt>>
vars == <<dbVars, open, rowLock, claim, workerVars, vacVars,
          commitVars, sequenced, handled, refused, faults>>

Ids == 1..MaxMsgs
Seqs == 1..MaxMsgs
Rows == [seq : Seqs, body_id : Ids]

-----------------------------------------------------------------------------
(* SQL idioms *)

\* ORDER BY ... LIMIT n over a set of distinct keys.
FirstN(S, n) == {x \in S : Cardinality({y \in S : y < x}) < n}

SeqsOf(rows) == {r.seq : r \in rows}
BodiesOf(rows) == {r.body_id : r \in rows}

\* Mutant: the claimed rows are numbered in no particular order.
NumberingUnordered(ids, start) ==
    Bijection(ids, (start + 1)..(start + Cardinality(ids)))

\* The consecutive seqs start+1, start+2, ... given to ids in id order.
Numbering(ids, start) ==
    {f \in Bijection(ids, (start + 1)..(start + Cardinality(ids))) :
        \A a, b \in ids : a < b => f[a] < f[b]}

-----------------------------------------------------------------------------
Init ==
    /\ nextId = 1
    /\ incoming = {}
    /\ body = {}
    /\ sequence = 0
    /\ outgoing = {}
    /\ processedSeq = 0
    /\ attempts = 0
    /\ lockedBy = NoOne
    /\ lockedUntil = "null"
    /\ deadLetters = [s \in Seqs |-> 0]
    /\ counter = 0
    /\ open = [p \in Producers |-> {}]
    /\ rowLock = NoOne
    /\ claim = [s \in Sequencers |-> {}]
    /\ wpc = [w \in Workers |-> "idle"]
    /\ batch = [w \in Workers |-> {}]
    /\ cursor = [w \in Workers |-> 0]
    /\ rejected = [w \in Workers |-> {}]
    /\ vpc = [v \in Vacuums |-> "idle"]
    /\ snapshot = [v \in Vacuums |-> 0]
    /\ upto = [v \in Vacuums |-> 0]
    /\ chunk = [v \in Vacuums |-> {}]
    /\ commits = 0
    /\ committedAt = [i \in Ids |-> 0]
    /\ sequenced = {}
    /\ handled = {}
    /\ refused = {}
    /\ faults = 0

\* A fault is charged to the budget.
Fault == faults < MaxFaults /\ faults' = faults + 1

-----------------------------------------------------------------------------
(* Producers.  The id generators are not transactional: an id is taken at  *)
(* the INSERT, the rows appear at COMMIT, so commits need not follow ids.  *)

\* Outbox::enqueue (and one row of enqueue_batch) inside a caller's transaction.
Enqueue(p) ==
    /\ nextId <= MaxMsgs
    /\ nextId' = nextId + 1
    /\ open' = [open EXCEPT ![p] = @ \cup {nextId}]
    /\ UNCHANGED <<incoming, body, sequence, outgoing, leaseVars, deadLetters,
                   counter, rowLock, claim, workerVars, vacVars, commitVars,
                   sequenced, handled, refused, faults>>

\* The caller commits: body and incoming rows become visible together.
CommitEnqueue(p) ==
    /\ open[p] # {}
    /\ incoming' = incoming \cup open[p]
    /\ body' = body \cup open[p]
    /\ commits' = commits + 1
    /\ committedAt' = [i \in Ids |-> IF i \in open[p] THEN commits' ELSE committedAt[i]]
    /\ open' = [open EXCEPT ![p] = {}]
    /\ UNCHANGED <<nextId, sequence, outgoing, leaseVars, deadLetters, counter,
                   rowLock, claim, workerVars, vacVars, sequenced, handled,
                   refused, faults>>

\* The caller rolls back: the ids are burnt.
RollbackEnqueue(p) ==
    /\ open[p] # {}
    /\ open' = [open EXCEPT ![p] = {}]
    /\ UNCHANGED <<dbVars, rowLock, claim, workerVars, vacVars, commitVars,
                   sequenced, handled, refused, faults>>

-----------------------------------------------------------------------------
(* Sequencers.  One iteration of process_partition is one transaction;     *)
(* producers can commit between its SELECT and its COMMIT.                 *)

\* BEGIN, lock the partition row (SKIP LOCKED: skipped when it is held) and
\* SELECT the incoming rows to claim; an empty claim drops the transaction.
SeqClaim(s) ==
    /\ claim[s] = {}
    /\ rowLock = NoOne
    /\ incoming # {}
    /\ rowLock' = s
    /\ claim' = [claim EXCEPT ![s] = FirstN(incoming, SeqBatch)]
    /\ UNCHANGED <<dbVars, open, workerVars, vacVars, commitVars, sequenced,
                   handled, refused, faults>>

\* DELETE the claimed ids, allocate the seqs, insert into outgoing, COMMIT.
SeqCommit(s) ==
    /\ claim[s] # {}
    /\ incoming' = incoming \ claim[s]
    /\ sequence' = sequence + Cardinality(claim[s])
    /\ \E f \in Numbering(claim[s], sequence) :
          LET rows == {[seq |-> f[i], body_id |-> i] : i \in claim[s]}
          IN  /\ outgoing' = outgoing \cup rows
              /\ sequenced' = sequenced \cup rows
    /\ rowLock' = NoOne
    /\ claim' = [claim EXCEPT ![s] = {}]
    /\ UNCHANGED <<nextId, body, leaseVars, deadLetters, counter, open,
                   workerVars, vacVars, commitVars, handled, refused, faults>>

\* A database error, or a crash: the transaction rolls back.
SeqAbort(s) ==
    /\ claim[s] # {}
    /\ Fault
    /\ rowLock' = NoOne
    /\ claim' = [claim EXCEPT ![s] = {}]
    /\ UNCHANGED <<dbVars, open, workerVars, vacVars, commitVars, sequenced,
                   handled, refused>>

-----------------------------------------------------------------------------
(* Leased processors: acquire + read, handler, lease-guarded ack.          *)

\* Mutant: an expired lease is not taken over.
LeaseFreeUnlessHeld == lockedBy = NoOne

\* lease_acquire's WHERE clause.
LeaseFree == lockedBy = NoOne \/ lockedUntil = "past"

\* Mutant: the read starts one past the first unprocessed seq.
ReadableSkipping ==
    FirstN({s \in SeqsOf(outgoing) : s > processedSeq + 1}, MsgBatch)

\* read_outgoing_batch: seq > processed_seq ORDER BY seq LIMIT MsgBatch.
Readable == FirstN({s \in SeqsOf(outgoing) : s > processedSeq}, MsgBatch)

\* read_messages fails when an outgoing row has no body.
BodiesPresent(seqs) == \A r \in outgoing : r.seq \in seqs => r.body_id \in body

\* acquire_lease_and_read's transaction.  A missing body is an error, and the
\* transaction, lease included, is rolled back.
Acquire(w) ==
    /\ wpc[w] = "idle"
    /\ LeaseFree
    /\ BodiesPresent(Readable)
    /\ lockedBy' = w
    /\ lockedUntil' = "future"
    /\ attempts' = attempts + 1
    /\ batch' = [batch EXCEPT ![w] = Readable]
    /\ wpc' = [wpc EXCEPT ![w] = IF Readable = {} THEN "empty" ELSE "handling"]
    /\ UNCHANGED <<nextId, incoming, body, sequence, outgoing, processedSeq,
                   deadLetters, counter, open, rowLock, claim, cursor, rejected,
                   vacVars, commitVars, sequenced, handled, refused, faults>>

\* The lease row after lease_release, lease_ack_advance and lease_record_retry.
Unlock == lockedBy' = NoOne /\ lockedUntil' = "null"

\* lease_release: a no-op on a lease somebody else holds by now.
LeaseRelease(w) ==
    IF lockedBy = w
    THEN Unlock /\ attempts' = 0
    ELSE UNCHANGED <<lockedBy, lockedUntil, attempts>>

\* The pass is over and its Batch is dropped.
EndPass(w) ==
    /\ wpc' = [wpc EXCEPT ![w] = "idle"]
    /\ batch' = [batch EXCEPT ![w] = {}]
    /\ cursor' = [cursor EXCEPT ![w] = 0]
    /\ rejected' = [rejected EXCEPT ![w] = {}]

\* Nothing to read: a statement of its own gives the lease back.
ReleaseEmpty(w) ==
    /\ wpc[w] = "empty"
    /\ LeaseRelease(w)
    /\ EndPass(w)
    /\ UNCHANGED <<nextId, incoming, body, sequence, outgoing, processedSeq,
                   deadLetters, counter, open, rowLock, claim, vacVars,
                   commitVars, sequenced, handled, refused, faults>>

\* Messages of w's batch that next_msg has not handed out yet.
Remaining(w) == {s \in batch[w] : s > cursor[w]}

\* The message next_msg hands out, and the last message of the batch.
IsNext(w, s) == s \in Remaining(w) /\ \A t \in Remaining(w) : s <= t
IsLast(w, s) == s \in batch[w] /\ \A t \in batch[w] : t <= s

\* The handler returns Ok for the next message; Batch::ack.
HandleOk(w) ==
    /\ wpc[w] = "handling"
    /\ \E next \in batch[w] :
          /\ IsNext(w, next)
          /\ handled' = handled \cup {next}
          /\ cursor' = [cursor EXCEPT ![w] = next]
    /\ UNCHANGED <<dbVars, open, rowLock, claim, wpc, batch, rejected, vacVars,
                   commitVars, sequenced, refused, faults>>

\* The handler rejects the next message; Batch::reject records it for the ack.
HandleReject(w) ==
    /\ wpc[w] = "handling"
    /\ \E next \in batch[w] :
          /\ IsNext(w, next)
          /\ refused' = refused \cup {next}
          /\ rejected' = [rejected EXCEPT ![w] = @ \cup {next}]
          /\ cursor' = [cursor EXCEPT ![w] = next]
    /\ UNCHANGED <<dbVars, open, rowLock, claim, wpc, batch, vacVars,
                   commitVars, sequenced, handled, faults>>

\* The handler returns.  Success may leave a tail unprocessed (should_stop);
\* Retry is also what dropping the future at the lease deadline or after
\* stop_grace yields; Reject condemns the tail (a batch handler).
HandlerReturn(w) ==
    /\ wpc[w] = "handling"
    /\ \/ /\ Remaining(w) = {}
          /\ wpc' = [wpc EXCEPT ![w] = "Success"]
          /\ UNCHANGED <<refused, faults>>
       \/ /\ Fault
          /\ \E r \in {"Success", "Retry"} : wpc' = [wpc EXCEPT ![w] = r]
          /\ UNCHANGED refused
       \/ /\ Remaining(w) # {}
          /\ wpc' = [wpc EXCEPT ![w] = "Reject"]
          /\ refused' = refused \cup Remaining(w)
          /\ UNCHANGED faults
    /\ UNCHANGED <<dbVars, open, rowLock, claim, batch, cursor, rejected,
                   vacVars, commitVars, sequenced, handled>>

\* Mutant: the cursor update is not guarded by locked_by.
AckAdvanceUnguarded(w, seq, dead) ==
    /\ processedSeq' = seq
    /\ deadLetters' = [s \in Seqs |-> deadLetters[s] + (IF s \in dead THEN 1 ELSE 0)]
    /\ counter' = counter + 1
    /\ attempts' = 0
    /\ Unlock

\* lease_guarded_ack on a lease w still holds (the guard is locked_by alone:
\* an expired lease nobody has taken is still good) and that moves the cursor:
\* dead letters, cursor, lease and vacuum counter in one transaction.
AckAdvance(w, seq, dead) ==
    /\ lockedBy = w
    /\ processedSeq' = seq
    /\ deadLetters' = [s \in Seqs |-> deadLetters[s] + (IF s \in dead THEN 1 ELSE 0)]
    /\ counter' = counter + 1
    /\ attempts' = 0
    /\ Unlock

\* Mutant: a lost lease leaves the persisted rejections behind.
AckLostKeepsRejections(w) ==
    /\ lockedBy # w
    /\ deadLetters' = [s \in Seqs |->
                          deadLetters[s] + (IF s \in rejected[w] THEN 1 ELSE 0)]
    /\ UNCHANGED <<processedSeq, counter, attempts, lockedBy, lockedUntil>>

\* The rows_affected = 0 branch of a guarded ack: everything is rolled back.
AckLost(w) ==
    /\ lockedBy # w
    /\ UNCHANGED <<processedSeq, deadLetters, counter, attempts, lockedBy,
                   lockedUntil>>

\* Mutant: Success acks the whole batch, processed or not.
AckSuccessWhole(w) ==
    /\ wpc[w] = "Success"
    /\ \/ \E last \in batch[w] : IsLast(w, last) /\ AckAdvance(w, last, rejected[w])
       \/ AckLost(w)

\* Success acks the processed prefix; with none processed it only releases.
AckSuccess(w) ==
    /\ wpc[w] = "Success"
    /\ \/ cursor[w] > 0 /\ AckAdvance(w, cursor[w], rejected[w])
       \/ cursor[w] > 0 /\ AckLost(w)
       \/ /\ cursor[w] = 0
          /\ LeaseRelease(w)
          /\ UNCHANGED <<processedSeq, deadLetters, counter>>

\* Retry acks the processed prefix; with none processed it records the retry,
\* keeping the attempt lease_acquire counted.
AckRetry(w) ==
    /\ wpc[w] = "Retry"
    /\ \/ cursor[w] > 0 /\ AckAdvance(w, cursor[w], rejected[w])
       \/ /\ cursor[w] = 0
          /\ lockedBy = w
          /\ Unlock
          /\ UNCHANGED <<processedSeq, deadLetters, counter, attempts>>
       \/ AckLost(w)

\* Reject dead-letters the tail and acks the whole batch.
AckReject(w) ==
    /\ wpc[w] = "Reject"
    /\ \/ \E last \in batch[w] :
             /\ IsLast(w, last)
             /\ AckAdvance(w, last, rejected[w] \cup Remaining(w))
       \/ AckLost(w)

\* lease_guarded_ack.
Ack(w) ==
    /\ AckSuccess(w) \/ AckRetry(w) \/ AckReject(w)
    /\ EndPass(w)
    /\ UNCHANGED <<nextId, incoming, body, sequence, outgoing, open, rowLock,
                   claim, vacVars, commitVars, sequenced, handled, refused,
                   faults>>

\* The worker stops anywhere in a pass: its process dies, or a statement fails
\* and execute() returns the error.  The lease row stays as it is.
WorkerStops(w) ==
    /\ wpc[w] # "idle"
    /\ Fault
    /\ EndPass(w)
    /\ UNCHANGED <<dbVars, open, rowLock, claim, vacVars, commitVars,
                   sequenced, handled, refused>>

\* NOW() passes locked_until.  While the holder is at work that takes a delay
\* its headroom did not foresee, which is a fault.
LeaseExpires ==
    /\ lockedUntil = "future"
    /\ lockedUntil' = "past"
    /\ IF wpc[lockedBy] = "idle" THEN UNCHANGED faults ELSE Fault
    /\ UNCHANGED <<nextId, incoming, body, sequence, outgoing, processedSeq,
                   attempts, lockedBy, deadLetters, counter, open, rowLock,
                   claim, workerVars, vacVars, commitVars, sequenced, handled,
                   refused>>

-----------------------------------------------------------------------------
(* Vacuum: snapshot the counter, read the cursor, delete in chunks,        *)
(* decrement by the snapshot.  Each is a statement or transaction of its   *)
(* own, and the chunk's SELECT locks nothing: a vacuum of another instance *)
(* can delete the same rows before this one does.                          *)

\* snapshot_dirty finds the partition dirty.
VacSnapshot(v) ==
    /\ vpc[v] = "idle"
    /\ counter > 0
    /\ snapshot' = [snapshot EXCEPT ![v] = counter]
    /\ vpc' = [vpc EXCEPT ![v] = "read"]
    /\ UNCHANGED <<dbVars, open, rowLock, claim, workerVars, upto, commitVars,
                   sequenced, handled, refused, faults, chunk>>

\* vacuum_partition reads processed_seq; with 0 there is nothing to delete.
VacReadCursor(v) ==
    /\ vpc[v] = "read"
    /\ upto' = [upto EXCEPT ![v] = processedSeq]
    /\ vpc' = [vpc EXCEPT ![v] = IF processedSeq = 0 THEN "decrement" ELSE "delete"]
    /\ UNCHANGED <<dbVars, open, rowLock, claim, workerVars, snapshot, chunk,
                   commitVars, sequenced, handled, refused, faults>>

\* Mutant: the chunk reaches one past the cursor.
ChunkTooFar(v) == FirstN({s \in SeqsOf(outgoing) : s <= upto[v] + 1}, VacBatch)

\* select_outgoing_chunk: seq <= processed_seq ORDER BY seq LIMIT VacBatch.
Chunk(v) == FirstN({s \in SeqsOf(outgoing) : s <= upto[v]}, VacBatch)

\* delete_chunk begins; with nothing selected it rolls back and the drain is over.
VacSelectChunk(v) ==
    /\ vpc[v] = "delete"
    /\ chunk' = [chunk EXCEPT ![v] = Chunk(v)]
    /\ vpc' = [vpc EXCEPT ![v] = IF Chunk(v) = {} THEN "decrement" ELSE "chunk"]
    /\ UNCHANGED <<dbVars, open, rowLock, claim, workerVars, snapshot, upto,
                   commitVars, sequenced, handled, refused, faults>>

\* The two DELETEs of delete_chunk, of what is still there.
DeleteRows(seqs) ==
    /\ outgoing' = {r \in outgoing : r.seq \notin seqs}
    /\ body' = body \ BodiesOf({r \in outgoing : r.seq \in seqs})

\* Mutant: the first chunk ends the drain.
AfterFirstChunk(v) == "decrement"

\* A chunk that was short when it was selected ends the drain.
AfterChunk(v) == IF Cardinality(chunk[v]) < VacBatch THEN "decrement" ELSE "delete"

\* delete_chunk deletes and commits.
VacDeleteChunk(v) ==
    /\ vpc[v] = "chunk"
    /\ DeleteRows(chunk[v])
    /\ vpc' = [vpc EXCEPT ![v] = AfterChunk(v)]
    /\ chunk' = [chunk EXCEPT ![v] = {}]
    /\ UNCHANGED <<nextId, incoming, sequence, leaseVars, deadLetters, counter,
                   open, rowLock, claim, workerVars, snapshot, upto, commitVars,
                   sequenced, handled, refused, faults>>

\* The sweep is over.
EndSweep(v) ==
    /\ vpc' = [vpc EXCEPT ![v] = "idle"]
    /\ snapshot' = [snapshot EXCEPT ![v] = 0]
    /\ upto' = [upto EXCEPT ![v] = 0]
    /\ chunk' = [chunk EXCEPT ![v] = {}]

\* GREATEST(counter - snapshot, 0).
DecrementedCounter(v) ==
    IF counter >= snapshot[v] THEN counter - snapshot[v] ELSE 0

VacDecrement(v) ==
    /\ vpc[v] = "decrement"
    /\ counter' = DecrementedCounter(v)
    /\ EndSweep(v)
    /\ UNCHANGED <<nextId, incoming, body, sequence, outgoing, leaseVars,
                   deadLetters, open, rowLock, claim, workerVars, commitVars,
                   sequenced, handled, refused, faults>>

\* Cancelled, failed or crashed: the counter keeps its value.
VacStops(v) ==
    /\ vpc[v] # "idle"
    /\ Fault
    /\ EndSweep(v)
    /\ UNCHANGED <<dbVars, open, rowLock, claim, workerVars, commitVars,
                   sequenced, handled, refused>>

-----------------------------------------------------------------------------
ProducerStep(p) == Enqueue(p) \/ CommitEnqueue(p) \/ RollbackEnqueue(p)
SequencerStep(s) == SeqClaim(s) \/ SeqCommit(s) \/ SeqAbort(s)
WorkerStep(w) ==
    \/ Acquire(w) \/ ReleaseEmpty(w)
    \/ HandleOk(w) \/ HandleReject(w) \/ HandlerReturn(w)
    \/ Ack(w) \/ WorkerStops(w)
VacuumStep(v) ==
    \/ VacSnapshot(v) \/ VacReadCursor(v) \/ VacSelectChunk(v)
    \/ VacDeleteChunk(v) \/ VacDecrement(v) \/ VacStops(v)

Next ==
    \/ \E p \in Producers : ProducerStep(p)
    \/ \E s \in Sequencers : SequencerStep(s)
    \/ \E w \in Workers : WorkerStep(w)
    \/ LeaseExpires
    \/ \E v \in Vacuums : VacuumStep(v)

Spec == Init /\ [][Next]_vars

\* What the scheduler owes: every worker loop is woken again (notify or poll
\* interval), so a step that stays possible is taken; an abandoned lease
\* expires.  Faults are never owed, and their number is bounded.
SequencerProgress(s) == SeqClaim(s) \/ SeqCommit(s)
WorkerProgress(w) ==
    Acquire(w) \/ ReleaseEmpty(w) \/ HandleOk(w) \/ HandlerReturn(w) \/ Ack(w)
VacuumProgress(v) ==
    VacSnapshot(v) \/ VacReadCursor(v) \/ VacSelectChunk(v) \/ VacDeleteChunk(v)
    \/ VacDecrement(v)

Fairness ==
    /\ \A s \in Sequencers : WF_vars(SequencerProgress(s))
    /\ \A w \in Workers : WF_vars(WorkerProgress(w))
    /\ \A v \in Vacuums : WF_vars(VacuumProgress(v))
    /\ WF_vars(LeaseExpires)

FairSpec == Spec /\ Fairness

-----------------------------------------------------------------------------
(* Properties *)

Committed == {i \in Ids : committedAt[i] > 0}

TableTypes ==
    /\ nextId \in 1..(MaxMsgs + 1)
    /\ incoming \subseteq Ids
    /\ body \subseteq Ids
    /\ sequence \in 0..MaxMsgs
    /\ outgoing \subseteq Rows
    /\ deadLetters \in [Seqs -> Nat]
    /\ counter \in Nat

LeaseTypes ==
    /\ processedSeq \in 0..MaxMsgs
    /\ attempts \in Nat
    /\ lockedBy \in Workers \cup {NoOne}
    /\ lockedUntil \in {"null", "future", "past"}
    /\ lockedBy = NoOne <=> lockedUntil = "null"

ProcessTypes ==
    /\ open \in [Producers -> SUBSET Ids]
    /\ rowLock \in Sequencers \cup {NoOne}
    /\ claim \in [Sequencers -> SUBSET Ids]
    /\ wpc \in [Workers -> {"idle", "empty", "handling", "Success", "Retry", "Reject"}]
    /\ batch \in [Workers -> SUBSET Seqs]
    /\ cursor \in [Workers -> 0..MaxMsgs]
    /\ rejected \in [Workers -> SUBSET Seqs]
    /\ vpc \in [Vacuums -> {"idle", "read", "delete", "chunk", "decrement"}]
    /\ snapshot \in [Vacuums -> Nat]
    /\ upto \in [Vacuums -> 0..MaxMsgs]
    /\ chunk \in [Vacuums -> SUBSET Seqs]

HistoryTypes ==
    /\ commits \in Nat
    /\ committedAt \in [Ids -> Nat]
    /\ sequenced \subseteq Rows
    /\ handled \subseteq Seqs
    /\ refused \subseteq Seqs
    /\ faults \in 0..MaxFaults

\* The tables, the lease row and the workers hold values of their types; in
\* particular no counter leaves its range.
TypeOK == TableTypes /\ LeaseTypes /\ ProcessTypes /\ HistoryTypes

\* No message is lost or duplicated on its way from incoming to outgoing: each
\* committed id is either still in incoming or has exactly one seq, and the
\* seqs given out are 1..sequence without a gap, whatever producers commit
\* between a sequencer's SELECT and its COMMIT and whichever sequencer fails.
SequencedOnce ==
    /\ \A r1, r2 \in sequenced :
          r1.seq = r2.seq \/ r1.body_id = r2.body_id => r1 = r2
    /\ SeqsOf(sequenced) = 1..sequence
    /\ Committed = incoming \cup BodiesOf(sequenced)
    /\ incoming \cap BodiesOf(sequenced) = {}

\* The order the sequencer promises: of two messages the one with the smaller
\* id gets the smaller seq, unless it was committed after the other one.
FifoOrder ==
    \A r1, r2 \in sequenced :
        /\ r1.body_id < r2.body_id
        /\ committedAt[r1.body_id] <= committedAt[r2.body_id]
        => r1.seq < r2.seq

\* Nothing past the cursor is ever missing: each seq not yet processed still
\* has its outgoing row and its body, although vacuums delete from a cursor
\* value they read earlier.
UnprocessedKept ==
    \A s \in (processedSeq + 1)..sequence :
        \E r \in outgoing : r.seq = s /\ r.body_id \in body

\* At least once: the cursor has passed a message only if a handler returned
\* Ok for it or it has a dead letter.
NothingSkipped ==
    \A s \in 1..processedSeq : s \in handled \/ deadLetters[s] > 0

\* A message becomes a dead letter at most once, only after a handler refused
\* it, and only in the transaction that moves the cursor past it.
DeadLetterOnce ==
    \A s \in Seqs :
        /\ deadLetters[s] <= 1
        /\ deadLetters[s] = 1 => s \in refused /\ s <= processedSeq

\* Per-partition order of delivery: before a handler finishes with a message
\* for the first time, some handler has finished with every earlier one.
OrderedDelivery ==
    \A s \in handled \cup refused : \A t \in 1..(s - 1) : t \in handled \cup refused

\* The payload table holds the payloads of incoming and outgoing, no others:
\* neither the sequencer's hand-over nor the vacuum's chunks leak or lose one.
BodiesAccounted == body = incoming \cup BodiesOf(outgoing)

\* A vacuum takes its snapshot off the counter, which makes the partition look
\* clean, only when every row up to the cursor it read is gone, although acks,
\* sequencers and the vacuums of other instances run between its chunks
\* (drain_partition: rows left behind "become orphaned").  It says nothing of
\* rows processed after that read: two vacuums that took the same snapshot take
\* it off twice, and such a row can stay until the partition's next ack.
DrainedBeforeDecrement ==
    \A v \in Vacuums : vpc[v] = "decrement" => \A r \in outgoing : r.seq > upto[v]

\* The cursor never moves back, even when a worker that lost its lease acks
\* late.
CursorMonotone == [][processedSeq' >= processedSeq]_vars

\* The refinement mapping to OrderedLog.
DeadSeqs == {s \in Seqs : deadLetters[s] > 0}

Log == INSTANCE OrderedLog
       WITH pending <- incoming, log <- sequenced, dead <- DeadSeqs,
            position <- processedSeq

\* The pipeline implements the ordered log: behind incoming, outgoing, leases,
\* late acks, crashes and vacuums, each step is a step of OrderedLog or invisible.
ImplementsLog == Log!Spec

\* Once the faults are over every committed message gets through the pipeline: by
\* whichever worker comes first it is handled or dead-lettered.
EventuallyProcessed ==
    \A i \in Ids :
        committedAt[i] > 0 ~>
            \E r \in sequenced : r.body_id = i /\ r.seq <= processedSeq

\* The tables agree at every step, whoever dies between two statements: what is
\* committed is numbered once and without a gap, and each row that is still to
\* be delivered has its payload, each payload its row.
TablesAgree == TypeOK /\ SequencedOnce /\ UnprocessedKept /\ BodiesAccounted
=============================================================================
