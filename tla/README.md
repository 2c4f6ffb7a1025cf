# TLA+ models of Constructor Fabric Gears

The repository is a monorepo of a Rust framework: a toolkit (`libs/`), system gears
(`gears/system/`), billing gears (`gears/bss/`) and service gears (`gears/`). Most of it
is CRUD over SQL, plugin dispatch, DTOs and HTTP. What carries the system's own hard
logic are a few coordination mechanisms that the rest builds on: several processes on
several instances, which share nothing but a database or a cache, hold leases with
timeouts, crash, retry, and still owe their callers exclusion, order and exactly
counted results. This project models those mechanisms, checks them with TLC and proves
the safety of all of them with TLAPS.

## The system and its parts

| Part | State | Operations | Hard because |
|---|---|---|---|
| **outbox**, `libs/toolkit-db/src/outbox/` | | | |
| enqueue (`core.rs`) | `incoming`, `body` rows | enqueue, enqueue_batch, in a caller's transaction | ids are handed out at INSERT, rows appear at COMMIT: commits do not follow ids |
| sequencer (`workers/sequencer.rs`) | `partitions.sequence`, `outgoing` | lock, claim, delete, allocate seqs, insert | several instances compete; producers commit in the middle; the transaction may fail |
| leased processor (`strategy.rs`, `batch.rs`, `handler.rs`, `workers/processor.rs`) | `processor` row, the `Batch` in memory | acquire + read, handler, lease-guarded ack | the worker may die, overrun its lease and ack late; handlers process part of a batch |
| vacuum (`workers/vacuum.rs`) | `vacuum_counter` | snapshot, read cursor, delete chunks, decrement | every statement is on its own; acks and hand-overs fall in between |
| prioritizer (`prioritizer.rs`, `wake.rs`, `workers/reconciler.rs`) | inbox, scheduler, a tokio `Notify` | push_dirty, take, processed / skipped / error, Wake::fire, reconcile | two mutexes, coalescing, one stored permit, notifications after unlock |
| dead letters (`dead_letter.rs`) | `dead_letters` rows | replay, resolve, reject, discard, cleanup | claims with deadlines, SELECT then UPDATE by id, callers that die or are late |
| lease timing (`strategy.rs`, `types.rs`) | two clocks | lease in the database, handler budget in the worker | nothing but time keeps two handlers apart |
| traces (`subscription.rs`, `store.rs`, `workers/notifier.rs`, `retry_reporter.rs`, `trace_sweeper.rs`) | trace rows; registry and watch channels of the owner | count down, complete, claim, deliver, subscribe, report retries, sweep | acks of several partitions meet on one row; whoever completes it races the notifier, the subscriber and the sweeper |
| **coord lease**, `gears/bss/libs/coord`, and its copy in account-management | one lease row; a guard and its heartbeat | acquire, steal, renew, fence, release | SERIALIZABLE snapshots, three clocks, heartbeats whose answer is lost |
| **cluster**, `gears/system/cluster` | one cache record per name | | |
| lease store (`defaults/lease.rs`) | record: owner, fence, deadline, version | try_acquire (insert or steal), renew, release | no transaction: read, decide, conditional write; versions restart when a key is deleted |
| lock (`defaults/lock.rs`) | guards, waiters and their watches | try_lock, lock, renew, release, shutdown | a release may fall between the failed claim and the wait |
| leader election (`defaults/leader.rs`) | a task per candidate | enrol, renew, observe, reclaim, resign | timer, watch, store answers and cancellation race in one `select!` |
| **ledger**, `gears/bss/ledger` | journal, dedup rows, chain tip, balances, periods, baseline, freeze | post, intake + apply, close, reopen, tie-out, verify | retried transactions with lost answers; certification beside posting |
| **event broker**, `gears/system/event-broker` | coordinator, generation watches, stream leases, cursors, markers | JOIN, LEAVE, :stream, :seek, DELETE, sweep | every await of a request is a place where others run; state read before it is used after it |

They meet as follows. Handlers of any gear enqueue into the outbox inside their own
transactions; the ledger announces its entries that way. Inside an instance producers
and workers meet in the prioritizer and its `Notify`; across instances in rows, row locks
and leases. Billing jobs (the ledger's close and verifier among them) run under the coord
lease. The event broker's delivery instances write markers into the cluster cache, the store
under locks and elections: from a subscription to its group, from a group to the instance that
owns it (`repo.rs:30-32`). Who is to follow them is not there yet: the dispatcher resolves an
instance through the directory and says that a lookup in the cache is "out of scope"
(`router.rs:1-5`). `PROJECT.json` lists every component of
the repository with its status, and the hazards at the lines where they bite.

What makes each part correct:

- sequencing: every committed message gets exactly one seq, seqs have no gap, and
  order is kept among messages committed in that order;
- delivery: the cursor passes a message only when a handler returned Ok for it or it
  is a dead letter, never moves back, and delivery starts in order;
- vacuum: only processed rows go, with their payloads, and nobody settles the counter for rows
  it has not seen go;
- prioritizer: no partition is worked on twice at once, no dirty signal and no
  wakeup is lost;
- dead letters: a claim is honoured until its timeout, rows follow the lifecycle;
- lease timing: two handlers of a partition never run at the same time;
- traces: a row is counted down exactly, a completion is true, announced once, and
  reaches the subscription that waits for it;
- coord lease: a live lease is not stolen, only its holder frees it, a fenced write
  belongs to the tenure that claimed last (one copy breaks this, see Findings), a dead holder
  blocks for one TTL;
- cluster: one holder, fences that tell tenures apart, waits that end, a loss of
  leadership that is shown, a lapsed claim that is taken;
- ledger: one linear chain, one entry per key, balances that are the journal's, closed
  periods that stay as certified, no false alarms;
- consumer groups: an exact split that every member is told, sessions that follow what
  their member holds from the moment they are open, members that are reaped when they are gone.

## Modules

| Module | Models | Proofs | TLC |
|---|---|---|---|
| `Outbox` | tables, sequencers, leased processors and vacuum of one partition | `OutboxProofs` | `MCOutbox` |
| `OrderedLog` | what a partition promises: the abstract specification `Outbox` implements | (in `OutboxProofs`) | `MCOutbox` |
| `Prioritizer` | inbox, scheduler, `Notify`, sequencer loop, reconciler of one instance | `PrioritizerProofs` | `MCPrioritizer` |
| `DeadLetters` | the dead letter table and its callers | `OutboxTimeoutProofs` | `MCSideBySide` |
| `LeaseTiming` | a leased pass in discrete time | `OutboxTimeoutProofs` | `MCSideBySide` |
| `TraceMail` | traced batches from the submit to the subscriber, over several partitions and instances | `TraceMailProofs` | `MCTraceMail` |
| `CoordLease` | the lease row, its guards and heartbeats, in both copies | `CoordinatorProofs` | `MCCoordLease` |
| `ClusterLease` | the cache record and the store operations in flight on it | (in the next two) | (through the next two) |
| `ClusterLock` | composes `ClusterLease` with guards, waiters and remote clients | `ClusterLockProofs` | `MCClusterLock` |
| `ClusterElection` | composes `ClusterLease` with election tasks | `ClusterElectionProofs` | `MCClusterElection` |
| `Ledger` | posting engine, queue, periods, tie-out, verifier | `LedgerProofs` | `MCSideBySide`, `MCLedger` |
| `ConsumerGroup` | one group: coordinator, requests, sessions, sweeper | `CoordinatorProofs` | `MCConsumerGroup` |

Three conventions. Mutants (operators commented "Mutant:") are wrong variants of a
definition; they occur in no specification, and each breaks the property it is meant
for, which shows that the property depends on the code it is about. Variables whose
comment says *history* are read by properties only. Where one component is used in
several ways (a guard or a remote client, with or without the sweeper, this or that set of
requests) a variable that no step changes (`deploy`, `library`, `plan`) is chosen in `Init` from
a constant set, so one run covers every way; `Spec` conjoins UNCHANGED of it to each step.

### Outbox and OrderedLog

One partition of one queue: all tables but the trace table are keyed by the
partition. A message is its id; a body row is the id of its message. A database
transaction is one action where row locks serialise it against what it could
conflict with, and several where another transaction can commit between its
statements:

- `Enqueue` takes an id, `CommitEnqueue` makes the rows visible, `RollbackEnqueue`
  burns the ids;
- `SeqClaim` locks the partition row (SKIP LOCKED) and selects; `SeqCommit` deletes,
  allocates and inserts; `SeqAbort` is an error or a crash. The lock is held from
  the first to the second, producers commit in between;
- `Acquire` takes the lease and reads a batch in one transaction (the UPDATE locks
  the row); `ReleaseEmpty` gives it back by a statement of its own;
- `HandleOk` and `HandleReject` are the handler's calls of `Batch::ack` and
  `Batch::reject`; `HandlerReturn` is its result, a partial Success (`should_stop`) and
  the Retry of a dropped handler included;
- `Ack` is `lease_guarded_ack`: dead letters, cursor, lease and counter in one
  transaction, guarded by `locked_by` only, a no-op when the lease is somebody else's;
- `WorkerStops` is a crash or a database error anywhere; `LeaseExpires` is time;
- `VacSnapshot`, `VacReadCursor`, `VacSelectChunk`, `VacDeleteChunk`, `VacDecrement`,
  `VacStops` are the statements of a sweep. A chunk is selected without a lock and deleted by
  id, so two vacuums may delete the same one; each counts what it selected. Every instance has
  vacuums of its own (`manager.rs:649-710`), so there are several.

`OrderedLog` has no processes, leases, tables or failures: messages are published, enter a
log once, are handled or refused in order, and one position moves over what is finished
with. `Outbox!ImplementsLog` maps `incoming` to what is pending, the history of seqs to the
log, dead letters to positions and `processedSeq` to the position.

### Prioritizer

Each critical section is an action, and each `notify_one` one more (`WorkerNotifies`,
`WakeNotifies`, `ReconcileNotifies`), because the code unlocks before it notifies. Time
is kept to what the code compares: a push may or may not fall within the coalesce
window, and `cooling` holds the pending partitions whose `dirty_since` is in the
future. `pop` may return any eligible partition (the code: the oldest). `Wait` is
the Idle branch of `WorkerTask::run_inner`; sequencer workers have no timer there.
The one-shot start notification, pacing sleeps and bulkhead permits are left out:
they delay a worker that is awake and wake nobody that waits for work.

### DeadLetters

A row is its status and which side of now() its deadline is on. `timed` is history:
the claims whose timeout still runs. `LateCallers` says whether callers report on
claims that have timed out, which the API neither prevents nor detects.

### LeaseTiming

Ticks, with `Second` of them per second so that truncation is visible. The clocks
agree and the drop of a handler at its deadline is prompt; statements take any time.

### TraceMail

Here the messages of a partition are a queue and an ack settles a prefix of it; what
happens before the ack is `Outbox`. An ack is `AckBegin` (what it will do to which trace row:
its plan), one `AckExec` per statement, which takes that row's lock and keeps it, and
`AckCommit` or a rollback: so two acks can wait for each other. The countdown completes the
trace at zero; only its owner instance may stamp it as notified, in the ack or in its
notifier (`NotifierRead`, `NotifierClaim`), and only then hands the outcome over in memory
(`Deliver`), each a step of its own. A subscription is a generation in the owner's registry
with a watch channel; it may be taken before or after the submit, replaced by a newer one,
dropped, or left when the instance closes. The retry reporter clones senders under the
registry's lock and sends after it. The sweeper selects by age and deletes afterwards.
Deployments: one batch with two subscriptions; two batches that meet in two partitions; a
batch the sweeper may collect.

### CoordLease

One row, guards with fresh UUIDs, each with a heartbeat beside it. Transactions are
SERIALIZABLE: they read a snapshot and the first to update a row wins (`AcquireConflict`,
`FenceConflict`); single statements read the current row, wait for its lock, and have NOW()
fixed when they start (`SendRenew` / `ApplyRenew`). Which arm of the acquisition runs is
decided by the worker's clock, whether the steal takes effect by the database's. The two
copies differ in the free slot's INSERT (epoch or the worker's clock) and in the fence of
`with_ack_in_tx` (an UPDATE that takes the row, or a SELECT from the snapshot); each difference
is an action of its own. `Crash` may fall anywhere, `FailRenew` and `CommitFails` lose answers.

### ClusterLease, ClusterLock, ClusterElection

`ClusterLease` models a call of `CacheLeaseStore` await by await: read the clock, put if
absent, read, decide, compare-and-swap, delete if equal; between them other calls run, time
passes and the cache reaps. A call may fail before or after it took effect. `Stall` bounds how
far a conditional write trails the read it is predicated on; no property needs a particular
value of it. `deploy.prompt` says more of a renewal: that its write reaches the cache before the
lease its read found live has lapsed. The code sees to that nowhere, and without it exclusion
fails (Findings); with it `OneHolder` and `TenuresKept` hold whatever else is late. The replicas'
clocks agree.

`ClusterLock` adds who calls: guards that draw a fresh owner, remote clients that keep
theirs and share it with nobody (`LockAssumption`), `lock()` with its subscription, its wait bounded by the incumbent's lapse and by the
caller's patience, watch events and streams that end, and shutdown. `ClusterElection` adds
the task behind a `LeaderWatch`, with each arm of its `select!` an action: a timer, a watch
event, an answer, shutdown. `deploy` says which candidates enrol, whose dead claim is there
from the start and what else may happen.

### Ledger

One tenant and one legal entity. A transaction takes a snapshot at `Begin`, computes its
writes from it, and `Commit` is allowed when no row it writes was written since and the
committed transactions stay serializable: the most SERIALIZABLE may allow; `Conflict` may
refuse any of them, `Again` is the retry loop, and a commit may take effect and its answer be
lost. `Commit`'s writes are the whole operation: dedup row, entry, chain tip, balances, event.
The verifier and the tie-out run without one snapshot, so they are sequences of statements
(`VerifyTip`, `VerifyWalk`, ..., `TickBaseline`, `TickCaches`, ...). A balance is the set of the
entries it counts, so that a sum of two is right only when they are disjoint. `plan` says
which caller does what: postings with one key and several payloads; a queue with two
appliers; close and reopen; two open periods, their closes and the daily tie-out; the verifier
over damaged storage. A tick of the tie-out may be the full one, which every so many are, or fold
only the open periods onto the baseline (`TickBaseline`).

### ConsumerGroup

A call is one request and moves between its awaits; what runs under the coordinator's or
the leases' mutex is one step. A call that has opened a stream goes on as its session:
`classify` and `apply` on a changed generation, then the teardown in the order of
`StreamSession`'s fields. `range_split` is translated as it is, over integer ids. A client may go
away at any await (`AbandonRequest`, `Disconnect`), storage may fail. `stale` and `unread` are
history: what the member had lost and gained between the read of the assignment a session is
attached to and its start.

## Runs

| Run | Shows | Bounds |
|---|---|---|
| `outbox` | the tables agree, order, delivery, drains, the refinement of `OrderedLog`; everything is processed | 2 producers, 2 sequencers, 2 workers, 2 vacuums, 2 messages, batches of 2, 1 fault |
| `prioritizer` | claims, signals, wakeups; rows are claimed whatever is leaked | 1 partition, 2 workers, 2 commits, 2 faults |
| `side_by_side` | ledger: chain, keys, balances, closes, alarms; dead letters: claims are honoured, letters are settled; lease timing: handlers apart | 5 callers, 2 keys, 2 periods, 2 payloads, 1 to 3 attempts, 5 plans; 3 letters, 2 callers, limit 2, 2 faults; 2 workers, 2-second lease of 3 ticks each, 14 ticks |
| `trace_mail` | countdown, announcement, registry, lock order, answers | 2 batches, 2 partitions, 2 instances, 2 subscriptions, 1 fault, 3 deployments |
| `trace_lock_cycle` | violation, see Findings | 2 batches, 2 partitions, handlers that fail in mid-batch |
| `coord_lease` | tenure, fence, expiry, release | 3 guards, TTL 2, drift 1, 2 attempts, 4 ticks, both copies |
| `coord_lease_select` | violation, see Findings | the same, the account-management copy |
| `ledger_baseline` | violation, see Findings | two open periods, one post into each, their closes, a tie-out |
| `cluster_lock` | exclusion, fences, waits | 2 clients, 3 calls, TTL 2, retention 1, 3 ticks, 4 deployments |
| `cluster_late_renewal` | violation, see Findings | 2 guards, 5 calls, 2 ticks, renewals that may be late |
| `cluster_election` | leadership follows the lease, vacancies are taken, shutdown ends | 2 candidates and a dead one, TTL 2, one missed renewal, 8 ticks, 4 deployments |
| `consumer_group` | split, sessions, leases, reaping | 2 requests at a time, 3 members, 3 partitions, 2 topics, 5 deployments |

`side_by_side` checks three components that share no state in one run: in a behaviour one of
them moves, as its own specification says, and the others stay where they start
(`MCSideBySide`).

The bounds are the smallest with which the cases the properties are about occur.
Outbox: two messages give a batch with a processed prefix and a rest, ids committed out of
order and a batch behind another; two workers a lost lease with a late ack; a fault, which a
crash, a failed statement or a late ack is, falls anywhere; a vacuum batch of one makes a drain of
several chunks, two vacuums two drains of the same rows. The prioritizer's one partition never
has `has_more` passed on; that part of `WakeupKept` rests on the theorem. Traces: two partitions make two acks meet on a row, two subscriptions a
replacement. Coord lease: a third guard sees a row that changed hands twice. Cluster: two
ticks of lease and one of retention give a live, a lapsed and a reaped record; three calls a
release, its successor and a stale release; five a renewal that outlives all of them. Election: eight ticks let a dead replica's
claim lapse, be noticed by the follower's timer and be taken. Ledger: five callers give a
post, its repetition, another payload under its key, another key and a job beside them.
Consumer groups: three members over three partitions let one member gain and lose at once.
Symmetry is used in the two runs of `CoordLease`, which check safety only. Deadlock is checked in
the outbox pipeline and the prioritizer, which never stop; elsewhere a bounded set of calls runs
out and the system may stop.

Most properties are conjunctions of named parts, each with its comment in its module:
`TablesAgree`, `ClaimsSound`, `CompletionSound`, `RegistrySound`, `LeaseSound`, `RowChangesHands`,
`TenuresKept`, `JournalSound`, `PostedOnce`, `CloseHolds`, `NoFalseAlarm`, `GroupSound`,
`SessionsSound`, `GroupSettles`, `SubscribersServed`.

**Fairness.** `Outbox`: each worker loop runs again (it is notified or polled), so its
own steps are weakly fair, and leases expire. `HandlerReturn` is part of a worker's
fairness because the handler is dropped at the deadline. Faults are never owed and
their number is bounded. `Prioritizer`: tasks are polled, cooldowns end and the poker
of the reconciler never stops; nothing is owed by producers, so a Wake may stay
unfired and the property holds all the same. `DeadLetters`: timeouts run out,
transactions end, and callers keep replaying and resolve in time or drop. `TraceMail`: acks,
deliveries, notifier, reporter and sweeper run on, a subscriber is polled when its channel
changes; nobody has to subscribe, fail or close. `ClusterLock`: a running call is polled, a
timer fires, the clock moves. `ClusterElection`: the same, and shutdown is strongly fair,
because a `select!` with several arms ready picks one at random. `ConsumerGroup`: handlers and
sessions run on, the sweeper ticks; nobody has to make a request, leave or disconnect.
`CoordLease`, `Ledger` and `LeaseTiming` have safety properties only.

### Findings

**Trace locks in two groups** (`trace_lock_cycle`). "these are row locks, and two acks taking
the same pair of traces in opposite orders would deadlock" (`strategy.rs:291`) is why an ack
sorts its traces. A Retry after progress (`strategy.rs:729`) counts its prefix down first and
marks the tail's traces after, each group sorted, the whole not; two such acks wait for each
other. The database fails one, whose batch is delivered again after its lease. `NoLockCycle`
shows that without handlers failing in mid-batch it cannot happen.

**A late renewal** (`cluster_late_renewal`). `renew` reads the record, finds it its own and live,
and writes with a compare-and-swap on the version alone (`lease.rs:395`). If the write is delayed
until the lease has lapsed, a rival may steal the record (version 2) and release it, and a third
claim creates the key anew, at version 1: the late write matches, replaces the live claim and is
answered Ok, and two guards hold the lock. `try_acquire` guards its steal against just this, by
a condition on the bytes: "The version is not unique across a delete-and-recreate"
(`lease.rs:327`). What is promised is "TTL-bounded mutual exclusion" (`lock.rs:163`). The theorem
`LockExclusive` shows that this delay is the only way: where renewals are prompt there is one
holder.

**A fence that only reads** (`coord_lease_select`). The account-management copy of the lease ends
the fenced transaction with a SELECT of the row (`guard.rs:280`). A peer that claims the expired
row after the transaction's snapshot was taken is invisible to it; the transaction writes nothing
the peer read, so nothing aborts it, and the old holder's work commits in the new holder's tenure.
Its `infra/lease/mod.rs:5-11` promises that such a steal "either aborts as `40001` and retries" "or
is caught by the fence", and that "The holder's writes and the lease validation cannot drift
apart". The shared copy fences by an UPDATE for this reason (`coord`, `guard.rs:166-174`: "the
commit is NOT guaranteed to abort"), and `FencedWork` proves that there it holds.

**Baselines with two open periods** (`ledger_baseline`). A close snapshots the caches as the
baseline (`period_close.rs:687`) because they "ARE the verified total through `period_id`"; the
daily tie-out then "verifies `baseline + fold(open periods) == cache`" (`tieout.rs:1717`). But the
caches count every entry, and the next period is open beside the current one
(`period_open.rs:3`): an entry of it is in the baseline and in the fold. The incremental tie-out
accuses sound books until the next full tick. A reopen has the same effect: it writes OPEN
(`period_close.rs:753`), so the fallback for "a `REOPENED` period" (`tieout.rs:1985`) never applies.
What does hold, and is proved, is that the baseline contains the closed periods (`BaselineCovers`)
and that a full tie-out does not accuse sound books (`FullTieOutSound`).

### What the properties had to leave out

Some properties hold under a condition. The condition is in the definition; this is why.

- *Two vacuums.* Every instance runs its own (`manager.rs:649-710`). Two sweeps that snapshot the
  same counter both subtract it, and with it an ack that came in between: the counter is 0 and a
  processed row stays until the partition's next ack. So no property says that every processed
  row is deleted; `DrainedBeforeDecrement` says what each vacuum has deleted when it decrements,
  which is what `vacuum.rs:181-183` is about.
- *Fractional leases.* The lease is truncated to whole seconds (`strategy.rs:845`), the
  handler's budget is not. `HandlersApart` proves that a fraction above the headroom is the
  only way two handlers overlap.
- *Late reports on dead letters.* resolve and reject name rows, not claims
  (`dead_letter.rs:689`): a late reject frees a claim taken over meanwhile. `ReplayExclusive`
  proves exclusivity for callers that mind their timeouts.
- *Swept traces.* The sweeper collects by `created_at` (`statements.rs:378`), progress or not, and
  does not touch the registry (`trace_sweeper.rs:112`): the subscriber of a swept trace waits.
  `EventuallyAnswered` excepts it.
- *The account-management lease.* Its fence locks nothing (Findings), its INSERT uses the worker's
  clock: `FencedInTenure` and `FenceSeesExpiry` are said of the coord copy, `WithinTtl` allows the
  other one its drift. A renewal that arrives late may revive a lapsed lease (`guard.rs:311`).
- *Remote lock clients.* A client that keeps its owner can, with a token of an earlier tenure,
  release a later one: same owner, same first fence (`lease.rs:38`). `OnlyOwnReleaseRemoves` tells
  tenures apart for guards only. A waiter may oversleep by one lapse when the incumbent lapses
  between its read and its measure (`lease.rs:316`), and a leader whose renewal hangs may show
  leadership beyond its deadline (`leader.rs:628`), which is why `LeaderIsStored` ends there.
- *Vacancies over a failing store.* A claim that fails is tried again at the next tick, and may
  fail again; a claim granted by a call that took longer than the lease has lapsed when the answer
  comes, and the task that holds it learns of it at its next renewal (`leader.rs:628`). So
  `LapsedIsTaken` is said of a store that answers, and within the lease.
- *Tie-outs beside posts.* The tie-out's statements share no snapshot (`tieout.rs:488`), so one that
  straddles a commit may report a variance that is none: `FullTieOutSound` is about a full tie-out
  during which nothing committed. Nothing is said of the incremental one (Findings). A post past
  the freeze gate commits beside a freeze (`service.rs:804`).
- *Assignments read early.* A session attaches to an assignment read several awaits before
  (`delivery.rs:650`) and takes the generation published when it opens as the one it reads against
  (`session.rs:101`). A partition lost in between is no delta to it: it goes on reading it, beside
  the member that has it now, until the next rebalance that changes its member's share, and a
  member removed in between has its stream until the client goes away. That is against
  `session.rs:228-230` ("a session that has lost a partition must stop reading it") and the single
  consumer per partition of `USE_CASES.md:87`. `SettledReads` and `LossesAreObserved` except exactly
  those partitions (`stale`, `unread`); all that happens once the session is open they cover. No run
  of its own shows the violation.
- *The group's marker.* `SubscriptionsRoutable` is about the first of the two hops, subscription to
  group. The second can fail: a sweep or LEAVE that emptied the group clears its marker some
  awaits later, after a JOIN has written it again (`sweeper.rs:53`), and leaves "a member [...] that
  no dispatcher could route to", which the order of the JOIN is meant to exclude
  (`delivery.rs:508`). The model's `Removals` and `ClearMarker` do this; no property forbids it, and
  no run of its own shows it.
- *Requests across awaits.* A SEEK's checks are relied on after its awaits (`delivery.rs:689`), a
  SEEK of several partitions is not atomic (`delivery.rs:804`), and a JOIN beside the group's DELETE
  may leave a member of no group (`delivery.rs:909`); the properties promise none of these.

Read, but not checked: an ignored test says that the group coordinator "assigns every partition
to every member" (`event-broker-sdk/tests/consumer/runtime_behaviour.rs:764-769`); the coordinator modelled here
splits them (`mod.rs:589`, `SplitIsExact`), so the note and the code disagree. The comment that the prioritizer's mutexes are "never held
simultaneously" is not true of `push_dirty_impl`, which takes the scheduler's lock with
the inbox's held (`prioritizer.rs:365`); no path takes them the other way round.

## Proofs

TLAPS proves, for any number of processes, messages, partitions, letters and any
bounds (the ASSUMEs of the modules are their only assumptions):

- `OutboxProofs`: `TypeCorrect`, `SequencingCorrect`, `SequencingFifo`, `PayloadsAccounted`,
  `PayloadsKept` and, of them together, `TablesCorrect`; `DeliveryCorrect`, `RefusalsKeptOnce`,
  `DeliveryInOrder`, `CursorNeverBack`; `DrainsComplete`, for any number of vacuums; and
  `PipelineImplementsLog`, the refinement of `OrderedLog`. The inductive invariant is `IndInv`.
  Why each part is needed: `ClaimInv` (the row lock makes a claim the only
  one), `OvertakeInv` (what is left in incoming with a smaller id was committed later),
  `CountInv` (the sequence counts the rows, so new seqs are fresh), `OutgoingInv`
  (outgoing has every unprocessed seq, so a batch has no hole), and `BatchInv`: a batch
  is a segment that starts at or below the cursor, and right after it for the worker
  that holds the lease - which is why a guarded ack never moves the cursor back or over
  an unhandled message. `SweepInv` adds that a chunk that came out short holds all that is
  left up to the cursor read, whichever vacuum deletes it first. The refinement follows action by
  action from `IndInv`: each is a step of the log or leaves its variables alone. The lemmas
  on `FirstN` and `Numbering` say what ORDER BY ... LIMIT and the numbering of a claim yield.
- `PrioritizerProofs`: `TypeCorrect`, `ClaimsCorrect`, `CoalescingSafe` and, of them together,
  `PartitionsAccounted`; `SignalsCorrect`, `WakeupsCorrect`.
  The properties are inductive together with `PassInv`, which ties a worker's guard,
  buffer and iteration count to where the worker is (`At`: where it is headed while it
  owes a notify_one).
- `OutboxTimeoutProofs`, the outbox's two contracts about timeouts. Dead letters: `TypeCorrect`,
  `ClaimsHonoured`, `ReplayExclusive`, `LifecycleFollowed`, all for callers that mind their
  timeouts; the invariant says that a row in an open transaction's selection is locked by it
  and still has the status it was selected with. Leases: `TimingTypes`, `HandlersApart` (given
  `Duration - Headroom <= Lease`), `HeadroomKept` (given whole seconds).
- `CoordinatorProofs`, the lease table and the consumer group. The lease table: `LeaseCorrect`,
  `FencedWork`, `FenceLive`, `HandoverCorrect`, for any TTL, drift and number of guards, of both copies. `SnapInv` is the heart of the inductive invariant: a
  transaction nobody overtook sees the row as it is. `ClockInv` says that every NOW() in use lies
  in the past, so what a claim replaces really had run out; `FenceInv` that the fence of the
  shared copy holds the row's lock until its commit, which keeps every other writer away.
  The group: `GroupCorrect`, `SessionsCorrect`, `StreamsEndByLeave`, for any number of members,
  requests at once, topics and partitions. `SplitInv`: the entries are what `compute_assignments`
  gives for the members there are. That this is exact (`AssignExactly`) is arithmetic without
  induction: partition `p` of `n` lies in the range of position `i` of `k` exactly when
  `i * n < (p + 1) * k <= (i + 1) * n` (`InSplit`), which one `i` satisfies (`SplitOnce`), and the ids
  below each member number the positions (`Ranks`). `Disposable`: an id joins once, so the markers
  that wait to be cleared belong to nobody, whichever request or sweep clears them and when.
  `RecordInv` says what each call may rely on, and by `Tracks` that a session reads what it takes for
  its member's share, less `unread` and plus `stale`; that one call's `on_stream_closed` leaves the
  member of another alone is `LeasesAreHeld`. The proof needed the arms of the model's `CASE`s to
  exclude each other, as the early returns they stand for do: TLC takes the first that is
  true, TLA+ any.
- `ClusterLockProofs`: `LockExclusive`, `NeverSleepsOnFree`, `TenuresCorrect`, for guards and remote
  clients, with and without watches, with failing cache calls. There is no transaction here, so
  the invariant says what each request in flight may rely on: `NonceInv` (a condition on the bytes
  is exact, because no nonce is written twice), `OwnerInv` (no two clients present one owner),
  `ExtendInv` (nothing touches the record between the read and the write of a prompt renewal) and
  `ClaimInv` (a token that has not run out names the owner of the stored record). Looking for
  `ExtendInv` without the promptness is what led to the second finding. `SleepInv` is about the
  feed: a `lock()` that saw the name taken has an event waiting if it no longer is.
- `ClusterElectionProofs`: `LeaderCorrect`, `VacancyTaken`, `ElectionTenures`, for any number of
  candidates, with failing calls, broken watches, crashes and shutdown. The store's part of the
  invariant is that of the lock. The task's rests on its running one operation at a time
  (`StepInv`) under an owner nobody else has: all that is said of a task is about it and the
  record, so a step is looked at for the task that takes it (`OneTask`), for the others only when
  the record changes (`OthersAfterWrite`, `AfterRemoval`). `TenureInv`: a record under its owner is
  of the tenure its token names, and what it has looked at under its owner is what is stored,
  which is why a reassurance by the watch never swallows a loss. `ClaimInv` is the lock's.
  `LapseInv` is about time: a call that will leave the stored claim to others began before it
  lapsed (`LeftAlone`), so the timer that is armed after it runs out at most a call and the
  longest wait after the deadline (`Notices`), and one call that finds the claim lapsed and one
  that takes it follow. Looking for it showed `LapsedIsTaken` as first written to be true of the
  checked instance only: it had no room for a renewal that is refused before the claim, and none
  for a store whose answers take longer than the lease.
- `TraceMailProofs`: `CountdownCorrect`, `CompletionCorrect`, `RegistryCorrect`, `AcksNeverDeadlock`
  and `CompletionKept` (the safety half of `SubscribersServed`), for any spread of any number of
  batches over partitions and instances. `PlanInv`: the statements of an ack are one per trace and
  group, count what the prefix it settles holds of each trace, and are executed in order; only
  appends touch a queue in the meantime, so that stays true until the commit. Hence a commit takes
  off the row what it takes off the queues (`CountdownExact`, by the lemmas `Appended` and `Acked` on
  counting places in queues). `HandInv` and `ChanInv`: the stamp lets one outcome of a trace into
  memory, and it is final because a settled trace stays settled. `EntryInv`: the registry names a
  subscription that waits and was not told. The lock order needs `PlanInv` only: what an ack waits
  for comes after all it has locked.

- `LedgerProofs`: `JournalCorrect`, `PostingOnce`, `CloseCorrect`, `AlarmsCorrect`, for any set of
  callers, keys, payloads, periods and plans. `LedgerInv` says of the committed tables, and by
  `SnapshotOf` of the snapshot of every open transaction, that they are `Sound`: typed, one chain
  with its end at the tip (`ChainEnds`), each key once, queue and dedup rows agreeing
  (`ClaimsAgree`), balances that count the journal. A snapshot differs from the tables only in
  rows that a later transaction wrote. So a commit that wins under first-updater-wins writes over
  what it read (`WritesCurrent`), and a post extends the chain and the balances it saw. A post and
  a close write no row in common: there `LogSound` is needed (a post has read its period, a close
  every entry), and the two would have to precede each other, which serializability excludes
  (`NoTwoCycle`, `NoPostIntoClosed`, `CloseSeesAll`); cycles of more transactions play no part.
  `VerifyInv` and `TickInv` say what the statements read so far still mean when the tip or the log
  has moved on: an orphan count is believed only at an unmoved tip, a verdict is quiet only at an
  unmoved log. A baseline is the cache its close saw, so it contains the closed periods' entries
  (`BaselineInv`, hence `BaselineCovers`).

Only model-checked: the liveness properties `EventuallyProcessed`, `EventuallySequenced`,
`EventuallySettled`, `SubscribersServed` (but for `CompletionKept`), `LockReturns`, `ShutdownEnds` and
`GroupSettles` (fairness and ENABLED are out of the prover's reach). Out of reach in general are facts that need induction over data
and RECURSIVE operators; the models avoid both, ordering is expressed by comparison
of ids and seqs.

## Not modelled

- outbox: the transactional strategy (`strategy.rs:318`); `PartitionMode` (backoff, degradation of
  the batch size); shutdown, whose cancellation stops loops between steps that the crash actions
  cover; the width of `attempts` (SMALLINT, `statements.rs:906`); replay timeouts below a second
  (`dead_letter.rs:309`); the uniqueness of `worker_id` (`strategy.rs:905`), which is assumed; an ack
  whose COMMIT took effect and whose answer was lost (`strategy.rs:771`), which ends in the state
  of an ack followed by a crash;
- dialect differences of the SQL; the models follow the Postgres text. On SQLite there
  is no SKIP LOCKED and one writer at a time, a restriction of what is modelled;
- cluster: clock skew between replicas (`lease.rs:398`), the SDK's resolver and remote transport,
  the backends' own consistency, service discovery, the consumer's event queue of an election;
- ledger: amounts, currencies, rounding, recognition, refunds, settlements; they compute what
  an entry says before the engine posts it;
- event broker: events, offsets, the partition cache and its loader, ingest, the dispatcher;
  growth of a topic's partition count while members are joined (`mod.rs:456`);
- the other gears and libraries (`PROJECT.json`, status `not_modelled`): about 850,000 lines, of
  which most are REST handlers, DTOs, migrations, SQL queries, plugins and tests. They keep
  no state over several steps of several actors, and a model of them would restate them; the
  share of the repository's lines that any set of models can stand for is small for that
  reason.

## Plan

1. An abstract lock with tenures, implemented by `CoordLease` and by `ClusterLock`.
2. The transactional strategy and `PartitionMode`; taskward's bulkhead and panic policy.
3. Turns and quota of `gears/mini-chat`; the reservations of `gears/system/quota-enforcement`.
4. The event broker's partition cache and loader; the ledger's refund and settlement queues.
5. The composition of `Prioritizer` and `Outbox` over several instances.
