----------------------------- MODULE Prioritizer -----------------------------
(***************************************************************************)
(* How the sequencer workers of one instance find the partitions that have *)
(* rows in incoming: the Wake fired after a producer's commit, the         *)
(* SharedPrioritizer (an inbox and a scheduler, each behind a mutex of its *)
(* own), the tokio Notify the workers sleep on, and the cold reconciler.   *)
(*                                                                         *)
(* Time is kept to what the code tests: a push may fall within the inbox's *)
(* coalesce window or not, and a pending partition's dirty_since is in the *)
(* past or (after an error) in the future.  pop takes any eligible         *)
(* partition where the code takes the oldest.  Rows are counted; what the  *)
(* sequencing transaction does with them is in module Outbox.              *)
(***************************************************************************)
EXTENDS Naturals, FiniteSets

CONSTANTS
    Partitions,
    Workers,        \* sequencer workers of this instance
    Batch,          \* SequencerConfig::batch_size
    MaxInner,       \* SequencerConfig::max_inner_iterations
    MaxRows,        \* bound: rows committed in all, after the start
    MaxFaults,      \* bound: leaks, skips, contention, errors
    NoPartition     \* no guard held

ASSUME SizeAssumption == Batch \in Nat \ {0} /\ MaxInner \in Nat \ {0}

ASSUME CapAssumption == MaxRows \in Nat /\ MaxFaults \in Nat

ASSUME NoPartitionAssumption == NoPartition \notin Partitions

VARIABLES
    rows,           \* rows of each partition committed to incoming
    unfired,        \* committed transactions whose Wake is not fired yet
    waking,         \* notify_one calls that fired Wakes still have to make
    queue,          \* partitions with an entry in Inbox.queue
    lastPush,       \* partitions with an entry in Inbox.last_push
    pending,        \* PartitionScheduler.pending
    cooling,        \* those of pending with dirty_since > now
    claimed,        \* PartitionScheduler.claimed
    redirtied,      \* PartitionScheduler.redirtied
    permit,         \* the permit stored in the Notify, 0 or 1
    pc,             \* where each sequencer worker is
    then,           \* where it goes after the notify_one it is about to make
    buffer,         \* what each worker's take() has drained from the inbox
    guard,          \* the partition of each worker's guard
    iter,           \* full iterations of each worker's process_partition
    got,            \* workers whose process_partition has claimed rows
    rpc,            \* where the cold reconciler is
    found,          \* partitions its query returned, not pushed yet
    \* history
    commits,        \* rows committed so far
    cold,           \* partitions with a row that nobody here was told about
    late,           \* those of pending whose cooldown has run out
    faults

inboxVars == <<queue, lastPush>>
schedVars == <<pending, cooling, claimed, redirtied, late>>
passVars == <<buffer, guard, iter, got>>
coldVars == <<rpc, found>>
vars == <<rows, unfired, waking, inboxVars, schedVars, permit, pc, then, passVars,
          coldVars, commits, cold, faults>>

Fault == faults < MaxFaults /\ faults' = faults + 1

\* A process that starts finds what earlier ones left in incoming.
Init ==
    /\ rows \in [Partitions -> 0..1]
    /\ unfired = [p \in Partitions |-> 0]
    /\ waking = 0
    /\ queue = {} /\ lastPush = {}
    /\ pending = {} /\ cooling = {} /\ claimed = {} /\ redirtied = {}
    /\ permit = 0
    /\ pc = [w \in Workers |-> "idle"]
    /\ then = [w \in Workers |-> "idle"]
    /\ buffer = [w \in Workers |-> {}]
    /\ guard = [w \in Workers |-> NoPartition]
    /\ iter = [w \in Workers |-> 0]
    /\ got = {}
    /\ rpc = "scan" /\ found = {}
    /\ commits = 0
    /\ cold = {p \in Partitions : rows[p] > 0}
    /\ late = {}
    /\ faults = 0

-----------------------------------------------------------------------------
(* tokio's Notify.  Every notify_one of the code comes after an unlock, so *)
(* it is a step of its own and others run in between.                      *)

\* notify_one: wakes one waiter, or stores the permit.  base is pc as the
\* caller's own step leaves it.
NotifyOne(base) ==
    \/ /\ \E u \in Workers : base[u] = "waiting" /\ pc' = [base EXCEPT ![u] = "awake"]
       /\ UNCHANGED permit
    \/ /\ \A u \in Workers : base[u] # "waiting"
       /\ pc' = base
       /\ permit' = 1

\* notified().await: takes the stored permit or waits.
Wait(w) ==
    /\ pc[w] = "idle"
    /\ pc' = [pc EXCEPT ![w] = IF permit = 1 THEN "awake" ELSE "waiting"]
    /\ permit' = 0
    /\ UNCHANGED <<rows, unfired, waking, inboxVars, schedVars, then, passVars, coldVars,
                   commits, cold, faults>>

\* Worker w unlocks and goes on to x ...
Go(w, x) == pc' = [pc EXCEPT ![w] = x] /\ UNCHANGED then

\* ... or calls notify_one first.
GoNotify(w, x) ==
    /\ pc' = [pc EXCEPT ![w] = "notifying"]
    /\ then' = [then EXCEPT ![w] = x]

WorkerNotifies(w) ==
    /\ pc[w] = "notifying"
    /\ NotifyOne([pc EXCEPT ![w] = then[w]])
    /\ then' = [then EXCEPT ![w] = "idle"]
    /\ UNCHANGED <<rows, unfired, waking, inboxVars, schedVars, passVars, coldVars,
                   commits, cold, faults>>

-----------------------------------------------------------------------------
(* The inbox *)

\* push_dirty accepts the entry, and notify_one is to follow ...
Accept(p) ==
    /\ queue' = queue \cup {p}
    /\ lastPush' = lastPush \cup {p}

\* ... or drops it: one for the same partition came less than the coalesce window
\* ago and the partition is not claimed.
Suppress(p) ==
    /\ p \in lastPush
    /\ p \notin claimed
    /\ UNCHANGED inboxVars

\* A producer's transaction commits one row for p.
Commit(p) ==
    /\ commits < MaxRows
    /\ commits' = commits + 1
    /\ rows' = [rows EXCEPT ![p] = @ + 1]
    /\ unfired' = [unfired EXCEPT ![p] = @ + 1]
    /\ UNCHANGED <<waking, inboxVars, schedVars, permit, pc, then, passVars, coldVars,
                   cold, faults>>

\* Wake::fire, whose Wake carries one partition: the push and wake_sequencers,
\* which is one more notify_one.
Fire(p) ==
    /\ unfired[p] > 0
    /\ unfired' = [unfired EXCEPT ![p] = @ - 1]
    /\ \/ Accept(p) /\ waking' = waking + 2
       \/ Suppress(p) /\ waking' = waking + 1
    /\ UNCHANGED <<rows, schedVars, permit, pc, then, passVars, coldVars, commits, cold,
                   faults>>

WakeNotifies ==
    /\ waking > 0
    /\ waking' = waking - 1
    /\ NotifyOne(pc)
    /\ UNCHANGED <<rows, unfired, inboxVars, schedVars, then, passVars, coldVars,
                   commits, cold, faults>>

\* The Wake is dropped unfired; the rows of another instance look the same.
Leak(p) ==
    /\ unfired[p] > 0
    /\ Fault
    /\ unfired' = [unfired EXCEPT ![p] = @ - 1]
    /\ cold' = IF rows[p] > 0 THEN cold \cup {p} ELSE cold
    /\ UNCHANGED <<rows, waking, inboxVars, schedVars, permit, pc, then, passVars,
                   coldVars, commits>>

-----------------------------------------------------------------------------
(* The scheduler *)

\* Mutant: last_push survives the drain.
TakeDrainKeepsWindow(w) ==
    /\ pc[w] = "awake"
    /\ buffer' = [buffer EXCEPT ![w] = queue]
    /\ queue' = {}
    /\ pc' = [pc EXCEPT ![w] = "absorbing"]
    /\ UNCHANGED <<rows, unfired, waking, lastPush, schedVars, permit, then, guard, iter,
                   got, coldVars, commits, cold, faults>>

\* take(), phase 1: the inbox is drained under its own lock.
TakeDrain(w) ==
    /\ pc[w] = "awake"
    /\ buffer' = [buffer EXCEPT ![w] = queue]
    /\ queue' = {}
    /\ lastPush' = {}
    /\ pc' = [pc EXCEPT ![w] = "absorbing"]
    /\ UNCHANGED <<rows, unfired, waking, schedVars, permit, then, guard, iter, got,
                   coldVars, commits, cold, faults>>

\* Mutants: a claimed partition's entry is dropped, or made pending.
AbsorbForgets(entries) == [pend |-> pending \cup (entries \ claimed), re |-> redirtied]
AbsorbAll(entries) == [pend |-> pending \cup entries, re |-> redirtied]

\* absorb: a claimed partition is flagged, any other becomes pending.
Absorb(entries) ==
    [pend |-> pending \cup (entries \ claimed),
     re   |-> redirtied \cup (entries \cap claimed)]

\* What pop can return: dirty_since is not in the future.
Eligible(pend) == pend \ cooling

HasReadyWork(pend) == Eligible(pend) # {}

\* take(), phase 2, with eligible work: absorb, pop, and pass the wakeup on when
\* there is more.
TakePop(w) ==
    /\ pc[w] = "absorbing"
    /\ LET a == Absorb(buffer[w])
       IN  \E p \in Eligible(a.pend) :
              /\ pending' = a.pend \ {p}
              /\ redirtied' = a.re
              /\ claimed' = claimed \cup {p}
              /\ late' = late \ {p}
              /\ guard' = [guard EXCEPT ![w] = p]
              /\ IF HasReadyWork(a.pend \ {p})
                 THEN GoNotify(w, "sequencing")
                 ELSE Go(w, "sequencing")
    /\ buffer' = [buffer EXCEPT ![w] = {}]
    /\ UNCHANGED <<rows, unfired, waking, inboxVars, cooling, permit, iter, got, coldVars,
                   commits, cold, faults>>

\* take(), phase 2, without: execute() returns Idle.
TakeNone(w) ==
    /\ pc[w] = "absorbing"
    /\ LET a == Absorb(buffer[w])
       IN  /\ Eligible(a.pend) = {}
           /\ pending' = a.pend
           /\ redirtied' = a.re
    /\ buffer' = [buffer EXCEPT ![w] = {}]
    /\ Go(w, "idle")
    /\ UNCHANGED <<rows, unfired, waking, inboxVars, cooling, claimed, late, permit, guard,
                   iter, got, coldVars, commits, cold, faults>>

\* now passes the dirty_since of an errored partition.
CooldownEnds(p) ==
    /\ p \in cooling
    /\ cooling' = cooling \ {p}
    /\ late' = late \cup {p}
    /\ UNCHANGED <<rows, unfired, waking, inboxVars, pending, claimed, redirtied, permit,
                   pc, then, passVars, coldVars, commits, cold, faults>>

-----------------------------------------------------------------------------
(* Sequencer::execute on a claimed partition *)

\* The guard is gone and execute() about to return.
EndPass(w) ==
    /\ guard' = [guard EXCEPT ![w] = NoPartition]
    /\ iter' = [iter EXCEPT ![w] = 0]
    /\ got' = got \ {w}
    /\ UNCHANGED buffer

\* The iteration under way is the last one allowed.
LastIteration(w) == iter[w] + 1 = MaxInner

\* One transaction of process_partition.  A short batch, or the last iteration
\* allowed, ends the loop.
Iteration(w) ==
    /\ pc[w] = "sequencing"
    /\ LET p == guard[w]
           n == IF rows[p] < Batch THEN rows[p] ELSE Batch
       IN  /\ rows' = [rows EXCEPT ![p] = @ - n]
           /\ cold' = IF n = rows[p] THEN cold \ {p} ELSE cold
           /\ got' = IF n > 0 THEN got \cup {w} ELSE got
           /\ iter' = [iter EXCEPT ![w] = IF n = Batch THEN @ + 1 ELSE @]
           /\ Go(w, IF n < Batch THEN "drained"
                     ELSE IF LastIteration(w) THEN "saturated" ELSE "sequencing")
    /\ UNCHANGED <<unfired, waking, inboxVars, schedVars, permit, buffer, guard, coldVars,
                   commits, faults>>

\* Mutant: a partition that was redirtied meanwhile does not count.
ShouldNotifyOthers(p) == HasReadyWork(pending)

\* should_notify of processed(): p was redirtied, or other work is ready.
ShouldNotify(p) == p \in redirtied \/ HasReadyWork(pending)

\* guard.processed().  Then a saturated partition is pushed again (Repush), and
\* execute() returns Proceed when rows were claimed, else Idle.
Processed(w) ==
    /\ pc[w] \in {"drained", "saturated"}
    /\ LET p == guard[w]
           x == IF pc[w] = "saturated" THEN "repush"
                ELSE IF w \in got THEN "awake" ELSE "idle"
       IN  /\ claimed' = claimed \ {p}
           /\ redirtied' = redirtied \ {p}
           /\ pending' = IF p \in redirtied THEN pending \cup {p} ELSE pending
           /\ IF ShouldNotify(p) THEN GoNotify(w, x) ELSE Go(w, x)
    /\ IF pc[w] = "saturated" THEN UNCHANGED passVars ELSE EndPass(w)
    /\ UNCHANGED <<rows, unfired, waking, inboxVars, cooling, late, permit, coldVars,
                   commits, cold, faults>>

\* requeue(): ack_requeue, then notify_one.
Requeue(w, x) ==
    /\ claimed' = claimed \ {guard[w]}
    /\ redirtied' = redirtied \ {guard[w]}
    /\ pending' = pending \cup {guard[w]}
    /\ GoNotify(w, x)
    /\ UNCHANGED <<cooling, late, permit>>

\* Another instance holds the partition row (skipped), or the pass panicked and
\* its guard is dropped: Idle.
SeqSkipped(w) ==
    /\ pc[w] = "sequencing"
    /\ Fault
    /\ Requeue(w, "idle")
    /\ EndPass(w)
    /\ UNCHANGED <<rows, unfired, waking, inboxVars, coldVars, commits, cold>>

\* Lock contention: skipped, pushed again, Proceed.
SeqContention(w) ==
    /\ pc[w] = "sequencing"
    /\ Fault
    /\ Requeue(w, "repush")
    /\ UNCHANGED <<rows, unfired, waking, inboxVars, passVars, coldVars, commits, cold>>

\* A database error: guard.error() wakes nobody; Proceed.
SeqError(w) ==
    /\ pc[w] = "sequencing"
    /\ Fault
    /\ claimed' = claimed \ {guard[w]}
    /\ redirtied' = redirtied \ {guard[w]}
    /\ pending' = pending \cup {guard[w]}
    /\ cooling' = cooling \cup {guard[w]}
    /\ Go(w, "awake")
    /\ EndPass(w)
    /\ UNCHANGED <<rows, unfired, waking, inboxVars, late, permit, coldVars,
                   commits, cold>>

Repush(w) ==
    /\ pc[w] = "repush"
    /\ \/ Accept(guard[w]) /\ GoNotify(w, "awake")
       \/ Suppress(guard[w]) /\ Go(w, "awake")
    /\ EndPass(w)
    /\ UNCHANGED <<rows, unfired, waking, schedVars, permit, coldVars, commits, cold,
                   faults>>

-----------------------------------------------------------------------------
(* The cold reconciler: reconcile_dirty, at the start and on every poke *)

\* Mutant: partitions with less than a full batch are passed over.
DirtyFull == {p \in Partitions : rows[p] >= Batch}

\* discover_dirty_partitions.
Dirty == {p \in Partitions : rows[p] > 0}

ReconcileScan ==
    /\ rpc = "scan"
    /\ found' = Dirty
    /\ rpc' = IF Dirty = {} THEN "scan" ELSE "push"
    /\ UNCHANGED <<rows, unfired, waking, inboxVars, schedVars, permit, pc, then, passVars,
                   commits, cold, faults>>

\* After the last partition found, wake_sequencers.
AfterPush(rest) == IF rest = {} THEN "wake" ELSE "push"

ReconcilePush(p) ==
    /\ rpc = "push"
    /\ p \in found
    /\ found' = found \ {p}
    /\ \/ Accept(p) /\ rpc' = "notify"
       \/ Suppress(p) /\ rpc' = AfterPush(found')
    /\ cold' = cold \ {p}
    /\ UNCHANGED <<rows, unfired, waking, schedVars, permit, pc, then, passVars, commits,
                   faults>>

\* The notify_one of push_dirty, or that of wake_sequencers.
ReconcileNotifies ==
    /\ rpc \in {"notify", "wake"}
    /\ NotifyOne(pc)
    /\ rpc' = IF rpc = "wake" THEN "scan" ELSE AfterPush(found)
    /\ UNCHANGED <<rows, unfired, waking, inboxVars, schedVars, then, passVars, found,
                   commits, cold, faults>>

-----------------------------------------------------------------------------
SequencerStep(w) ==
    \/ Wait(w) \/ WorkerNotifies(w) \/ TakeDrain(w) \/ TakePop(w) \/ TakeNone(w)
    \/ Iteration(w) \/ Processed(w) \/ SeqSkipped(w) \/ SeqContention(w) \/ SeqError(w)
    \/ Repush(w)
PartitionStep(p) == Commit(p) \/ Fire(p) \/ Leak(p) \/ CooldownEnds(p) \/ ReconcilePush(p)

Next ==
    \/ \E w \in Workers : SequencerStep(w)
    \/ \E p \in Partitions : PartitionStep(p)
    \/ WakeNotifies \/ ReconcileScan \/ ReconcileNotifies

Spec == Init /\ [][Next]_vars

\* Every task is polled, cooldowns end, and the poker of the cold reconciler
\* never stops.  No producer owes anything: a Wake may stay unfired.
SequencerProgress(w) ==
    \/ Wait(w) \/ WorkerNotifies(w) \/ TakeDrain(w) \/ TakePop(w) \/ TakeNone(w)
    \/ Iteration(w) \/ Processed(w) \/ Repush(w)
Reconcile ==
    \/ ReconcileScan \/ ReconcileNotifies
    \/ \E p \in Partitions : ReconcilePush(p)

Fairness ==
    /\ \A w \in Workers : WF_vars(SequencerProgress(w))
    /\ \A p \in Partitions : WF_vars(CooldownEnds(p))
    /\ WF_vars(Reconcile)

FairSpec == Spec /\ Fairness

-----------------------------------------------------------------------------
(* Properties *)

PcType == {"idle", "waiting", "awake", "absorbing", "sequencing", "drained",
           "saturated", "repush", "notifying"}

\* Where a worker can be headed with a notify_one to make.
ThenType == {"idle", "awake", "sequencing", "repush"}

\* The inbox, the scheduler, the Notify and the workers hold values of their
\* types; no pass exceeds max_inner_iterations.
TypeOK ==
    /\ rows \in [Partitions -> Nat]
    /\ unfired \in [Partitions -> Nat] /\ waking \in Nat
    /\ queue \subseteq Partitions /\ lastPush \subseteq Partitions
    /\ pending \subseteq Partitions /\ cooling \subseteq pending
    /\ claimed \subseteq Partitions /\ redirtied \subseteq Partitions
    /\ permit \in {0, 1}
    /\ pc \in [Workers -> PcType]
    /\ then \in [Workers -> ThenType]
    /\ buffer \in [Workers -> SUBSET Partitions]
    /\ guard \in [Workers -> Partitions \cup {NoPartition}]
    /\ iter \in [Workers -> 0..MaxInner]
    /\ got \subseteq Workers
    /\ rpc \in {"scan", "push", "notify", "wake"} /\ found \subseteq Partitions
    /\ commits \in 0..MaxRows /\ faults \in 0..MaxFaults
    /\ cold \subseteq Partitions /\ late \subseteq pending

\* Worker w has a guard that is not acked.
Holding(w) ==
    \/ pc[w] \in {"sequencing", "drained", "saturated"}
    \/ pc[w] = "notifying" /\ then[w] = "sequencing"

\* "every partition ID is in exactly one of {idle, pending, claimed}" and the
\* flag redirtied is one on claimed; each claim has exactly one guard, so two
\* sequencers of an instance never work on the same partition.
ClaimsExact ==
    /\ pending \cap claimed = {}
    /\ redirtied \subseteq claimed
    /\ claimed = {guard[w] : w \in {u \in Workers : Holding(u)}}
    /\ \A u, w \in Workers : u # w /\ Holding(u) /\ Holding(w) => guard[u] # guard[w]

\* A push the inbox suppresses is never lost: an entry of the same partition is
\* still in the queue, not yet drained by anybody.
CoalesceSafe == lastPush \subseteq queue

\* Somebody still knows of p: it is in the inbox, in the buffer of a take(),
\* pending, flagged, or in the hands of a sequencer that will read incoming or
\* push it again.
Signalled(p) ==
    \/ p \in queue \cup pending \cup redirtied
    \/ \E w \in Workers : p \in buffer[w]
    \/ \E w \in Workers : guard[w] = p /\ pc[w] # "drained"

\* The dirty signal outlives every interleaving of pushes, take() phases and
\* acks: a partition with rows that somebody was told about stays signalled.
SignalKept ==
    \A p \in Partitions :
        rows[p] > 0 /\ unfired[p] = 0 /\ p \notin cold => Signalled(p)

\* No lost wakeup: workers have no timer, so work in the inbox needs a stored
\* permit, a notify_one about to be made or a worker on its way to take(), and
\* eligible work a worker that is up.  (A partition whose cooldown ran out waits
\* for the next push or poke.)
WakeupKept ==
    /\ queue # {} =>
          \/ permit = 1 \/ waking > 0 \/ rpc = "notify"
          \/ \E w \in Workers : pc[w] \in {"awake", "notifying"}
    /\ pending \ (cooling \cup late) # {} =>
          permit = 1 \/ \E w \in Workers : pc[w] \notin {"idle", "waiting"}

\* Whatever is leaked, skipped or failed, every partition's rows are eventually
\* claimed.
EventuallySequenced == \A p \in Partitions : rows[p] > 0 ~> rows[p] = 0

\* The partitions of an instance are accounted for between its two mutexes: each
\* claim has one guard, and each suppressed push an entry nobody has drained.
ClaimsSound == TypeOK /\ ClaimsExact /\ CoalesceSafe
=============================================================================
