----------------------------- MODULE TraceMail ------------------------------
(***************************************************************************)
(* Traced batches of the outbox: the trace row that acks count down, and   *)
(* the way its completion reaches the subscriber who asked for it.         *)
(*                                                                         *)
(* A traced batch has one row and any number of messages spread over       *)
(* partitions, which any instance may process.  Acks of different          *)
(* partitions meet on the row, whose lock they hold until they commit.     *)
(* Whoever brings pending to zero completes the trace; only the instance   *)
(* that submitted it may stamp it as notified, in the ack or in its        *)
(* notifier, and then hands the outcome to its registry in memory.         *)
(*                                                                         *)
(* A trace names one batch (the caller's obligation), and its subscribers  *)
(* are on the instance that submits it.  What happens to a message before  *)
(* the ack is in module Outbox: here the messages of a partition are a     *)
(* queue and an ack settles a prefix of it.                                *)
(***************************************************************************)
EXTENDS Integers, Sequences, FiniteSets

CONSTANTS
    Traces,         \* trace names: naturals, so that they sort
    Instances,      \* running application instances
    Partitions,     \* partitions the batches are spread over
    Owner,          \* owner_instance of each trace
    Spread,         \* entities of each trace in each partition
    PageSize,       \* batch_size of the notifier and of the reporter
    MaxSubs,        \* bound: subscriptions ever taken
    MaxFaults,      \* bound: retries, rollbacks, failed passes, shutdowns
    Deployments,    \* what is in use: the batches, how many subscriptions, whether
                    \* the sweeper runs, whether handlers fail in mid-batch
    None            \* no entry in the registry, no ack in progress

ASSUME TraceAssumption ==
    /\ Traces \subseteq Nat
    /\ IsFiniteSet(Partitions)
    /\ Owner \in [Traces -> Instances]
    /\ Spread \in [Traces -> [Partitions -> Nat]]
    /\ \A t \in Traces : \E p \in Partitions : Spread[t][p] > 0

ASSUME MailBoundAssumption ==
    /\ PageSize \in Nat \ {0}
    /\ MaxSubs \in Nat
    /\ MaxFaults \in Nat
    /\ Deployments \subseteq [batches : SUBSET Traces, subs : 0..MaxSubs,
                              sweeps : BOOLEAN, partial : BOOLEAN]
    /\ None \notin 1..MaxSubs /\ None \notin Instances

Subs == 1..MaxSubs

VARIABLES
    deploy,         \* the deployment, which no step changes
    \* the database
    row,            \* trace rows: [is, pending, failures, retrying, completed, notified]
    aged,           \* which stamps of each trace are older than the sweep allows
    queue,          \* per partition, the trace of each message past the cursor
    \* acks in progress, one per partition (its lease)
    worker,         \* the instance whose worker acks the partition
    plan,           \* statements on trace rows this ack will execute
    taken,          \* those it has executed: it holds their row locks
    upto,           \* messages the ack settles
    \* in memory
    hand,           \* outcomes claimed and not delivered: [by, at, trace, failures]
    page,           \* mail each notifier has read and not tried to claim
    entries,        \* the registry of the owner: trace -> generation
    closed,         \* has the instance's registry been closed?
    sub,            \* subscriptions by generation: [trace, state, early, wants]
    chan,           \* what each watch channel holds: [state, failures]
    rpage,          \* retrying traces each reporter has yet to publish
    rseen,          \* the retrying traces each reporter has read
    rpc,            \* where each reporter is
    clones,         \* channels whose senders a reporter has cloned
    chosen,         \* trace rows the sweeper has selected
    \* history
    failed,         \* entities of each trace that became dead letters
    sends,          \* completions announced for each trace
    faults          \* faults so far, for the bound

ackVars == <<worker, plan, taken, upto>>
repVars == <<rpage, rseen, rpc, clones>>
subVars == <<entries, closed, sub, chan>>
vars == <<row, aged, queue, ackVars, hand, page, subVars, repVars, chosen,
          failed, sends, faults>>

NoRow == [is |-> "absent", pending |-> 0, failures |-> 0, retrying |-> FALSE,
          completed |-> FALSE, notified |-> FALSE]

Init ==
    /\ deploy \in Deployments
    /\ row = [t \in Traces |-> NoRow]
    /\ aged = [t \in Traces |-> {}]
    /\ queue = [p \in Partitions |-> <<>>]
    /\ worker = [p \in Partitions |-> None]
    /\ plan = [p \in Partitions |-> {}]
    /\ taken = [p \in Partitions |-> {}]
    /\ upto = [p \in Partitions |-> 0]
    /\ hand = {}
    /\ page = [i \in Instances |-> {}]
    /\ entries = [t \in Traces |-> None]
    /\ closed = [i \in Instances |-> FALSE]
    /\ sub = [g \in Subs |-> [state |-> "none"]]
    /\ chan = [g \in Subs |-> [state |-> "InFlight"]]
    /\ rpage = [i \in Instances |-> {}]
    /\ rseen = [i \in Instances |-> {}]
    /\ rpc = [i \in Instances |-> "idle"]
    /\ clones = [i \in Instances |-> {}]
    /\ chosen = {}
    /\ failed = [t \in Traces |-> 0]
    /\ sends = [t \in Traces |-> 0]
    /\ faults = 0

Fault == faults < MaxFaults /\ faults' = faults + 1

\* No ack's transaction holds the lock of t's row.
RowFree(t) == \A p \in Partitions : \A x \in taken[p] : x.trace # t

-----------------------------------------------------------------------------
(* Submission and subscriptions *)

Entities(t) == Cardinality(UNION {{p} \X (1..Spread[t][p]) : p \in Partitions})

\* The transaction of enqueue_batch commits: the trace row with pending at the
\* number of entities, and the messages.
Submit(t) ==
    /\ t \in deploy.batches
    /\ row[t].is = "absent"
    /\ row' = [row EXCEPT ![t] = [NoRow EXCEPT !.is = "present", !.pending = Entities(t)]]
    /\ queue' = [p \in Partitions |-> queue[p] \o [k \in 1..Spread[t][p] |-> t]]
    /\ UNCHANGED <<aged, ackVars, hand, page, subVars, repVars, chosen, failed,
                   sends, faults>>

\* TraceRegistry::subscribe: a new generation, in place of an earlier one on the
\* same trace; a closed registry keeps no entry.  Generations come from a counter.
Subscribe(g, t, wants) ==
    /\ g <= deploy.subs /\ t \in deploy.batches
    /\ sub[g].state = "none"
    /\ \A h \in 1..(g - 1) : sub[h].state # "none"
    /\ sub' = [sub EXCEPT ![g] = [state |-> "waiting", trace |-> t, wants |-> wants,
                                  early |-> row[t].is = "absent"]]
    /\ entries' = IF closed[Owner[t]] THEN entries ELSE [entries EXCEPT ![t] = g]
    /\ UNCHANGED <<row, aged, queue, ackVars, hand, page, closed, chan, repVars,
                   chosen, failed, sends, faults>>

\* Mutant: dropping a subscription removes whatever entry its trace has.
ReleaseAny(t, g) == entries' = [entries EXCEPT ![t] = None]

\* TraceRegistry::release removes the entry of this generation only.
Release(t, g) ==
    entries' = IF entries[t] = g THEN [entries EXCEPT ![t] = None] ELSE entries

\* The caller drops a subscription it no longer wants.
DropSub(g) ==
    /\ sub[g].state = "waiting"
    /\ sub' = [sub EXCEPT ![g].state = "dropped"]
    /\ Release(sub[g].trace, g)
    /\ UNCHANGED <<row, aged, queue, ackVars, hand, page, closed, chan, repVars,
                   chosen, failed, sends, faults>>

\* Some sender of g's channel is alive: the registry's or a reporter's clone.
HasSender(g) ==
    entries[sub[g].trace] = g \/ \E i \in Instances : g \in clones[i]

\* TraceSubscription::completion returns: Some(outcome) once the channel holds
\* Completed, None once its senders are gone.  It consumes the subscription.
Resolve(g) ==
    /\ sub[g].state = "waiting"
    /\ \/ /\ chan[g].state = "Completed"
          /\ sub' = [sub EXCEPT ![g].state = "told"]
       \/ /\ chan[g].state # "Completed"
          /\ ~HasSender(g)
          /\ sub' = [sub EXCEPT ![g].state = "None"]
    /\ Release(sub[g].trace, g)
    /\ UNCHANGED <<row, aged, queue, ackVars, hand, page, closed, chan, repVars,
                   chosen, failed, sends, faults>>

\* OutboxHandle::drop: the registry is closed and every entry goes.
Close(i) ==
    /\ ~closed[i]
    /\ Fault
    /\ closed' = [closed EXCEPT ![i] = TRUE]
    /\ entries' = [t \in Traces |-> IF Owner[t] = i THEN None ELSE entries[t]]
    /\ UNCHANGED <<row, aged, queue, ackVars, hand, page, sub, chan, repVars,
                   chosen, failed, sends>>

-----------------------------------------------------------------------------
(* Acks *)

\* trace_progress: per trace, how many of the first n messages are its own and
\* how many of those failed.
Progress(p, n, fail) ==
    {[phase |-> 1, trace |-> t,
      terminal |-> Cardinality({k \in 1..n : queue[p][k] = t}),
      failures |-> Cardinality({k \in fail : queue[p][k] = t})] :
        t \in {queue[p][k] : k \in 1..n}}

\* traces_beyond and record_trace_retry: the traces of the messages after n.
Beyond(p, n) ==
    {[phase |-> 2, trace |-> t, terminal |-> 0, failures |-> 0] :
        t \in {queue[p][k] : k \in (n + 1)..Len(queue[p])}}

\* An instance's worker starts the ack of partition p: it will settle the first
\* n messages and execute these statements on trace rows.
BeginAck(p, n, statements) ==
    /\ \E i \in Instances : ~closed[i] /\ worker' = [worker EXCEPT ![p] = i]
    /\ plan' = [plan EXCEPT ![p] = statements]
    /\ upto' = [upto EXCEPT ![p] = n]
    /\ UNCHANGED <<row, aged, queue, taken, hand, page, subVars, repVars, chosen,
                   failed, sends>>

\* The handler is done: it has processed n messages and rejected some of them.
\* Success, and Retry after progress, settle those n; Retry also marks the traces
\* of the tail as retrying; Reject settles the whole batch and fails the tail.
AckBegin(p) ==
    /\ plan[p] = {}
    /\ queue[p] # <<>>
    /\ \A o \in hand : o.by # p
    /\ \E n \in 0..Len(queue[p]) : \E fail \in SUBSET (1..n) :
          \/ /\ n > 0
             /\ BeginAck(p, n, Progress(p, n, fail))
             /\ UNCHANGED faults
          \/ /\ n < Len(queue[p])
             /\ n = 0 \/ deploy.partial
             /\ Fault
             /\ BeginAck(p, n, Progress(p, n, fail) \cup Beyond(p, n))
          \/ /\ n < Len(queue[p])
             /\ BeginAck(p, Len(queue[p]),
                         Progress(p, Len(queue[p]), fail \cup ((n + 1)..Len(queue[p]))))
             /\ UNCHANGED faults

\* Mutant: the statements are executed in no particular order.
FirstOfAny(steps, x) == x \in steps

\* Statements come in two groups, the countdown and the retries, each sorted by
\* trace.
FirstOf(steps, x) ==
    /\ x \in steps
    /\ \A y \in steps : x.phase < y.phase \/ (x.phase = y.phase /\ x.trace <= y.trace)

\* p's ack is about to execute a statement on t's row, which q's ack has locked.
WaitsFor(p, q) ==
    /\ p # q
    /\ \E x \in plan[p] \ taken[p] :
          FirstOf(plan[p] \ taken[p], x) /\ \E y \in taken[q] : y.trace = x.trace

\* The next statement gets its row lock, which the transaction keeps.
AckExec(p) ==
    /\ \E x \in plan[p] \ taken[p] :
          /\ FirstOf(plan[p] \ taken[p], x)
          /\ \A q \in Partitions \ {p} : \A y \in taken[q] : y.trace # x.trace
          /\ taken' = [taken EXCEPT ![p] = @ \cup {x}]
    /\ UNCHANGED <<row, aged, queue, worker, plan, upto, hand, page, subVars,
                   repVars, chosen, failed, sends, faults>>

\* Mutant: the delta is subtracted a second time to decide on completion, as if
\* every dialect still saw the old value there.
CountDownTwice(r, x) ==
    IF r.is = "present" /\ r.pending > 0
    THEN [r EXCEPT !.pending = @ - x.terminal, !.failures = @ + x.failures,
                   !.retrying = FALSE,
                   !.completed = r.pending - x.terminal - x.terminal <= 0]
    ELSE r

\* trace_advance, guarded by pending > 0.
CountDown(r, x) ==
    IF r.is = "present" /\ r.pending > 0
    THEN [r EXCEPT !.pending = @ - x.terminal, !.failures = @ + x.failures,
                   !.retrying = FALSE, !.completed = r.pending - x.terminal <= 0]
    ELSE r

\* trace_retry.
MarkRetrying(r) ==
    IF r.is = "present" /\ ~r.completed THEN [r EXCEPT !.retrying = TRUE] ELSE r

\* trace_claim_mail: complete, not notified, and i's own.
Claimable(r, t, i) ==
    r.is = "present" /\ r.pending <= 0 /\ ~r.notified /\ Owner[t] = i

\* t's row after the countdown of p's ack, and whether it matched a row.
Counts(p, t) == \E x \in plan[p] : x.phase = 1 /\ x.trace = t
Counted(p, t) ==
    IF Counts(p, t)
    THEN CountDown(row[t], CHOOSE x \in plan[p] : x.phase = 1 /\ x.trace = t)
    ELSE row[t]

\* apply_trace_progress claims only what its own advance has completed.
AckClaims(p, t) ==
    /\ Counts(p, t)
    /\ row[t].pending > 0
    /\ Claimable(Counted(p, t), t, worker[p])

AckedRow(p, t) ==
    LET r == [Counted(p, t) EXCEPT !.notified = @ \/ AckClaims(p, t)]
    IN  IF \E x \in plan[p] : x.phase = 2 /\ x.trace = t THEN MarkRetrying(r) ELSE r

FailedBy(p, t) ==
    IF Counts(p, t)
    THEN (CHOOSE x \in plan[p] : x.phase = 1 /\ x.trace = t).failures
    ELSE 0

\* The transaction ends, and its row locks go.
EndAck(p) ==
    /\ worker' = [worker EXCEPT ![p] = None]
    /\ plan' = [plan EXCEPT ![p] = {}]
    /\ taken' = [taken EXCEPT ![p] = {}]
    /\ upto' = [upto EXCEPT ![p] = 0]

\* COMMIT: the cursor, the dead letters and the trace rows at once.  What was
\* claimed is now in the worker's hands.
AckCommit(p) ==
    /\ plan[p] # {}
    /\ taken[p] = plan[p]
    /\ row' = [t \in Traces |-> AckedRow(p, t)]
    /\ queue' = [queue EXCEPT ![p] = SubSeq(@, upto[p] + 1, Len(@))]
    /\ failed' = [t \in Traces |-> failed[t] + FailedBy(p, t)]
    /\ hand' = hand \cup {[by |-> p, at |-> worker[p], trace |-> t,
                           failures |-> Counted(p, t).failures] :
                             t \in {u \in Traces : AckClaims(p, u)}}
    /\ EndAck(p)
    /\ UNCHANGED <<aged, page, subVars, repVars, chosen, sends, faults>>

\* The lease was lost, a statement failed or the worker died: ROLLBACK.
AckAbort(p) ==
    /\ plan[p] # {}
    /\ Fault
    /\ EndAck(p)
    /\ UNCHANGED <<row, aged, queue, hand, page, subVars, repVars, chosen,
                   failed, sends>>

\* TraceRegistry::deliver, after the claim has committed: the terminal state is
\* sent and the entry removed, under the registry's lock.  With nobody waiting
\* the outcome is discarded.
Deliver(o) ==
    /\ o \in hand
    /\ hand' = hand \ {o}
    /\ IF o.at = Owner[o.trace] /\ entries[o.trace] # None
       THEN /\ chan' = [chan EXCEPT ![entries[o.trace]] =
                           [state |-> "Completed", failures |-> o.failures]]
            /\ entries' = [entries EXCEPT ![o.trace] = None]
            /\ sends' = [sends EXCEPT ![o.trace] = @ + 1]
       ELSE UNCHANGED <<chan, entries, sends>>
    /\ UNCHANGED <<row, aged, queue, ackVars, page, closed, sub, repVars, chosen,
                   failed, faults>>

-----------------------------------------------------------------------------
(* Notifier: mail this instance owns and did not complete itself.  It      *)
(* sleeps only while nobody waits, and subscribe() leaves it a permit.     *)

\* ORDER BY ... LIMIT PageSize, over rows whose order does not matter here.
Pages(S) ==
    {P \in SUBSET S : Cardinality(P) = PageSize \/ (Cardinality(P) < PageSize /\ P = S)}

\* Mutant: only a subscription that wants retry reports keeps the notifier awake.
WaitingForReports(i) ==
    {t \in Traces : Owner[t] = i /\ entries[t] # None /\ sub[entries[t]].wants}

Waiting(i) == {t \in Traces : Owner[t] = i /\ entries[t] # None}

\* is_idle is false; trace_mail reads a page.
NotifierRead(i) ==
    /\ page[i] = {}
    /\ \A o \in hand : o.by # i
    /\ Waiting(i) # {}
    /\ LET mail == {t \in Traces : /\ row[t].is = "present" /\ Owner[t] = i
                                   /\ row[t].completed /\ ~row[t].notified}
       IN  \E P \in Pages(mail) : P # {} /\ page' = [page EXCEPT ![i] = P]
    /\ UNCHANGED <<row, aged, queue, ackVars, hand, subVars, repVars, chosen,
                   failed, sends, faults>>

\* Mutant: the claim does not stamp the row.
NotifierClaimUnstamped(i, t) ==
    /\ t \in page[i]
    /\ \A o \in hand : o.by # i
    /\ page' = [page EXCEPT ![i] = @ \ {t}]
    /\ hand' = IF Claimable(row[t], t, i)
               THEN hand \cup {[by |-> i, at |-> i, trace |-> t,
                                failures |-> row[t].failures]}
               ELSE hand
    /\ UNCHANGED <<row, aged, queue, ackVars, subVars, repVars, chosen, failed,
                   sends, faults>>

\* claim_trace_mail_alone on one row of the page: somebody else may have claimed
\* it, or swept it, since the page was read.
NotifierClaim(i, t) ==
    /\ t \in page[i]
    /\ \A o \in hand : o.by # i
    /\ RowFree(t)
    /\ page' = [page EXCEPT ![i] = @ \ {t}]
    /\ IF Claimable(row[t], t, i)
       THEN /\ row' = [row EXCEPT ![t].notified = TRUE]
            /\ hand' = hand \cup {[by |-> i, at |-> i, trace |-> t,
                                   failures |-> row[t].failures]}
       ELSE UNCHANGED <<row, hand>>
    /\ UNCHANGED <<aged, queue, ackVars, subVars, repVars, chosen, failed, sends,
                   faults>>

\* A failed statement ends the pass.
NotifierFails(i) ==
    /\ page[i] # {}
    /\ Fault
    /\ page' = [page EXCEPT ![i] = {}]
    /\ UNCHANGED <<row, aged, queue, ackVars, hand, subVars, repVars, chosen,
                   failed, sends>>

-----------------------------------------------------------------------------
(* Retry reporter *)

\* wants_retry_reports holds; trace_retrying reads a page.
ReporterRead(i) ==
    /\ rpc[i] = "idle"
    /\ \E t \in Waiting(i) : sub[entries[t]].wants
    /\ LET stuck == {t \in Traces : /\ row[t].is = "present" /\ Owner[t] = i
                                    /\ ~row[t].completed /\ row[t].retrying}
       IN  \E P \in Pages(stuck) :
              rpage' = [rpage EXCEPT ![i] = P] /\ rseen' = [rseen EXCEPT ![i] = P]
    /\ rpc' = [rpc EXCEPT ![i] = "publish"]
    /\ UNCHANGED <<row, aged, queue, ackVars, hand, page, subVars, clones, chosen,
                   failed, sends, faults>>

\* publish_retry for one row, under the registry's lock.
ReporterPublish(i, t) ==
    /\ t \in rpage[i]
    /\ rpage' = [rpage EXCEPT ![i] = @ \ {t}]
    /\ IF entries[t] # None /\ sub[entries[t]].wants
       THEN chan' = [chan EXCEPT ![entries[t]] = [state |-> "Retrying"]]
       ELSE UNCHANGED chan
    /\ UNCHANGED <<row, aged, queue, ackVars, hand, page, entries, closed, sub,
                   rseen, rpc, clones, chosen, failed, sends, faults>>

\* clear_retries_except, first half: the senders of the other entries are cloned
\* under the lock, unless the page was full and so says nothing of them.
ReporterClone(i) ==
    /\ rpc[i] = "publish"
    /\ rpage[i] = {}
    /\ clones' = [clones EXCEPT ![i] =
                     IF Cardinality(rseen[i]) < PageSize
                     THEN {entries[t] : t \in Waiting(i) \ rseen[i]} ELSE {}]
    /\ rpc' = [rpc EXCEPT ![i] = "clear"]
    /\ UNCHANGED <<row, aged, queue, ackVars, hand, page, subVars, rpage, rseen,
                   chosen, failed, sends, faults>>

\* send_if_modified touches a channel only if it says Retrying.
ClearRetrying(g) ==
    chan' = IF chan[g].state = "Retrying"
            THEN [chan EXCEPT ![g] = [state |-> "InFlight"]] ELSE chan

\* Second half, outside the lock: a completion may be delivered in between.
ReporterClear(i, g) ==
    /\ g \in clones[i]
    /\ ClearRetrying(g)
    /\ clones' = [clones EXCEPT ![i] = @ \ {g}]
    /\ UNCHANGED <<row, aged, queue, ackVars, hand, page, entries, closed, sub,
                   rpage, rseen, rpc, chosen, failed, sends, faults>>

ReporterDone(i) ==
    /\ rpc[i] = "clear"
    /\ clones[i] = {}
    /\ rpc' = [rpc EXCEPT ![i] = "idle"]
    /\ rseen' = [rseen EXCEPT ![i] = {}]
    /\ UNCHANGED <<row, aged, queue, ackVars, hand, page, subVars, rpage, clones,
                   chosen, failed, sends, faults>>

-----------------------------------------------------------------------------
(* Trace sweeper.  Ages only matter against the periods of TraceSweep, so  *)
(* a stamp is either recent or in aged.                                    *)

StampOf(t, what) ==
    CASE what = "created"   -> row[t].is = "present"
      [] what = "completed" -> row[t].completed
      [] what = "notified"  -> row[t].notified

Age(t, what) ==
    /\ deploy.sweeps
    /\ row[t].is = "present"
    /\ what \notin aged[t]
    /\ StampOf(t, what)
    /\ aged' = [aged EXCEPT ![t] = @ \cup {what}]
    /\ UNCHANGED <<row, queue, ackVars, hand, page, subVars, repVars, chosen,
                   failed, sends, faults>>

\* select_collectable_traces.  The two periods of a notified trace, with and
\* without failures, are not told apart.
Collectable(t) ==
    /\ row[t].is = "present"
    /\ \/ row[t].notified /\ "notified" \in aged[t]
       \/ row[t].completed /\ ~row[t].notified /\ "completed" \in aged[t]
       \/ ~row[t].completed /\ "created" \in aged[t]

SweepSelect ==
    /\ deploy.sweeps
    /\ chosen = {}
    /\ \E t \in Traces : Collectable(t)
    /\ chosen' = {t \in Traces : Collectable(t)}
    /\ UNCHANGED <<row, aged, queue, ackVars, hand, page, subVars, repVars, failed,
                   sends, faults>>

\* build_delete_traces: by id, whatever the rows have become.
SweepDelete ==
    /\ chosen # {}
    /\ \A t \in chosen : RowFree(t)
    /\ row' = [t \in Traces |-> IF t \in chosen THEN [row[t] EXCEPT !.is = "swept"]
                                ELSE row[t]]
    /\ chosen' = {}
    /\ UNCHANGED <<aged, queue, ackVars, hand, page, subVars, repVars, failed, sends,
                   faults>>

-----------------------------------------------------------------------------
SubscriberStep ==
    \/ \E t \in Traces : Submit(t)
    \/ \E g \in Subs : \E t \in Traces, wants \in BOOLEAN : Subscribe(g, t, wants)
    \/ \E g \in Subs : DropSub(g) \/ Resolve(g)
    \/ \E i \in Instances : Close(i)
AckStep(p) == AckBegin(p) \/ AckExec(p) \/ AckCommit(p) \/ AckAbort(p)
NotifierStep(i) ==
    \/ NotifierRead(i) \/ NotifierFails(i)
    \/ \E t \in Traces : NotifierClaim(i, t)
ReporterStep(i) ==
    \/ ReporterRead(i) \/ ReporterClone(i) \/ ReporterDone(i)
    \/ \E t \in Traces : ReporterPublish(i, t)
    \/ \E g \in Subs : ReporterClear(i, g)
SweeperStep ==
    \/ \E t \in Traces, what \in {"created", "completed", "notified"} :
          Age(t, what)
    \/ SweepSelect
    \/ SweepDelete

Next ==
    \/ SubscriberStep
    \/ \E p \in Partitions : AckStep(p)
    \/ \E o \in hand : Deliver(o)
    \/ \E i \in Instances : NotifierStep(i) \/ ReporterStep(i)
    \/ SweeperStep

Spec == Init /\ [][Next /\ UNCHANGED deploy]_<<vars, deploy>>

\* Workers and tasks run on; a subscriber that awaits is polled when its channel
\* changes or closes.  A closed instance owes nothing but what it has in hand.
Fairness ==
    /\ \A p \in Partitions : WF_vars(AckBegin(p) \/ AckExec(p) \/ AckCommit(p))
    /\ WF_vars(\E o \in hand : Deliver(o))
    /\ \A i \in Instances :
          /\ WF_vars(NotifierRead(i) \/ \E t \in Traces : NotifierClaim(i, t))
          /\ WF_vars(ReporterStep(i))
    /\ \A g \in Subs : WF_vars(Resolve(g))
    /\ WF_vars(SweepSelect \/ SweepDelete)

FairSpec == Spec /\ Fairness

-----------------------------------------------------------------------------
(* Properties *)

\* Messages of t no ack has settled yet.
Unsettled(t) ==
    UNION {{p} \X {k \in 1..Len(queue[p]) : queue[p][k] = t} : p \in Partitions}

Rows == [is : {"absent", "present", "swept"}, pending : Int, failures : Int,
         retrying : BOOLEAN, completed : BOOLEAN, notified : BOOLEAN]
Steps == [phase : {1, 2}, trace : Traces, terminal : Nat, failures : Nat]

\* Rows, acks, registry and channels hold values of their types.
TypeOK ==
    /\ row \in [Traces -> Rows]
    /\ \A t \in Traces : row[t].pending >= 0
    /\ \A p \in Partitions :
          /\ \A k \in 1..Len(queue[p]) : queue[p][k] \in Traces
          /\ worker[p] \in Instances \cup {None}
          /\ plan[p] \subseteq Steps /\ taken[p] \subseteq plan[p]
          /\ upto[p] <= Len(queue[p])
    /\ \A o \in hand : o.trace \in Traces /\ o.by \in Partitions \cup Instances
    /\ entries \in [Traces -> Subs \cup {None}]
    /\ \A g \in Subs :
          /\ sub[g].state \in {"none", "waiting", "dropped", "told", "None"}
          /\ chan[g].state \in {"InFlight", "Retrying", "Completed"}
    /\ \A i \in Instances : page[i] \cup rpage[i] \subseteq Traces
    /\ faults \in 0..MaxFaults

\* The row is right although acks of several partitions count it down: pending is
\* the number of messages not settled, failures the number of dead letters, and
\* it is completed exactly when nothing is left.
CountdownExact ==
    \A t \in Traces : row[t].is = "present" =>
        /\ row[t].pending = Cardinality(Unsettled(t))
        /\ row[t].failures = failed[t]
        /\ row[t].completed <=> row[t].pending = 0

\* A subscriber is told the truth: when its channel says Completed the batch is
\* settled and the failures are all of its dead letters, although the outcome
\* was carried in memory from a claim made earlier.
CompletionTrue ==
    \A g \in Subs : chan[g].state = "Completed" =>
        /\ Unsettled(sub[g].trace) = {}
        /\ chan[g].failures = failed[sub[g].trace]

\* Nobody is told twice: two acks, an ack and the notifier, or two passes of it
\* never both announce a completion.
AnnouncedOnce == \A t \in Traces : sends[t] <= 1

\* The newest subscription of a trace that still waits is the one the registry
\* knows, whatever older ones on the same trace do, unless it has been told or
\* the instance is closed.
NewestRegistered ==
    \A g \in Subs :
        /\ sub[g].state = "waiting"
        /\ \A h \in Subs : h > g /\ sub[h].state # "none" => sub[h].trace # sub[g].trace
        /\ ~closed[Owner[sub[g].trace]]
        => entries[sub[g].trace] = g \/ chan[g].state = "Completed"

\* A completion stamped as notified while its early subscriber waits is on its
\* way to it: nobody else took it, and it was not thrown away.
StampedInHand ==
    \A t \in Traces :
        /\ row[t].notified
        /\ entries[t] # None
        /\ sub[entries[t]].early
        => \E o \in hand : o.trace = t /\ o.at = Owner[t]

\* Two acks never wait for each other's row locks: "these are row locks, and two
\* acks taking the same pair of traces in opposite orders would deadlock".
SortedNeverDeadlocks ==
    \A p, q \in Partitions : ~(WaitsFor(p, q) /\ WaitsFor(q, p))

\* An ack that both counts down and marks a retry goes over the rows twice, each
\* time by trace; as long as no handler fails in mid-batch no two acks wait for
\* each other.
NoLockCycle == ~deploy.partial => SortedNeverDeadlocks

\* A subscription taken before the batch was submitted is answered: told, or None
\* when it was replaced or the instance shut down.  Only the sweeper, which
\* deletes the row of a batch that is too old, can leave it waiting.
EventuallyAnswered ==
    \A g \in Subs :
        (sub[g].state = "waiting" /\ sub[g].early /\ row[sub[g].trace].is = "present")
            ~> sub[g].state # "waiting" \/ row[sub[g].trace].is = "swept"

\* What is announced is true and announced once, whichever ack or notifier pass
\* claims the completion and however late it is delivered.
CompletionSound == CompletionTrue /\ AnnouncedOnce

\* A completion finds its subscriber: registrations, replacements and drops leave
\* the newest subscription registered, and a stamped one is in its owner's hand.
RegistrySound == TypeOK /\ NewestRegistered /\ StampedInHand

\* A completion stays: no sender the reporter cloned before it was delivered may
\* take it back.
CompletionStays ==
    [][\A g \in Subs : chan[g].state = "Completed" => chan'[g] = chan[g]]_vars

\* Who waits is answered, and the answer that is in the channel stands.
SubscribersServed == CompletionStays /\ EventuallyAnswered
=============================================================================
