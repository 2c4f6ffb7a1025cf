------------------------------- MODULE Ledger -------------------------------
(***************************************************************************)
(* The posting engine of the billing ledger and what certifies its books,  *)
(* for one tenant and one legal entity (gears/bss/ledger): posting under   *)
(* an idempotency key, queued postings and their applier, the fiscal       *)
(* period's close and reopen, the tie-out's baseline, the tamper-evidence  *)
(* chain with its verifier, and the tenant-wide freeze.                    *)
(*                                                                         *)
(* Each operation is one database transaction: its body reads a snapshot   *)
(* taken at BEGIN and its writes appear at COMMIT.  COMMIT is allowed when *)
(* no row it writes was written since the snapshot and when the committed  *)
(* transactions stay serializable: the most a SERIALIZABLE database may    *)
(* allow, and a database may always refuse more (Conflict).  What runs at  *)
(* the default isolation or outside a transaction is a sequence of single  *)
(* statements.                                                             *)
(*                                                                         *)
(* A balance is the set of the entries it counts, so the sum of two        *)
(* balances is right only when they are disjoint.                          *)
(***************************************************************************)
EXTENDS Naturals, Sequences, FiniteSets

CONSTANTS Procs,         \* the transactions' callers; a caller names its entry
          Keys,          \* idempotency keys
          Periods,       \* fiscal periods
          Payloads,      \* what a posting says; its hash tells payloads apart
          PeriodOf,      \* the period a payload is posted into
          Plans,         \* what the callers may be about to do: see plan
          MaxAttempts,   \* transaction attempts of one call
          None

OpType ==
    [kind : {"post", "intake", "apply"}, key : Keys, payload : Payloads]
      \cup [kind : {"close", "reopen", "openPeriod"}, period : Periods]
      \cup [kind : {"freeze", "tick", "nothing"}]

DedupRows ==
    [payload : Payloads, status : {"QUEUED", "POSTED"}, entry : Procs \cup {None}]
QueueRows == [payload : Payloads, status : {"QUEUED", "APPLIED"}]
JournalEntries == [key : Keys, payload : Payloads, prev : Procs \cup {None}]
Announcements == {"entry.posted", "period.closed"}

ASSUME LedgerAssumption ==
    /\ PeriodOf \in [Payloads -> Periods]
    /\ Plans \subseteq [op : [Procs -> OpType], open : SUBSET Periods,
                        damage : BOOLEAN, attempts : 1 .. MaxAttempts]
    /\ MaxAttempts \in Nat \ {0}
    /\ None \notin Procs
    /\ None \notin DedupRows /\ None \notin QueueRows
    /\ None \notin JournalEntries /\ None \notin Announcements

(***************************************************************************)
(* The rows.  An absent entry, dedup row or queue row is None.             *)
(***************************************************************************)
Dedup(k)   == <<"idempotency_dedup", k>>
Queue(k)   == <<"pending_event_queue", k>>
Period(f)  == <<"fiscal_period", f>>
Closing(f) == <<"period_close", f>>
Entry(e)   == <<"journal_entry", e>>
Event(p)   == <<"outbox", p>>
Tip        == <<"chain_state">>
Cache      == <<"account_balance">>
Baseline   == <<"verified_balance">>
Freeze     == <<"scope_freeze">>

EntryRows == {Entry(e) : e \in Procs}
Rows == {Dedup(k) : k \in Keys} \cup {Queue(k) : k \in Keys}
          \cup {Period(f) : f \in Periods} \cup {Closing(f) : f \in Periods}
          \cup EntryRows \cup {Event(p) : p \in Procs}
          \cup {Tip, Cache, Baseline, Freeze}

\* plan is what each caller does (op), the periods that are OPEN at the start
\* (open), whether the storage may corrupt a sealed entry (damage) and how many
\* attempts a call has (attempts); no step changes it.
VARIABLES
    plan,
    db,         \* the committed rows
    log,        \* the committed transactions: what they read and wrote, at which snapshot
    st,         \* the callers
    seen,       \* what a multi-statement reader has read so far
    alarms,     \* variances raised: by whom, over the full fold or against the
                \* baseline, and whether anything committed meanwhile
    damaged,    \* entries the storage corrupted
    certified   \* history: the entries a period's last close folded

Op == plan.op
Doing(kinds) == {p \in Procs : Op[p].kind \in kinds}

vars == <<db, log, st, seen, alarms, damaged, certified>>

Entries(d) == {e \in Procs : d[Entry(e)] # None}
EntriesIn(d, fs) == {e \in Entries(d) : PeriodOf[d[Entry(e)].payload] \in fs}

Idle == [pc |-> "idle", snap |-> None, at |-> 0, tries |-> 0, answer |-> None]

Init ==
    /\ plan \in Plans
    /\ db = [r \in Rows |->
               CASE \E f \in plan.open : r = Period(f) -> "OPEN"
                 [] \E f \in Periods \ plan.open : r = Period(f) -> "ABSENT"
                 [] r \in {Cache, Baseline} -> {}
                 [] r = Freeze -> FALSE
                 [] OTHER -> None]
    /\ log = <<>>
    /\ st = [p \in Procs |-> Idle]
    /\ seen = [p \in Doing({"tick", "freeze"}) |-> <<>>]
    /\ alarms = {}
    /\ damaged = {}
    /\ certified = [f \in Periods |-> {}]

-----------------------------------------------------------------------------
(***************************************************************************)
(* Transaction bodies: what a body answers, reads and writes on snapshot s. *)
(* A body that fails rolls back: it answers and writes nothing.            *)
(***************************************************************************)
NoWrites == [r \in {} |-> None]
Failed(answer, reads) ==
    [answer |-> answer, reads |-> reads, writes |-> NoWrites]

\* Mutant: the claim is not looked at before the entry is inserted.
PostGateless(p, s, k, payload, queued) == "proceed"

\* PostingService::post_in_txn, steps 1 and 2.
ClaimGate(p, s, k, payload, queued) ==
    LET row == s[Dedup(k)] IN
    CASE row = None -> IF queued THEN "Infra" ELSE "proceed"
      [] row # None /\ ~queued /\ row.payload # payload -> "IdempotencyConflict"
      [] row # None /\ (queued \/ row.payload = payload) /\ row.status = "POSTED" ->
             "Replay"
      [] OTHER -> IF queued THEN "proceed" ELSE "Infra"

\* The writes of steps 4 to 8: the entry, its projection, the seal, the
\* finalized dedup row, the announcement, and on a queued apply the queue row.
PostWrites(p, s, k, payload, queued) ==
    [r \in {Dedup(k), Entry(p), Tip, Cache, Event(p)} \cup (IF queued THEN {Queue(k)} ELSE {}) |->
        CASE r = Dedup(k) -> [payload |-> payload, status |-> "POSTED", entry |-> p]
          [] r = Entry(p) -> [key |-> k, payload |-> payload, prev |-> s[Tip]]
          [] r = Tip -> p
          [] r = Cache -> s[Cache] \cup {p}
          [] r = Event(p) -> "entry.posted"
          [] OTHER -> [payload |-> payload, status |-> "APPLIED"]]

PostBody(p, s, k, payload, queued) ==
    LET gate == ClaimGate(p, s, k, payload, queued)
        claim == {Dedup(k)}
        gates == claim \cup {Freeze, Period(PeriodOf[payload])}
    IN  CASE gate = "Replay" ->
               [answer |-> <<"Entry", s[Dedup(k)].entry>>, reads |-> claim,
                writes |-> NoWrites]
          [] gate \notin {"Replay", "proceed"} -> Failed(<<gate>>, claim)
          [] gate = "proceed" /\ s[Freeze] ->
               Failed(<<"TamperVerificationFailed">>, claim \cup {Freeze})
          [] gate = "proceed" /\ ~s[Freeze] /\ s[Period(PeriodOf[payload])] # "OPEN" ->
               Failed(<<"PeriodClosed">>, gates)
          [] OTHER ->
               [answer |-> <<"Entry", p>>, reads |-> gates \cup {Tip, Cache},
                writes |-> PostWrites(p, s, k, payload, queued)]

\* TieOutJob::tie_out_on: does every cached balance equal the fold of the lines?
TiesOut(cache, entries) == cache = entries

\* Mutant: the close ties out and takes its baseline on a plain connection.
CloseReadsLittle(f) == {Period(f), Closing(f)}

CloseReads(f) == {Period(f), Closing(f), Cache, Baseline} \cup EntryRows

CloseWrites(p, s, f) ==
    [r \in {Period(f), Closing(f), Event(p)}
             \cup (IF s[Cache] = {} THEN {} ELSE {Baseline}) |->
        CASE r \in {Period(f), Closing(f)} -> "CLOSED"
          [] r = Baseline -> s[Cache]
          [] OTHER -> "period.closed"]

\* close_in_txn.  "held": a gate of another part of the system blocks (open
\* exceptions, due recognition segments, control feeds, FX revaluation).
CloseBody(p, s, f, held) ==
    CASE s[Period(f)] = "ABSENT" -> Failed(<<"PeriodNotFound">>, {Period(f)})
      [] s[Period(f)] = "CLOSED" ->
           [answer |-> <<"AlreadyClosed">>, reads |-> {Period(f)}, writes |-> NoWrites]
      [] s[Period(f)] = "OPEN" /\ (held \/ ~TiesOut(s[Cache], Entries(s))) ->
           [answer |-> <<"PeriodCloseBlocked">>, reads |-> CloseReads(f),
            writes |-> [r \in {Closing(f)} |-> "CLOSING"]]
      [] OTHER ->
           [answer |-> <<"Closed">>, reads |-> CloseReads(f),
            writes |-> CloseWrites(p, s, f)]

\* reopen_in_txn.
ReopenBody(s, f) ==
    CASE s[Period(f)] = "ABSENT" -> Failed(<<"PeriodNotFound">>, {Period(f)})
      [] s[Period(f)] = "OPEN" ->
           [answer |-> <<"NoOp">>, reads |-> {Period(f)}, writes |-> NoWrites]
      [] OTHER ->
           [answer |-> <<"Reopened">>, reads |-> {Period(f), Closing(f)},
            writes |-> [r \in {Period(f), Closing(f)} |->
                          IF r = Period(f) THEN "OPEN" ELSE "REOPENED"]]

\* ScopeFreezeRepo::set: an insert that leaves an existing row alone.
FreezeBody(s) ==
    [answer |-> <<"Frozen">>, reads |-> {Freeze},
     writes |-> IF s[Freeze] THEN NoWrites ELSE [r \in {Freeze} |-> TRUE]]

Body(p, s, held) ==
    LET o == Op[p] IN
    CASE o.kind = "post" -> PostBody(p, s, o.key, o.payload, FALSE)
      [] o.kind = "apply" -> PostBody(p, s, o.key, o.payload, TRUE)
      [] o.kind = "close" -> CloseBody(p, s, o.period, held)
      [] o.kind = "reopen" -> ReopenBody(s, o.period)
      [] OTHER -> FreezeBody(s)

-----------------------------------------------------------------------------
(***************************************************************************)
(* The database: first updater wins, and serializability.                  *)
(***************************************************************************)
\* The database refuses to update a row that was written since the snapshot.
FirstUpdater(at, writes) ==
    \A n \in at + 1 .. Len(log) : log[n].writes \cap writes = {}

\* Transaction a comes before b in every serial order: b saw or overwrote what
\* a wrote, or a did not see what b wrote.
Before(a, b) ==
    \/ a.pos <= b.at /\ a.writes \cap (b.reads \cup b.writes) # {}
    \/ b.pos > a.at /\ a.reads \cap b.writes # {}

Committed == {log[n] : n \in {m \in 1..Len(log) : log[m].serializable}}

\* Committing t closes no cycle: some set of transactions holds all that must
\* follow t, is closed under "comes before", and has none that must precede t.
NoCycle(t) ==
    \E after \in SUBSET Committed :
        /\ \A x \in Committed : Before(t, x) => x \in after
        /\ \A x \in after, y \in Committed : Before(x, y) => y \in after
        /\ \A x \in after : ~Before(x, t)

Transaction(p, b, serializable) ==
    [pos |-> Len(log) + 1, at |-> st[p].at, reads |-> b.reads,
     writes |-> DOMAIN b.writes, serializable |-> serializable]

\* Mutant: the engine's transactions run at READ COMMITTED.
MayCommitBlind(p, b) == TRUE

\* TxConfig::serializable().
MayCommit(p, b) ==
    /\ FirstUpdater(st[p].at, DOMAIN b.writes)
    /\ NoCycle(Transaction(p, b, TRUE))

Store(writes) == [r \in Rows |-> IF r \in DOMAIN writes THEN writes[r] ELSE db[r]]

-----------------------------------------------------------------------------
(***************************************************************************)
(* Callers of the transactional operations: retry_transaction_for.         *)
(***************************************************************************)
Finish(p, answer) == st' = [st EXCEPT ![p] = [Idle EXCEPT !.pc = "done", !.answer = answer]]

Transactional == Doing({"post", "apply", "close", "reopen", "freeze"})

\* An attempt begins.  The applier finds its queue row in a claim of its own
\* that leaves the row QUEUED; the verifier freezes when its walk found a break.
Begin(p) ==
    /\ st[p].pc = "idle"
    /\ Op[p].kind = "apply" =>
         db[Queue(Op[p].key)] = [payload |-> Op[p].payload, status |-> "QUEUED"]
    /\ Op[p].kind = "freeze" => seen[p] = <<"break">>
    /\ st' = [st EXCEPT ![p].pc = "txn", ![p].snap = db, ![p].at = Len(log)]
    /\ UNCHANGED <<db, log, seen, alarms, damaged, certified>>

\* The database refuses the attempt; the last refusal is the caller's.
Conflict(p) ==
    /\ st[p].pc = "txn"
    /\ st' = [st EXCEPT ![p] =
                IF @.tries + 1 < plan.attempts
                THEN [Idle EXCEPT !.pc = "again", !.tries = st[p].tries + 1]
                ELSE [Idle EXCEPT !.pc = "done", !.answer = <<"ConcurrentModification">>]]
    /\ UNCHANGED <<db, log, seen, alarms, damaged, certified>>

\* After the delay the body runs again on a fresh snapshot.
Again(p) ==
    /\ st[p].pc = "again"
    /\ st' = [st EXCEPT ![p].pc = "txn", ![p].snap = db, ![p].at = Len(log)]
    /\ UNCHANGED <<db, log, seen, alarms, damaged, certified>>

\* The body rejects the call: it rolls back and is not retried.
Reject(p) ==
    /\ st[p].pc = "txn"
    /\ \/ \E held \in BOOLEAN :
            LET b == Body(p, st[p].snap, held) IN
            /\ b.answer[1] \in {"IdempotencyConflict", "Infra", "PeriodNotFound",
                                "TamperVerificationFailed", "PeriodClosed"}
            /\ Finish(p, b.answer)
       \/ /\ Op[p].kind \in {"post", "apply"}
          /\ Finish(p, <<"Refused">>)
    /\ UNCHANGED <<db, log, seen, alarms, damaged, certified>>

\* COMMIT.  "lost": the answer does not reach the caller, who gets an error
\* that is not retried, although the transaction took effect.  (The verifier
\* tries again and finds its own freeze.)
Commit(p, held, lost) ==
    LET b == Body(p, st[p].snap, held) IN
    /\ st[p].pc = "txn"
    /\ b.answer[1] \in {"Entry", "AlreadyClosed", "PeriodCloseBlocked", "Closed",
                        "NoOp", "Reopened", "Frozen"}
    /\ MayCommit(p, b)
    /\ lost => Op[p].kind # "freeze"
    /\ db' = Store(b.writes)
    /\ log' = Append(log, Transaction(p, b, TRUE))
    /\ Finish(p, IF lost THEN <<"Infra">> ELSE b.answer)
    /\ certified' = IF b.answer = <<"Closed">>
                    THEN [certified EXCEPT ![Op[p].period] =
                            EntriesIn(st[p].snap, {Op[p].period})]
                    ELSE certified
    /\ UNCHANGED <<seen, alarms, damaged>>

-----------------------------------------------------------------------------
(***************************************************************************)
(* Writers at the default isolation: one statement decides.                *)
(***************************************************************************)
Statement(p, writes) ==
    /\ db' = Store(writes)
    /\ log' = Append(log, Transaction(p, [reads |-> {}, writes |-> writes], FALSE))

\* AllocationService::enqueue_allocation.
Intake(p) ==
    LET o == Op[p]
        row == db[Dedup(o.key)]
        queued == [payload |-> o.payload, status |-> "QUEUED"]
    IN  /\ st[p].pc = "idle"
        /\ \/ /\ row = None
              /\ Statement(p, [r \in {Dedup(o.key), Queue(o.key)} |->
                                 IF r = Queue(o.key) THEN queued
                                 ELSE [payload |-> o.payload, status |-> "QUEUED",
                                       entry |-> None]])
              /\ Finish(p, <<"Queued">>)
           \/ /\ row # None
              /\ Finish(p, IF row.payload # o.payload THEN <<"IdempotencyConflict">>
                           ELSE IF row.status = "QUEUED" THEN <<"Queued">>
                           ELSE <<"Infra">>)
              /\ UNCHANGED <<db, log>>
        /\ UNCHANGED <<seen, alarms, damaged, certified>>

\* PeriodOpenJob::run for one period.
OpenPeriod(p) ==
    LET f == Op[p].period IN
    /\ st[p].pc = "idle"
    /\ \/ /\ db[Period(f)] = "ABSENT"
          /\ Statement(p, [r \in {Period(f)} |-> "OPEN"])
       \/ /\ db[Period(f)] # "ABSENT"
          /\ UNCHANGED <<db, log>>
    /\ Finish(p, <<"Opened">>)
    /\ UNCHANGED <<seen, alarms, damaged, certified>>

-----------------------------------------------------------------------------
(***************************************************************************)
(* The verifier and the daily tie-out read on a plain connection: every    *)
(* statement sees what is committed when it runs.                          *)
(***************************************************************************)
Read(p, what) ==
    /\ seen' = [seen EXCEPT ![p] = what]
    /\ UNCHANGED <<db, log, st, alarms, damaged, certified>>

\* The entries a walk along the back-pointers from e visits: the least set
\* that holds e and, with an entry, the entry before it.
Walk(d, e) ==
    {x \in Entries(d) :
       \A w \in SUBSET Entries(d) :
          (e \in w /\ \A y \in w : d[Entry(y)].prev \in w \cup {None}) => x \in w}

\* Mutant: the surplus is taken for an orphaned branch without a second look.
OrphanAtOnce(p, walked, tip) ==
    IF Cardinality(Entries(db)) # Cardinality(walked) THEN <<"break">> ELSE <<>>

\* A surplus of sealed entries counts only if the tip did not move meanwhile.
OrphanCheck(p, walked, tip) ==
    IF Cardinality(Entries(db)) # Cardinality(walked)
    THEN <<"recount", tip>> ELSE <<>>

\* ChainVerifier::verify_tenant, statement by statement.
VerifyTip(p) ==
    /\ st[p].pc = "idle" /\ seen[p] = <<>>
    /\ db[Tip] # None
    /\ Read(p, <<"tip", db[Tip]>>)

VerifyWalk(p) ==
    /\ seen[p] # <<>> /\ seen[p][1] = "tip"
    /\ LET walked == Walk(db, seen[p][2]) IN
       Read(p, IF walked \cap damaged # {} THEN <<"break">>
               ELSE <<"walked", seen[p][2], walked>>)

VerifyCount(p) ==
    /\ seen[p] # <<>> /\ seen[p][1] = "walked"
    /\ Read(p, OrphanCheck(p, seen[p][3], seen[p][2]))

VerifyRecount(p) ==
    /\ seen[p] # <<>> /\ seen[p][1] = "recount"
    /\ Read(p, IF db[Tip] = seen[p][2] THEN <<"break">> ELSE <<>>)

\* The storage corrupts a sealed entry: what the verifier is there for.
Corrupt(e) ==
    /\ plan.damage
    /\ e \in Entries(db) \ damaged
    /\ damaged' = damaged \cup {e}
    /\ UNCHANGED <<db, log, st, seen, alarms, certified>>

Verdict(p, full, cache, entries, counted) ==
    /\ alarms' = IF counted /\ TiesOut(cache, entries) THEN alarms
                 ELSE alarms \cup {[by |-> p, full |-> full, quiet |-> Len(log) = st[p].at]}
    /\ seen' = [seen EXCEPT ![p] = <<>>]
    /\ Finish(p, <<"TiedOut">>)
    /\ UNCHANGED <<db, log, damaged, certified>>

\* TieOutJob::tie_out_for: the full fold on every so many ticks and where there
\* is no baseline, else the baseline.
TickBaseline(p, full) ==
    /\ st[p].pc = "idle" /\ seen[p] = <<>>
    /\ seen' = [seen EXCEPT ![p] =
                  IF full \/ db[Baseline] = {} THEN <<"full">>
                  ELSE <<"baseline", db[Baseline]>>]
    /\ st' = [st EXCEPT ![p].at = Len(log)]
    /\ UNCHANGED <<db, log, alarms, damaged, certified>>

TickCaches(p) ==
    /\ seen[p] = <<"full">>
    /\ Read(p, <<"cache", db[Cache]>>)

TickFold(p) ==
    /\ seen[p] # <<>> /\ seen[p][1] = "cache"
    /\ Verdict(p, TRUE, seen[p][2], Entries(db), TRUE)

OpenPeriods(d) == {f \in Periods : d[Period(f)] = "OPEN"}

\* tie_out_incremental: the OPEN periods, their lines, then the caches.
TickPeriods(p) ==
    /\ seen[p] # <<>> /\ seen[p][1] = "baseline"
    /\ Read(p, <<"periods", seen[p][2], OpenPeriods(db)>>)

TickLines(p) ==
    /\ seen[p] # <<>> /\ seen[p][1] = "periods"
    /\ Read(p, <<"lines", seen[p][2], EntriesIn(db, seen[p][3])>>)

\* verify_incremental: baseline plus open lines is the cache.
TickVerify(p) ==
    /\ seen[p] # <<>> /\ seen[p][1] = "lines"
    /\ Verdict(p, FALSE, db[Cache], seen[p][2] \cup seen[p][3], seen[p][2] \cap seen[p][3] = {})

-----------------------------------------------------------------------------
Next ==
    \/ \E p \in Transactional :
         \/ Begin(p) \/ Conflict(p) \/ Again(p) \/ Reject(p)
         \/ \E held, lost \in BOOLEAN : Commit(p, held, lost)
    \/ \E p \in Doing({"intake"}) : Intake(p)
    \/ \E p \in Doing({"openPeriod"}) : OpenPeriod(p)
    \/ \E p \in Doing({"freeze"}) :
         VerifyTip(p) \/ VerifyWalk(p) \/ VerifyCount(p) \/ VerifyRecount(p)
    \/ \E p \in Doing({"tick"}) :
         \/ (\E full \in BOOLEAN : TickBaseline(p, full)) \/ TickCaches(p) \/ TickFold(p)
         \/ TickPeriods(p) \/ TickLines(p) \/ TickVerify(p)
    \/ \E e \in Procs : Corrupt(e)

Spec == Init /\ [][Next /\ UNCHANGED plan]_<<vars, plan>>

-----------------------------------------------------------------------------
(***************************************************************************)
(* Properties                                                              *)
(***************************************************************************)

\* The type of the rows.
RowsTyped(d) ==
    /\ d = [r \in Rows |-> d[r]]
    /\ \A f \in Periods : d[Period(f)] \in {"ABSENT", "OPEN", "CLOSED"}
    /\ \A k \in Keys : /\ d[Dedup(k)] \in {None} \cup DedupRows
                       /\ d[Queue(k)] \in {None} \cup QueueRows
    /\ \A e \in Procs : /\ d[Entry(e)] \in {None} \cup JournalEntries
                        /\ d[Event(e)] \in {None} \cup Announcements
    /\ d[Tip] \in Procs \cup {None}
    /\ d[Cache] \subseteq Procs
    /\ d[Baseline] \subseteq Procs
    /\ d[Freeze] \in BOOLEAN

\* The type of the rows and of the callers.
TypeOK ==
    /\ RowsTyped(db)
    /\ \A p \in Procs : /\ st[p].pc \in {"idle", "txn", "again", "done"}
                        /\ st[p].tries \in 0 .. MaxAttempts - 1
                        /\ st[p].at \in 0 .. Len(log)
    /\ alarms \subseteq [by : Procs, full : BOOLEAN, quiet : BOOLEAN] /\ damaged \subseteq Procs

\* The tamper-evidence chain (chain.rs) never forks, and from the tip it
\* reaches every entry of the journal, whatever posts run at the same time.
LinearChain(d) ==
    /\ \A a, b \in Entries(d) : d[Entry(a)].prev = d[Entry(b)].prev => a = b
    /\ \A w \in SUBSET Entries(d) :
         (/\ d[Tip] \in w \cup {None}
          /\ \A y \in w : d[Entry(y)].prev \in w \cup {None}
          /\ (w = {} => d[Tip] = None))
         => w = Entries(d)

\* A key is posted at most once over Fresh posts, queued applies, their retries
\* and commits whose answer was lost, and the dedup row, the journal, the queue
\* row and the announcement agree on it.
EachKeyOnce(d) ==
    /\ \A a, b \in Entries(d) : d[Entry(a)].key = d[Entry(b)].key => a = b
    /\ \A k \in Keys : \A e \in Procs :
         (d[Entry(e)] # None /\ d[Entry(e)].key = k)
           <=> (d[Dedup(k)] # None /\ d[Dedup(k)].status = "POSTED" /\ d[Dedup(k)].entry = e)
    /\ \A e \in Procs : d[Event(e)] = "entry.posted" <=> e \in Entries(d)
    /\ \A k \in Keys : (d[Queue(k)] # None /\ d[Queue(k)].status = "APPLIED")
                         => d[Dedup(k)].status = "POSTED"

\* Every cached balance (projector.rs) is the fold of the journal: no projection
\* is lost to a concurrent one.
CacheIsJournal(d) == d[Cache] = Entries(d)

\* A CLOSED period holds exactly the entries its close tied out: no post lands
\* in it between the tie-out and the flip or after the flip.
ClosedIsCertified ==
    \A f \in Periods : db[Period(f)] = "CLOSED" => EntriesIn(db, {f}) = certified[f]

\* Callers that use a key for one payload and are told of an entry are told of
\* the same one, which is in the journal with that payload.
AnswersAgree ==
    \A p \in Doing({"post", "apply"}) :
       (st[p].answer # None /\ st[p].answer[1] = "Entry") =>
          LET e == st[p].answer[2] IN
          /\ e \in Entries(db)
          /\ db[Entry(e)].key = Op[p].key
          /\ db[Entry(e)].payload = Op[p].payload

\* The verifier freezes a tenant only over an entry that is really damaged:
\* a post that commits during its walk is no orphaned branch.
NoFalseFreeze == db[Freeze] => damaged # {}

\* The baseline counts all that is certified: what a close tied out is in the
\* snapshot it took, and no later close takes it out again (snapshot_baseline).
BaselineCovers ==
    \A f \in Periods : db[Period(f)] = "CLOSED" => EntriesIn(db, {f}) \subseteq db[Baseline]

\* What tieout.rs says of the baseline: it is the closed periods' contribution,
\* so that with the OPEN periods' lines, each counted once, it adds up to the
\* cache.  The close snapshots the whole cache, so books with two open periods,
\* or with a period that was reopened, break it: an expected violation.
BaselineAddsUp ==
    db[Baseline] # {} =>
      /\ db[Baseline] \cap EntriesIn(db, OpenPeriods(db)) = {}
      /\ db[Baseline] \cup EntriesIn(db, OpenPeriods(db)) = db[Cache]

\* The full tie-out raises no variance over sound books when nothing commits
\* while it runs.  (Its statements share no snapshot, so a post in between can
\* look like a variance; and nothing is said of the tie-out against a baseline,
\* which accuses sound books whenever BaselineAddsUp fails.)
FullTieOutSound == \A al \in alarms : al.full => ~al.quiet

\* The journal is one chain, and the balances are what the chain adds up to.
JournalSound == TypeOK /\ LinearChain(db) /\ CacheIsJournal(db)

\* A key is posted once, and everybody who asked for it is told the same.
PostedOnce == EachKeyOnce(db) /\ AnswersAgree

\* What a close certified stays certified, and the baseline holds all of it.
CloseHolds == ClosedIsCertified /\ BaselineCovers

\* Neither the verifier nor an undisturbed full tie-out accuses sound books.
NoFalseAlarm == NoFalseFreeze /\ FullTieOutSound
=============================================================================
