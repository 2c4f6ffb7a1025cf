---------------------------- MODULE LedgerProofs ----------------------------
(***************************************************************************)
(* Proofs about Ledger: for every set of callers and whatever they do, the *)
(* journal is one chain that the balances add up to, a key is posted once  *)
(* and everybody is told the same, a closed period holds what its close    *)
(* tied out, and neither the verifier nor the tie-out accuses sound books. *)
(***************************************************************************)
EXTENDS Ledger, SequenceTheorems, TLAPS

-----------------------------------------------------------------------------
(***************************************************************************)
(* What is inductive.                                                      *)
(***************************************************************************)

\* What every row may hold, the rows of the close included.
Cells ==
    {None, "ABSENT", "OPEN", "CLOSED", "CLOSING", "REOPENED"} \cup DedupRows \cup QueueRows
      \cup JournalEntries \cup Announcements \cup Procs \cup SUBSET Procs
Values == Cells \cup BOOLEAN

\* What a caller may be told besides an entry.
Words ==
    {"IdempotencyConflict", "Infra", "PeriodNotFound", "TamperVerificationFailed",
     "PeriodClosed", "Refused", "ConcurrentModification", "Queued", "Opened", "TiedOut",
     "AlreadyClosed", "PeriodCloseBlocked", "Closed", "NoOp", "Reopened", "Frozen"}
Replies == {<<a>> : a \in Words}
Answers == {None} \cup Replies \cup {<<"Entry", e>> : e \in Procs \cup {None}}

Callers ==
    [pc : {"idle", "txn", "again", "done"}, snap : {None} \cup [Rows -> Values],
     at : Nat, tries : 0 .. MaxAttempts - 1,
     answer : Answers]

Transactions ==
    [pos : Nat, at : Nat, reads : SUBSET Rows, writes : SUBSET Rows, serializable : BOOLEAN]

\* The chain's back-pointers stay inside the journal and nobody points at the tip.
ChainEnds(d) ==
    /\ d[Tip] \in Entries(d) \cup {None}
    /\ d[Tip] = None => Entries(d) = {}
    /\ \A e \in Entries(d) : /\ d[Entry(e)].prev \in Entries(d) \cup {None}
                             /\ d[Entry(e)].prev # d[Tip]

\* What is queued under a key is what was claimed for it and what is posted for it.
ClaimsAgree(d) ==
    /\ \A k \in Keys : d[Queue(k)] # None =>
         d[Dedup(k)] # None /\ d[Dedup(k)].payload = d[Queue(k)].payload
    /\ \A k \in Keys : d[Dedup(k)] # None =>
         /\ d[Dedup(k)].status = "POSTED" =>
              /\ d[Dedup(k)].entry \in Entries(d)
              /\ d[Entry(d[Dedup(k)].entry)].payload = d[Dedup(k)].payload

\* What a database state keeps, committed or read as a snapshot.
Sound(d) ==
    /\ d \in [Rows -> Values]
    /\ RowsTyped(d)
    /\ LinearChain(d)
    /\ ChainEnds(d)
    /\ EachKeyOnce(d)
    /\ ClaimsAgree(d)
    /\ CacheIsJournal(d)

\* A row differs from the snapshot only if a later transaction wrote it, and an
\* entry the snapshot has is still the same.
SnapshotOf(s, at, d, l) ==
    /\ Sound(s)
    /\ at \in Nat /\ at <= Len(l)
    /\ \A r \in Rows : (\A n \in at + 1 .. Len(l) : r \notin l[n].writes) => s[r] = d[r]
    /\ \A e \in Procs : s[Entry(e)] # None => d[Entry(e)] = s[Entry(e)]

\* The queue row an applier has found.
HasQueued(d, p) ==
    d[Queue(Op[p].key)] # None /\ d[Queue(Op[p].key)].payload = Op[p].payload

CallInv(p) ==
    /\ st[p].pc # "done" => db[Entry(p)] = None
    /\ st[p].pc = "txn" =>
         /\ SnapshotOf(st[p].snap, st[p].at, db, log)
         /\ st[p].snap[Baseline] \subseteq st[p].snap[Cache]
    /\ Op[p].kind = "apply" =>
         /\ st[p].pc = "txn" => HasQueued(st[p].snap, p)
         /\ st[p].pc \in {"txn", "again"} => HasQueued(db, p)
    /\ Op[p].kind = "freeze" /\ st[p].pc \in {"txn", "again"} => damaged # {}

\* An entry is what its caller was asked to post.
EntriesAsked ==
    \A e \in Entries(db) :
       /\ Op[e].kind \in {"post", "apply"}
       /\ db[Entry(e)].key = Op[e].key
       /\ db[Entry(e)].payload = Op[e].payload

\* The log is numbered; whoever wrote an entry had read its period, and whoever
\* closed a period had read all entries.
LogSound(l, d) ==
    /\ \A n \in 1 .. Len(l) : l[n].pos = n /\ l[n].at < n
    /\ \A n \in 1 .. Len(l) : \A e \in Procs : Entry(e) \in l[n].writes =>
         /\ l[n].serializable
         /\ d[Entry(e)] # None
         /\ Period(PeriodOf[d[Entry(e)].payload]) \in l[n].reads
    /\ \A f \in Periods : d[Period(f)] = "CLOSED" =>
         \E n \in 1 .. Len(l) :
            /\ l[n].serializable
            /\ EntryRows \subseteq l[n].reads
            /\ Period(f) \in l[n].writes
            /\ \A m \in n + 1 .. Len(l) : Period(f) \notin l[m].writes

\* The history has a set for every period.
CertifiedInv == DOMAIN certified = Periods /\ ClosedIsCertified

\* The baseline is of cached balances, and what a close certified stays in it.
BaselineInv ==
    /\ db[Baseline] \subseteq db[Cache]
    /\ \A f \in Periods : certified[f] \subseteq db[Baseline]

VerifyInv(p) ==
    \/ seen[p] = <<>>
    \/ seen[p] = <<"break">> /\ damaged # {}
    \/ \E t \in Entries(db) : seen[p] = <<"tip", t>>
    \/ \E t \in Entries(db), w \in SUBSET Procs :
         seen[p] = <<"walked", t, w>> /\ (db[Tip] = t => w = Entries(db))
    \/ \E t \in Entries(db) : seen[p] = <<"recount", t>> /\ db[Tip] # t

TickInv(p) ==
    \/ seen[p] = <<>>
    \/ seen[p] = <<"full">>
    \/ \E c \in SUBSET Procs :
         seen[p] = <<"cache", c>> /\ (Len(log) = st[p].at => c = db[Cache])
    \/ \E b \in SUBSET Procs :
         seen[p] = <<"baseline", b>> /\ b # {} /\ (Len(log) = st[p].at => b = db[Baseline])
    \/ \E b \in SUBSET Procs, fs \in SUBSET Periods :
         /\ seen[p] = <<"periods", b, fs>> /\ b # {}
         /\ Len(log) = st[p].at => b = db[Baseline] /\ fs = OpenPeriods(db)
    \/ \E b \in SUBSET Procs, l \in SUBSET Procs :
         /\ seen[p] = <<"lines", b, l>> /\ b # {}
         /\ Len(log) = st[p].at => b = db[Baseline] /\ l = EntriesIn(db, OpenPeriods(db))

TypeInv ==
    /\ plan \in Plans
    /\ log \in Seq(Transactions)
    /\ st \in [Procs -> Callers]
    /\ \A p \in Procs : st[p].at <= Len(log)
    /\ DOMAIN seen = Doing({"tick", "freeze"})
    /\ alarms \subseteq [by : Procs, full : BOOLEAN, quiet : BOOLEAN]
    /\ damaged \subseteq Procs

\* The inductive invariant.
LedgerInv ==
    /\ TypeInv
    /\ Sound(db)
    /\ EntriesAsked
    /\ \A p \in Procs : CallInv(p)
    /\ LogSound(log, db)
    /\ AnswersAgree
    /\ CertifiedInv
    /\ BaselineInv
    /\ \A p \in Doing({"freeze"}) : VerifyInv(p)
    /\ \A p \in Doing({"tick"}) : TickInv(p)
    /\ NoFalseAlarm

-----------------------------------------------------------------------------
(***************************************************************************)
(* The rows are apart.                                                     *)
(***************************************************************************)

\* A row's table and key, as the rows' names say them.
LEMMA RowNames ==
    /\ \A k : Dedup(k)[1] = "idempotency_dedup" /\ Dedup(k)[2] = k
    /\ \A k : Queue(k)[1] = "pending_event_queue" /\ Queue(k)[2] = k
    /\ \A f : Period(f)[1] = "fiscal_period" /\ Period(f)[2] = f
    /\ \A f : Closing(f)[1] = "period_close" /\ Closing(f)[2] = f
    /\ \A e : Entry(e)[1] = "journal_entry" /\ Entry(e)[2] = e
    /\ \A p : Event(p)[1] = "outbox" /\ Event(p)[2] = p
    /\ Tip[1] = "chain_state" /\ Cache[1] = "account_balance"
    /\ Baseline[1] = "verified_balance" /\ Freeze[1] = "scope_freeze"
BY DEF Dedup, Queue, Period, Closing, Entry, Event, Tip, Cache, Baseline, Freeze

\* The names are rows.
LEMMA RowsAre ==
    /\ \A k \in Keys : Dedup(k) \in Rows /\ Queue(k) \in Rows
    /\ \A f \in Periods : Period(f) \in Rows /\ Closing(f) \in Rows
    /\ \A e \in Procs : Entry(e) \in Rows /\ Event(e) \in Rows
    /\ Tip \in Rows /\ Cache \in Rows /\ Baseline \in Rows /\ Freeze \in Rows
BY DEF Rows, EntryRows

\* d with the rows of w written.
Stored(d, w) == [r \in Rows |-> IF r \in DOMAIN w THEN w[r] ELSE d[r]]

\* A stored row is what was written, or what it was.
LEMMA StoredAt ==
    ASSUME NEW d, NEW w, NEW r \in Rows
    PROVE  /\ r \notin DOMAIN w => Stored(d, w)[r] = d[r]
           /\ r \in DOMAIN w => Stored(d, w)[r] = w[r]
BY DEF Stored

\* e is d with a posting of payload x under key k by p; s is what p had read.
PostedOnto(e, d, s, p, k, x, q) ==
    /\ \A j \in Keys : e[Dedup(j)] = IF j = k THEN [payload |-> x, status |-> "POSTED", entry |-> p]
                                      ELSE d[Dedup(j)]
    /\ \A j \in Keys : e[Queue(j)] = IF j = k /\ q THEN [payload |-> x, status |-> "APPLIED"]
                                      ELSE d[Queue(j)]
    /\ \A f \in Periods : e[Period(f)] = d[Period(f)]
    /\ \A a \in Procs : e[Entry(a)] = IF a = p THEN [key |-> k, payload |-> x, prev |-> s[Tip]]
                                       ELSE d[Entry(a)]
    /\ \A a \in Procs : e[Event(a)] = IF a = p THEN "entry.posted" ELSE d[Event(a)]
    /\ e[Tip] = p
    /\ e[Cache] = s[Cache] \cup {p}
    /\ e[Baseline] = d[Baseline]
    /\ e[Freeze] = d[Freeze]

\* What a post leaves in the rows: its own rows are new, every other row is what it was.
LEMMA PostStored ==
    ASSUME NEW d, NEW s, NEW p \in Procs, NEW k \in Keys, NEW x, NEW q \in BOOLEAN
    PROVE  PostedOnto(Stored(d, PostWrites(p, s, k, x, q)), d, s, p, k, x, q)
<1> DEFINE w == PostWrites(p, s, k, x, q)
<1>0. DOMAIN w = {Dedup(k), Entry(p), Tip, Cache, Event(p)} \cup (IF q THEN {Queue(k)} ELSE {})
  BY DEF PostWrites
<1>1. /\ w[Dedup(k)] = [payload |-> x, status |-> "POSTED", entry |-> p]
      /\ w[Entry(p)] = [key |-> k, payload |-> x, prev |-> s[Tip]]
      /\ w[Tip] = p
      /\ w[Cache] = s[Cache] \cup {p}
      /\ w[Event(p)] = "entry.posted"
      /\ q => w[Queue(k)] = [payload |-> x, status |-> "APPLIED"]
  BY RowNames DEF PostWrites
<1> HIDE DEF w
<1>2. \A j \in Keys : Stored(d, w)[Dedup(j)] = IF j = k THEN [payload |-> x, status |-> "POSTED", entry |-> p]
                                      ELSE d[Dedup(j)]
  BY <1>0, <1>1, RowNames, RowsAre, StoredAt
<1>3. \A j \in Keys : Stored(d, w)[Queue(j)] = IF j = k /\ q THEN [payload |-> x, status |-> "APPLIED"]
                                      ELSE d[Queue(j)]
  BY <1>0, <1>1, RowNames, RowsAre, StoredAt
<1>4. \A f \in Periods : Stored(d, w)[Period(f)] = d[Period(f)]
  BY <1>0, <1>1, RowNames, RowsAre, StoredAt
<1>5. \A a \in Procs : Stored(d, w)[Entry(a)] = IF a = p THEN [key |-> k, payload |-> x, prev |-> s[Tip]]
                                       ELSE d[Entry(a)]
  BY <1>0, <1>1, RowNames, RowsAre, StoredAt
<1>6. \A a \in Procs : Stored(d, w)[Event(a)] = IF a = p THEN "entry.posted" ELSE d[Event(a)]
  BY <1>0, <1>1, RowNames, RowsAre, StoredAt
<1>7. /\ Stored(d, w)[Tip] = p
      /\ Stored(d, w)[Cache] = s[Cache] \cup {p}
      /\ Stored(d, w)[Baseline] = d[Baseline]
      /\ Stored(d, w)[Freeze] = d[Freeze]
  BY <1>0, <1>1, RowNames, RowsAre, StoredAt
<1> QED
  BY <1>2, <1>3, <1>4, <1>5, <1>6, <1>7, Zenon DEF PostedOnto, w

\* What is stored is what may be stored.
LEMMA StoredValues ==
    ASSUME NEW d \in [Rows -> Values], NEW w, \A r \in DOMAIN w : w[r] \in Values
    PROVE  Stored(d, w) \in [Rows -> Values]
BY DEF Stored

-----------------------------------------------------------------------------
(***************************************************************************)
(* What keeps a database state sound: a posting, a queued claim, and what  *)
(* touches neither journal nor claims.                                     *)
(***************************************************************************)

\* The claim a posting of payload x under key k finds: none, or its queued one.
Claimable(d, k, x, q) ==
    IF q THEN d[Dedup(k)] # None /\ d[Dedup(k)].status = "QUEUED" /\ d[Dedup(k)].payload = x
    ELSE d[Dedup(k)] = None

\* p has read s, d is what is committed, and p posts its first entry.
MayPost(d, s, p, k, x, q) ==
    /\ s[Tip] = d[Tip] /\ s[Cache] = d[Cache]
    /\ d[Entry(p)] = None
    /\ Claimable(d, k, x, q)

\* The members of the row types are not None.
LEMMA RowsNotNone ==
    /\ \A x \in Payloads, s \in {"QUEUED", "POSTED"}, e \in Procs \cup {None} :
         [payload |-> x, status |-> s, entry |-> e] # None
    /\ \A x \in Payloads, s \in {"QUEUED", "APPLIED"} : [payload |-> x, status |-> s] # None
    /\ \A k \in Keys, x \in Payloads, e \in Procs \cup {None} :
         [key |-> k, payload |-> x, prev |-> e] # None
    /\ "entry.posted" # None /\ "period.closed" # None
BY LedgerAssumption DEF DedupRows, QueueRows, JournalEntries, Announcements

\* A posting appends its entry to the journal.
LEMMA PostEntries ==
    ASSUME NEW d, NEW e, NEW s, NEW p \in Procs, NEW k \in Keys, NEW x \in Payloads,
           NEW q \in BOOLEAN, PostedOnto(e, d, s, p, k, x, q), s[Tip] \in Procs \cup {None}
    PROVE  Entries(e) = Entries(d) \cup {p}
BY RowsNotNone DEF Entries, PostedOnto

\* A post keeps the rows in their types.
LEMMA PostTyped ==
    ASSUME NEW d, NEW e \in [Rows -> Values], NEW s, NEW p \in Procs, NEW k \in Keys,
           NEW x \in Payloads, NEW q \in BOOLEAN,
           RowsTyped(d), PostedOnto(e, d, s, p, k, x, q), MayPost(d, s, p, k, x, q)
    PROVE  RowsTyped(e)
<1> USE DEF MayPost
<1>1. e = [r \in Rows |-> e[r]]
  OBVIOUS
<1>2. [payload |-> x, status |-> "POSTED", entry |-> p] \in DedupRows
  BY DEF DedupRows
<1>3. [payload |-> x, status |-> "APPLIED"] \in QueueRows
  BY DEF QueueRows
<1>4. [key |-> k, payload |-> x, prev |-> s[Tip]] \in JournalEntries
  BY DEF JournalEntries, RowsTyped
<1>5. "entry.posted" \in Announcements
  BY DEF Announcements
<1> QED
  BY <1>1, <1>2, <1>3, <1>4, <1>5 DEF RowsTyped, PostedOnto

\* The chain grows at its tip.
LEMMA PostChain ==
    ASSUME NEW d, NEW e, NEW s, NEW p \in Procs, NEW k \in Keys, NEW x \in Payloads,
           NEW q \in BOOLEAN,
           RowsTyped(d), LinearChain(d), ChainEnds(d), PostedOnto(e, d, s, p, k, x, q),
           MayPost(d, s, p, k, x, q)
    PROVE  LinearChain(e) /\ ChainEnds(e)
<1> USE DEF MayPost
<1>0. d[Tip] \in Procs \cup {None} /\ p # None
  BY LedgerAssumption DEF RowsTyped
<1>1. Entries(e) = Entries(d) \cup {p}
  BY PostEntries, <1>0
<1>2. p \notin Entries(d)
  BY DEF Entries
<1>3. e[Tip] = p /\ e[Entry(p)].prev = d[Tip]
  BY DEF PostedOnto
<1>4. \A a \in Entries(d) : e[Entry(a)].prev = d[Entry(a)].prev
  BY <1>2 DEF PostedOnto, Entries
<1>5. \A a, b \in Entries(d) : d[Entry(a)].prev = d[Entry(b)].prev => a = b
  BY DEF LinearChain
<1>6. \A w \in SUBSET Entries(d) :
         (/\ d[Tip] \in w \cup {None}
          /\ \A y \in w : d[Entry(y)].prev \in w \cup {None}
          /\ (w = {} => d[Tip] = None))
         => w = Entries(d)
  BY DEF LinearChain
<1>7. /\ d[Tip] \in Entries(d) \cup {None}
      /\ d[Tip] = None => Entries(d) = {}
      /\ \A a \in Entries(d) : d[Entry(a)].prev \in Entries(d) \cup {None} /\ d[Entry(a)].prev # d[Tip]
  BY DEF ChainEnds
<1>8. ChainEnds(e)
  <2>1. e[Tip] \in Entries(e) \cup {None} /\ e[Tip] # None
    BY <1>0, <1>1, <1>3
  <2>2. ASSUME NEW a \in Entries(e)
        PROVE  e[Entry(a)].prev \in Entries(e) \cup {None} /\ e[Entry(a)].prev # e[Tip]
    <3>1. CASE a = p
      BY <3>1, <1>0, <1>1, <1>2, <1>3, <1>7
    <3>2. CASE a \in Entries(d)
      BY <3>2, <1>0, <1>1, <1>2, <1>3, <1>4, <1>7
    <3> QED
      BY <3>1, <3>2, <1>1
  <2> QED
    BY <2>1, <2>2 DEF ChainEnds
<1>9. ASSUME NEW a \in Entries(e), NEW b \in Entries(e), e[Entry(a)].prev = e[Entry(b)].prev
      PROVE  a = b
  BY <1>9, <1>1, <1>3, <1>4, <1>5, <1>7
<1>10. ASSUME NEW w \in SUBSET Entries(e),
              e[Tip] \in w \cup {None},
              \A y \in w : e[Entry(y)].prev \in w \cup {None}
       PROVE  w = Entries(e)
  <2> DEFINE v == w \ {p}
  <2>1. p \in w
    BY <1>10, <1>3, <1>0
  <2>2. v \in SUBSET Entries(d)
    BY <1>1
  <2>3. d[Tip] \in v \cup {None}
    BY <1>10, <2>1, <1>3, <1>2, <1>7, <1>0
  <2>4. \A y \in v : d[Entry(y)].prev \in v \cup {None}
    BY <1>10, <2>2, <1>4, <1>7, <1>2, <1>0
  <2>5. v = {} => d[Tip] = None
    BY <2>3
  <2> HIDE DEF v
  <2>6. v = Entries(d)
    BY <2>2, <2>3, <2>4, <2>5, <1>6
  <2> QED
    BY <2>1, <2>6, <1>1 DEF v
<1> QED
  BY <1>8, <1>9, <1>10 DEF LinearChain

\* The key is posted now, and it was not before.
LEMMA PostKeys ==
    ASSUME NEW d, NEW e, NEW s, NEW p \in Procs, NEW k \in Keys, NEW x \in Payloads,
           NEW q \in BOOLEAN,
           RowsTyped(d), EachKeyOnce(d), ClaimsAgree(d), PostedOnto(e, d, s, p, k, x, q),
           MayPost(d, s, p, k, x, q)
    PROVE  EachKeyOnce(e) /\ ClaimsAgree(e)
<1> USE DEF MayPost
<1>0. d[Tip] \in Procs \cup {None}
  BY DEF RowsTyped
<1>1. Entries(e) = Entries(d) \cup {p}
  BY PostEntries, <1>0
<1>2. p \notin Entries(d)
  BY DEF Entries
<1>3. /\ e[Entry(p)] # None /\ e[Entry(p)].key = k /\ e[Entry(p)].payload = x
      /\ e[Dedup(k)] # None /\ e[Dedup(k)].status = "POSTED"
      /\ e[Dedup(k)].entry = p /\ e[Dedup(k)].payload = x
  BY RowsNotNone, <1>0 DEF PostedOnto
<1>4. \A a \in Procs \ {p} : e[Entry(a)] = d[Entry(a)] /\ e[Event(a)] = d[Event(a)]
  BY DEF PostedOnto
<1>5. \A j \in Keys \ {k} : e[Dedup(j)] = d[Dedup(j)] /\ e[Queue(j)] = d[Queue(j)]
  BY DEF PostedOnto
<1>6. \A a \in Entries(d) : d[Entry(a)].key # k
  BY DEF EachKeyOnce, Claimable, Entries
<1>6a. \A a \in Entries(d) : a \in Procs \ {p}
  BY <1>2 DEF Entries
<1>7. ASSUME NEW a \in Entries(e), NEW b \in Entries(e), e[Entry(a)].key = e[Entry(b)].key
      PROVE  a = b
  <2>1. \A c, f \in Entries(d) : d[Entry(c)].key = d[Entry(f)].key => c = f
    BY DEF EachKeyOnce
  <2> QED
    BY <1>7, <2>1, <1>1, <1>3, <1>4, <1>6, <1>6a
<1>8. ASSUME NEW j \in Keys, NEW a \in Procs
      PROVE  (e[Entry(a)] # None /\ e[Entry(a)].key = j)
               <=> (e[Dedup(j)] # None /\ e[Dedup(j)].status = "POSTED" /\ e[Dedup(j)].entry = a)
  <2>1. (d[Entry(a)] # None /\ d[Entry(a)].key = j)
          <=> (d[Dedup(j)] # None /\ d[Dedup(j)].status = "POSTED" /\ d[Dedup(j)].entry = a)
    BY DEF EachKeyOnce
  <2>2. CASE j = k /\ a = p
    BY <2>2, <1>3
  <2>3. CASE j = k /\ a # p
    BY <2>3, <1>3, <1>4, <1>6 DEF Entries
  <2>4. CASE j # k /\ a = p
    BY <2>1, <2>4, <1>3, <1>5
  <2>5. CASE j # k /\ a # p
    BY <2>1, <2>5, <1>4, <1>5
  <2> QED
    BY <2>2, <2>3, <2>4, <2>5
<1>9. ASSUME NEW a \in Procs
      PROVE  e[Event(a)] = "entry.posted" <=> a \in Entries(e)
  <2>1. d[Event(a)] = "entry.posted" <=> a \in Entries(d)
    BY DEF EachKeyOnce
  <2>2. e[Event(p)] = "entry.posted"
    BY DEF PostedOnto
  <2> QED
    BY <2>1, <2>2, <1>1, <1>4
<1>10. ASSUME NEW j \in Keys, e[Queue(j)] # None, e[Queue(j)].status = "APPLIED"
       PROVE  e[Dedup(j)].status = "POSTED"
  <2>1. (d[Queue(j)] # None /\ d[Queue(j)].status = "APPLIED") => d[Dedup(j)].status = "POSTED"
    BY DEF EachKeyOnce
  <2> QED
    BY <1>10, <2>1, <1>3, <1>5
<1>11. EachKeyOnce(e)
  BY <1>7, <1>8, <1>9, <1>10 DEF EachKeyOnce
<1>12. ASSUME NEW j \in Keys, e[Queue(j)] # None
       PROVE  e[Dedup(j)] # None /\ e[Dedup(j)].payload = e[Queue(j)].payload
  <2>1. d[Queue(j)] # None => d[Dedup(j)] # None /\ d[Dedup(j)].payload = d[Queue(j)].payload
    BY DEF ClaimsAgree
  <2>2. CASE j = k /\ q
    BY <2>2, <1>3 DEF PostedOnto
  <2>3. CASE j = k /\ ~q
    BY <2>1, <2>3, <1>12 DEF PostedOnto, Claimable
  <2>4. CASE j # k
    BY <2>1, <2>4, <1>12, <1>5
  <2> QED
    BY <2>2, <2>3, <2>4
<1>13. ASSUME NEW j \in Keys, e[Dedup(j)] # None, e[Dedup(j)].status = "POSTED"
       PROVE  /\ e[Dedup(j)].entry \in Entries(e)
              /\ e[Entry(e[Dedup(j)].entry)].payload = e[Dedup(j)].payload
  <2>1. d[Dedup(j)] # None /\ d[Dedup(j)].status = "POSTED" =>
          /\ d[Dedup(j)].entry \in Entries(d)
          /\ d[Entry(d[Dedup(j)].entry)].payload = d[Dedup(j)].payload
    BY DEF ClaimsAgree
  <2>2. CASE j = k
    BY <2>2, <1>3, <1>1
  <2>3. CASE j # k
    BY <2>1, <2>3, <1>13, <1>1, <1>4, <1>5, <1>6a
  <2> QED
    BY <2>2, <2>3
<1>14. ClaimsAgree(e)
  BY <1>12, <1>13 DEF ClaimsAgree
<1> QED
  BY <1>11, <1>14

\* A posting keeps the books sound.
LEMMA PostSound ==
    ASSUME NEW d, NEW e \in [Rows -> Values], NEW s, NEW p \in Procs, NEW k \in Keys,
           NEW x \in Payloads, NEW q \in BOOLEAN,
           Sound(d), PostedOnto(e, d, s, p, k, x, q), MayPost(d, s, p, k, x, q)
    PROVE  Sound(e)
<1>1. RowsTyped(d) /\ LinearChain(d) /\ ChainEnds(d) /\ EachKeyOnce(d) /\ ClaimsAgree(d)
      /\ CacheIsJournal(d)
  BY DEF Sound
<1>2. RowsTyped(e)
  BY <1>1, PostTyped
<1>3. LinearChain(e) /\ ChainEnds(e)
  BY <1>1, PostChain
<1>4. EachKeyOnce(e) /\ ClaimsAgree(e)
  BY <1>1, PostKeys
<1>5. s[Tip] \in Procs \cup {None}
  BY <1>1 DEF RowsTyped, MayPost
<1>6. CacheIsJournal(e)
  BY <1>1, <1>5, PostEntries DEF CacheIsJournal, PostedOnto, MayPost
<1> QED
  BY <1>2, <1>3, <1>4, <1>6 DEF Sound

\* e and d have the same claims, queue, journal, chain and balances; what else e
\* holds has its type.
SameBooks(e, d) ==
    /\ \A j \in Keys : e[Dedup(j)] = d[Dedup(j)] /\ e[Queue(j)] = d[Queue(j)]
    /\ \A a \in Procs : /\ e[Entry(a)] = d[Entry(a)]
                        /\ e[Event(a)] \in {None} \cup Announcements
                        /\ e[Event(a)] = "entry.posted" <=> d[Event(a)] = "entry.posted"
    /\ \A f \in Periods : e[Period(f)] \in {"ABSENT", "OPEN", "CLOSED"}
    /\ e[Tip] = d[Tip] /\ e[Cache] = d[Cache]
    /\ e[Baseline] \subseteq Procs
    /\ e[Freeze] \in BOOLEAN

\* Where no journal row changes the set of entries is the same.
LEMMA SameEntries ==
    ASSUME NEW d, NEW e, \A a \in Procs : e[Entry(a)] = d[Entry(a)]
    PROVE  Entries(e) = Entries(d)
BY DEF Entries

\* Without a new entry the chain and the balances stay as they are.
LEMMA SameChain ==
    ASSUME NEW d, NEW e, \A a \in Procs : e[Entry(a)] = d[Entry(a)],
           e[Tip] = d[Tip], e[Cache] = d[Cache],
           LinearChain(d), ChainEnds(d), CacheIsJournal(d)
    PROVE  LinearChain(e) /\ ChainEnds(e) /\ CacheIsJournal(e)
<1>1. Entries(e) = Entries(d)
  BY SameEntries
<1>2. \A a \in Entries(d) : e[Entry(a)] = d[Entry(a)]
  BY DEF Entries
<1>3. LinearChain(e)
  <2>1. \A a, b \in Entries(e) : e[Entry(a)].prev = e[Entry(b)].prev => a = b
    BY <1>1, <1>2 DEF LinearChain
  <2>2. ASSUME NEW w \in SUBSET Entries(e), e[Tip] \in w \cup {None},
               \A y \in w : e[Entry(y)].prev \in w \cup {None},
               w = {} => e[Tip] = None
        PROVE  w = Entries(e)
    <3>1. \A y \in w : d[Entry(y)].prev \in w \cup {None}
      BY <2>2, <1>1, <1>2
    <3> QED
      BY <3>1, <2>2, <1>1, <1>2 DEF LinearChain
  <2> QED
    BY <2>1, <2>2 DEF LinearChain
<1>4. ChainEnds(e)
  BY <1>1, <1>2 DEF ChainEnds
<1>5. CacheIsJournal(e)
  BY <1>1 DEF CacheIsJournal
<1> QED
  BY <1>3, <1>4, <1>5

\* What touches neither journal nor claims keeps the books sound.
LEMMA SameSound ==
    ASSUME NEW d, NEW e \in [Rows -> Values], Sound(d), SameBooks(e, d)
    PROVE  Sound(e)
<1>1. RowsTyped(d) /\ LinearChain(d) /\ ChainEnds(d) /\ EachKeyOnce(d) /\ ClaimsAgree(d)
      /\ CacheIsJournal(d)
  BY DEF Sound
<1>2. Entries(e) = Entries(d)
  BY SameEntries DEF SameBooks
<1>3. \A a \in Entries(d) : a \in Procs
  BY DEF Entries
<1>4. RowsTyped(e)
  <2>1. e = [r \in Rows |-> e[r]]
    OBVIOUS
  <2> QED
    BY <2>1, <1>1 DEF RowsTyped, SameBooks
<1>5. /\ \A a \in Entries(d) : e[Entry(a)] = d[Entry(a)]
      /\ e[Tip] = d[Tip] /\ e[Cache] = d[Cache]
  BY <1>3 DEF SameBooks
<1>6. LinearChain(e) /\ ChainEnds(e) /\ CacheIsJournal(e)
  BY <1>1, SameChain DEF SameBooks
<1>8. EachKeyOnce(e)
  <2>1. \A a, b \in Entries(e) : e[Entry(a)].key = e[Entry(b)].key => a = b
    BY <1>1, <1>2, <1>5 DEF EachKeyOnce
  <2>2. \A k \in Keys : \A a \in Procs :
         (e[Entry(a)] # None /\ e[Entry(a)].key = k)
           <=> (e[Dedup(k)] # None /\ e[Dedup(k)].status = "POSTED" /\ e[Dedup(k)].entry = a)
    BY <1>1 DEF EachKeyOnce, SameBooks
  <2>3. \A a \in Procs : e[Event(a)] = "entry.posted" <=> a \in Entries(e)
    BY <1>1, <1>2 DEF EachKeyOnce, SameBooks
  <2>4. \A k \in Keys : (e[Queue(k)] # None /\ e[Queue(k)].status = "APPLIED")
                         => e[Dedup(k)].status = "POSTED"
    BY <1>1 DEF EachKeyOnce, SameBooks
  <2> QED
    BY <2>1, <2>2, <2>3, <2>4 DEF EachKeyOnce
<1>9. ClaimsAgree(e)
  BY <1>1, <1>2, <1>5 DEF ClaimsAgree, SameBooks
<1> QED
  BY <1>4, <1>6, <1>8, <1>9 DEF Sound

\* e is d with a claim of key k for payload x and its queue row.
QueuedOnto(e, d, k, x) ==
    /\ \A j \in Keys : e[Dedup(j)] = IF j = k THEN [payload |-> x, status |-> "QUEUED", entry |-> None]
                                     ELSE d[Dedup(j)]
    /\ \A j \in Keys : e[Queue(j)] = IF j = k THEN [payload |-> x, status |-> "QUEUED"]
                                     ELSE d[Queue(j)]
    /\ \A f \in Periods : e[Period(f)] = d[Period(f)]
    /\ \A a \in Procs : e[Entry(a)] = d[Entry(a)] /\ e[Event(a)] = d[Event(a)]
    /\ e[Tip] = d[Tip] /\ e[Cache] = d[Cache]
    /\ e[Baseline] = d[Baseline] /\ e[Freeze] = d[Freeze]

\* A queued claim of a key that nobody has claimed keeps the books sound.
LEMMA QueueSound ==
    ASSUME NEW d, NEW e \in [Rows -> Values], NEW k \in Keys, NEW x \in Payloads,
           Sound(d), QueuedOnto(e, d, k, x), d[Dedup(k)] = None
    PROVE  Sound(e)
<1>1. RowsTyped(d) /\ LinearChain(d) /\ ChainEnds(d) /\ EachKeyOnce(d) /\ ClaimsAgree(d)
      /\ CacheIsJournal(d)
  BY DEF Sound
<1>2. Entries(e) = Entries(d)
  BY SameEntries DEF QueuedOnto
<1>3. \A a \in Entries(d) : a \in Procs
  BY DEF Entries
<1>4. RowsTyped(e)
  <2>1. e = [r \in Rows |-> e[r]]
    OBVIOUS
  <2>2. /\ [payload |-> x, status |-> "QUEUED", entry |-> None] \in DedupRows
        /\ [payload |-> x, status |-> "QUEUED"] \in QueueRows
    BY DEF DedupRows, QueueRows
  <2> QED
    BY <2>1, <2>2, <1>1 DEF RowsTyped, QueuedOnto
<1>5. /\ \A a \in Entries(d) : e[Entry(a)] = d[Entry(a)]
      /\ e[Tip] = d[Tip] /\ e[Cache] = d[Cache]
  BY <1>3 DEF QueuedOnto
<1>6. LinearChain(e) /\ ChainEnds(e) /\ CacheIsJournal(e)
  BY <1>1, SameChain DEF QueuedOnto
<1>8. /\ e[Dedup(k)] # None /\ e[Dedup(k)].status = "QUEUED" /\ e[Dedup(k)].payload = x
      /\ e[Queue(k)] # None /\ e[Queue(k)].status = "QUEUED" /\ e[Queue(k)].payload = x
  BY RowsNotNone DEF QueuedOnto
<1>9. \A j \in Keys \ {k} : e[Dedup(j)] = d[Dedup(j)] /\ e[Queue(j)] = d[Queue(j)]
  BY DEF QueuedOnto
<1>10. EachKeyOnce(e)
  <2>1. \A a, b \in Entries(e) : e[Entry(a)].key = e[Entry(b)].key => a = b
    BY <1>1, <1>2, <1>5 DEF EachKeyOnce
  <2>2. ASSUME NEW j \in Keys, NEW a \in Procs
        PROVE  (e[Entry(a)] # None /\ e[Entry(a)].key = j)
           <=> (e[Dedup(j)] # None /\ e[Dedup(j)].status = "POSTED" /\ e[Dedup(j)].entry = a)
    <3>1. (d[Entry(a)] # None /\ d[Entry(a)].key = j)
           <=> (d[Dedup(j)] # None /\ d[Dedup(j)].status = "POSTED" /\ d[Dedup(j)].entry = a)
      BY <1>1 DEF EachKeyOnce
    <3>2. e[Entry(a)] = d[Entry(a)]
      BY DEF QueuedOnto
    <3> QED
      BY <3>1, <3>2, <1>8, <1>9
  <2>3. \A a \in Procs : e[Event(a)] = "entry.posted" <=> a \in Entries(e)
    BY <1>1, <1>2 DEF EachKeyOnce, QueuedOnto
  <2>4. \A j \in Keys : (e[Queue(j)] # None /\ e[Queue(j)].status = "APPLIED")
                         => e[Dedup(j)].status = "POSTED"
    BY <1>1, <1>8, <1>9 DEF EachKeyOnce
  <2> QED
    BY <2>1, <2>2, <2>3, <2>4 DEF EachKeyOnce
<1>11. ClaimsAgree(e)
  BY <1>1, <1>2, <1>5, <1>8, <1>9 DEF ClaimsAgree
<1> QED
  BY <1>4, <1>6, <1>10, <1>11 DEF Sound

-----------------------------------------------------------------------------
(***************************************************************************)
(* Committed transactions.                                                 *)
(***************************************************************************)

\* What a plan may ask for, by kind.
LEMMA OpIs ==
    ASSUME plan \in Plans, NEW p \in Procs
    PROVE  /\ Op[p].kind \in {"post", "intake", "apply"} =>
                Op[p].key \in Keys /\ Op[p].payload \in Payloads
           /\ Op[p].kind \in {"close", "reopen", "openPeriod"} => Op[p].period \in Periods
<1>1. Op \in [Procs -> OpType]
  BY LedgerAssumption DEF Op
<1>2. Op[p] \in OpType
  BY <1>1
<1> QED
  BY <1>2 DEF OpType

\* One more transaction in the log: the earlier ones keep their places.
LEMMA Appended ==
    ASSUME NEW S, NEW l \in Seq(S), NEW t \in S
    PROVE  /\ Append(l, t) \in Seq(S)
           /\ Len(l) \in Nat
           /\ Len(Append(l, t)) = Len(l) + 1
           /\ \A n \in 1 .. Len(l) : Append(l, t)[n] = l[n]
           /\ Append(l, t)[Len(l) + 1] = t
OBVIOUS

\* t writes the rows w onto d after the transactions l: its entries are new and
\* it has read their periods; if it closes a period it has read every entry.
Follows(t, w, d, l) ==
    /\ t \in Transactions
    /\ t.pos = Len(l) + 1 /\ t.at <= Len(l) /\ t.writes = DOMAIN w
    /\ \A e \in Procs : Entry(e) \in DOMAIN w =>
         /\ d[Entry(e)] = None /\ w[Entry(e)] # None
         /\ t.serializable
         /\ Period(PeriodOf[w[Entry(e)].payload]) \in t.reads
    /\ \A f \in Periods : Period(f) \in DOMAIN w /\ w[Period(f)] = "CLOSED" =>
         t.serializable /\ EntryRows \subseteq t.reads

\* A snapshot stays one when transactions commit after it.
LEMMA SnapshotKept ==
    ASSUME NEW l \in Seq(Transactions), NEW d, NEW w, NEW t, NEW s, NEW at,
           SnapshotOf(s, at, d, l), Follows(t, w, d, l)
    PROVE  SnapshotOf(s, at, Stored(d, w), Append(l, t))
<1> DEFINE m == Append(l, t)
           e == Stored(d, w)
<1>0. t \in Transactions /\ t.writes = DOMAIN w
  BY DEF Follows
<1>1. /\ Len(l) \in Nat /\ Len(m) = Len(l) + 1
      /\ \A n \in 1 .. Len(l) : m[n] = l[n]
      /\ m[Len(l) + 1] = t
  BY <1>0, Appended
<1>2. at \in Nat /\ at <= Len(l) /\ Sound(s)
  BY DEF SnapshotOf
<1> HIDE DEF m, e
<1>3. ASSUME NEW r \in Rows, \A n \in at + 1 .. Len(m) : r \notin m[n].writes
      PROVE  s[r] = e[r]
  <2>1. Len(l) + 1 \in at + 1 .. Len(m)
    BY <1>1, <1>2
  <2>2. r \notin DOMAIN w
    BY <2>1, <1>3, <1>1, <1>0
  <2>3. \A n \in at + 1 .. Len(l) : r \notin l[n].writes
    <3>1. \A n \in at + 1 .. Len(l) : n \in at + 1 .. Len(m) /\ m[n] = l[n]
      BY <1>1, <1>2
    <3> QED
      BY <3>1, <1>3
  <2>4. s[r] = d[r]
    BY <2>3 DEF SnapshotOf
  <2> QED
    BY <2>2, <2>4, StoredAt DEF e
<1>4. ASSUME NEW a \in Procs, s[Entry(a)] # None
      PROVE  e[Entry(a)] = s[Entry(a)]
  <2>1. d[Entry(a)] = s[Entry(a)]
    BY <1>4 DEF SnapshotOf
  <2>2. Entry(a) \notin DOMAIN w
    BY <2>1, <1>4 DEF Follows
  <2> QED
    BY <2>1, <2>2, StoredAt, RowsAre DEF e
<1>5. at <= Len(m)
  BY <1>1, <1>2
<1> QED
  BY <1>2, <1>3, <1>4, <1>5 DEF SnapshotOf, m, e

\* The log stays sound.
LEMMA LogGrows ==
    ASSUME NEW l \in Seq(Transactions), NEW d, NEW w, NEW t,
           LogSound(l, d), Follows(t, w, d, l)
    PROVE  LogSound(Append(l, t), Stored(d, w))
<1> DEFINE m == Append(l, t)
           e == Stored(d, w)
<1>0. /\ t \in Transactions /\ t.writes = DOMAIN w /\ t.pos = Len(l) + 1 /\ t.at <= Len(l)
  BY DEF Follows
<1>1. /\ Len(l) \in Nat /\ Len(m) = Len(l) + 1
      /\ \A n \in 1 .. Len(l) : m[n] = l[n]
      /\ m[Len(l) + 1] = t
  BY <1>0, Appended
<1>1a. \A n \in 1 .. Len(m) : n \in 1 .. Len(l) \/ n = Len(l) + 1
  BY <1>1
<1>1b. t.at \in Nat
  BY <1>0 DEF Transactions
<1>1c. Len(l) + 1 \in 1 .. Len(m) /\ \A n \in 1 .. Len(l) : n \in 1 .. Len(m)
  BY <1>1
<1> HIDE DEF m, e
<1>2. ASSUME NEW n \in 1 .. Len(m)
      PROVE  m[n].pos = n /\ m[n].at < n
  <2>1. CASE n \in 1 .. Len(l)
    BY <2>1, <1>1 DEF LogSound
  <2>2. CASE n = Len(l) + 1
    <3>1. t.at < Len(l) + 1
      BY <1>0, <1>1, <1>1b
    <3> QED
      BY <3>1, <2>2, <1>0, <1>1
  <2> QED
    BY <2>1, <2>2, <1>1a
<1>3. ASSUME NEW n \in 1 .. Len(m), NEW a \in Procs, Entry(a) \in m[n].writes
      PROVE  /\ m[n].serializable
             /\ e[Entry(a)] # None
             /\ Period(PeriodOf[e[Entry(a)].payload]) \in m[n].reads
  <2>1. CASE n \in 1 .. Len(l)
    <3>1. /\ l[n].serializable /\ d[Entry(a)] # None
          /\ Period(PeriodOf[d[Entry(a)].payload]) \in l[n].reads
      BY <2>1, <1>3, <1>1 DEF LogSound
    <3>2. Entry(a) \notin DOMAIN w
      BY <3>1 DEF Follows
    <3>3. e[Entry(a)] = d[Entry(a)]
      BY <3>2, StoredAt, RowsAre DEF e
    <3> QED
      BY <3>1, <3>3, <2>1, <1>1
  <2>2. CASE n = Len(l) + 1
    <3>1. Entry(a) \in DOMAIN w
      BY <2>2, <1>3, <1>1, <1>0
    <3>2. e[Entry(a)] = w[Entry(a)]
      BY <3>1, StoredAt, RowsAre DEF e
    <3> QED
      BY <3>1, <3>2, <2>2, <1>1 DEF Follows
  <2> QED
    BY <2>1, <2>2, <1>1a
<1>4. ASSUME NEW f \in Periods, e[Period(f)] = "CLOSED"
      PROVE  \E n \in 1 .. Len(m) :
                /\ m[n].serializable
                /\ EntryRows \subseteq m[n].reads
                /\ Period(f) \in m[n].writes
                /\ \A i \in n + 1 .. Len(m) : Period(f) \notin m[i].writes
  <2>1. CASE Period(f) \in DOMAIN w
    <3>1. w[Period(f)] = "CLOSED"
      BY <2>1, <1>4, StoredAt, RowsAre DEF e
    <3>2. t.serializable /\ EntryRows \subseteq t.reads
      BY <2>1, <3>1 DEF Follows
    <3>3. Len(l) + 1 + 1 .. Len(m) = {}
      BY <1>1
    <3> QED
      BY <2>1, <3>2, <3>3, <1>0, <1>1, <1>1c
  <2>2. CASE Period(f) \notin DOMAIN w
    <3>1. d[Period(f)] = "CLOSED"
      BY <2>2, <1>4, StoredAt, RowsAre DEF e
    <3>2. PICK n \in 1 .. Len(l) :
                /\ l[n].serializable
                /\ EntryRows \subseteq l[n].reads
                /\ Period(f) \in l[n].writes
                /\ \A i \in n + 1 .. Len(l) : Period(f) \notin l[i].writes
      BY <3>1 DEF LogSound
    <3>3. ASSUME NEW i \in n + 1 .. Len(m)
          PROVE  Period(f) \notin m[i].writes
      <4>1. CASE i = Len(l) + 1
        BY <4>1, <2>2, <1>0, <1>1
      <4>2. CASE i # Len(l) + 1
        <5>1. i \in n + 1 .. Len(l) /\ i \in 1 .. Len(l)
          BY <4>2, <1>1, <3>2
        <5> QED
          BY <5>1, <3>2, <1>1
      <4> QED
        BY <4>1, <4>2
    <3>4. m[n] = l[n] /\ n \in 1 .. Len(m)
      BY <1>1, <1>1c
    <3> QED
      BY <3>2, <3>3, <3>4
  <2> QED
    BY <2>1, <2>2
<1> QED
  BY <1>2, <1>3, <1>4 DEF LogSound, m, e

\* Two committed transactions never have to precede each other.
LEMMA NoTwoCycle ==
    ASSUME NEW t, NEW n \in 1 .. Len(log), log[n].serializable, NoCycle(t),
           Before(t, log[n])
    PROVE  ~Before(log[n], t)
<1>1. log[n] \in Committed
  BY DEF Committed
<1> QED
  BY <1>1 DEF NoCycle

\* No posting commits into a period that was closed after its snapshot.
LEMMA NoPostIntoClosed ==
    ASSUME log \in Seq(Transactions), LogSound(log, db),
           NEW s, NEW at, NEW t \in Transactions, NEW f \in Periods, NEW p \in Procs,
           SnapshotOf(s, at, db, log), NoCycle(t), t.at = at, t.pos = Len(log) + 1,
           Period(f) \in t.reads, Entry(p) \in t.writes, s[Period(f)] # "CLOSED"
    PROVE  db[Period(f)] # "CLOSED"
<1> SUFFICES ASSUME db[Period(f)] = "CLOSED"
             PROVE  FALSE
  OBVIOUS
<1>1. PICK n \in 1 .. Len(log) :
         /\ log[n].serializable
         /\ EntryRows \subseteq log[n].reads
         /\ Period(f) \in log[n].writes
         /\ \A m \in n + 1 .. Len(log) : Period(f) \notin log[m].writes
  BY DEF LogSound
<1>2. log[n].pos = n /\ log[n].at < n
  BY DEF LogSound
<1>3. Len(log) \in Nat /\ at \in Nat /\ log[n] \in Transactions
  BY DEF SnapshotOf
<1>4. n > at
  <2> SUFFICES ASSUME n <= at
               PROVE  FALSE
    BY <1>3
  <2>1. \A m \in at + 1 .. Len(log) : m \in n + 1 .. Len(log)
    BY <1>3
  <2>2. \A m \in at + 1 .. Len(log) : Period(f) \notin log[m].writes
    BY <2>1, <1>1
  <2>3. s[Period(f)] = db[Period(f)]
    BY <2>2, RowsAre DEF SnapshotOf
  <2> QED
    BY <2>3
<1>5. Before(t, log[n])
  BY <1>1, <1>2, <1>4 DEF Before
<1>6. log[n].at < Len(log) + 1
  <2>1. log[n].at \in Nat
    BY <1>3 DEF Transactions
  <2> QED
    BY <2>1, <1>2, <1>3
<1>7. Entry(p) \in log[n].reads
  BY <1>1 DEF EntryRows
<1>8. Before(log[n], t)
  BY <1>6, <1>7 DEF Before
<1> QED
  BY <1>1, <1>5, <1>8, NoTwoCycle

\* A close commits only if it has seen every entry of its period.
LEMMA CloseSeesAll ==
    ASSUME log \in Seq(Transactions), LogSound(log, db),
           NEW s, NEW at, NEW t \in Transactions, NEW f \in Periods,
           SnapshotOf(s, at, db, log), NoCycle(t), t.at = at, t.pos = Len(log) + 1,
           EntryRows \subseteq t.reads, Period(f) \in t.writes
    PROVE  EntriesIn(s, {f}) = EntriesIn(db, {f})
<1>0. Len(log) \in Nat /\ at \in Nat
  BY DEF SnapshotOf
<1>1. ASSUME NEW e \in EntriesIn(s, {f})
      PROVE  e \in EntriesIn(db, {f})
  BY DEF EntriesIn, Entries, SnapshotOf
<1>2. ASSUME NEW e \in EntriesIn(db, {f})
      PROVE  e \in EntriesIn(s, {f})
  <2>1. e \in Procs /\ db[Entry(e)] # None /\ PeriodOf[db[Entry(e)].payload] = f
    BY DEF EntriesIn, Entries
  <2>2. CASE s[Entry(e)] # None
    BY <2>1, <2>2 DEF EntriesIn, Entries, SnapshotOf
  <2>3. CASE s[Entry(e)] = None
    <3>1. PICK n \in at + 1 .. Len(log) : Entry(e) \in log[n].writes
      BY <2>1, <2>3, RowsAre DEF SnapshotOf
    <3>2. n \in 1 .. Len(log) /\ n > at
      BY <1>0
    <3>3. /\ log[n].serializable /\ Period(f) \in log[n].reads
          /\ log[n].pos = n /\ log[n].at < n
      BY <3>1, <3>2, <2>1 DEF LogSound
    <3>4. Entry(e) \in t.reads
      BY <2>1 DEF EntryRows
    <3>5. Before(t, log[n])
      BY <3>1, <3>2, <3>3, <3>4 DEF Before
    <3>6. log[n].at < Len(log) + 1
      <4>1. log[n] \in Transactions
        BY <3>2
      <4>2. log[n].at \in Nat
        BY <4>1 DEF Transactions
      <4> QED
        BY <4>2, <3>2, <3>3, <1>0
    <3>7. Before(log[n], t)
      BY <3>3, <3>6 DEF Before
    <3> QED
      BY <3>2, <3>3, <3>5, <3>7, NoTwoCycle
  <2> QED
    BY <2>2, <2>3
<1> QED
  BY <1>1, <1>2

\* The rows a transaction writes are as its snapshot has them.
LEMMA WritesCurrent ==
    ASSUME NEW s, NEW at, NEW writes, SnapshotOf(s, at, db, log), FirstUpdater(at, writes),
           NEW r \in Rows, r \in writes
    PROVE  s[r] = db[r]
BY DEF SnapshotOf, FirstUpdater

-----------------------------------------------------------------------------
(***************************************************************************)
(* What the transaction bodies answer, read and write.                     *)
(***************************************************************************)

\* The answers with which a body commits.
Commits == {"Entry", "AlreadyClosed", "PeriodCloseBlocked", "Closed", "NoOp", "Reopened", "Frozen"}

\* The entry posted before is the answer.
Replays(b, s, k, x) ==
    /\ s[Dedup(k)] # None /\ s[Dedup(k)].status = "POSTED" /\ s[Dedup(k)].payload = x
    /\ b.answer = <<"Entry", s[Dedup(k)].entry>>
    /\ b.reads = {Dedup(k)} /\ b.writes = NoWrites

\* A posting, into a period that the snapshot has open.
Posts(b, p, s, k, x, q) ==
    /\ Claimable(s, k, x, q)
    /\ s[Period(PeriodOf[x])] = "OPEN"
    /\ b.answer = <<"Entry", p>>
    /\ b.reads = {Dedup(k), Freeze, Period(PeriodOf[x]), Tip, Cache}
    /\ b.writes = PostWrites(p, s, k, x, q)

\* A post's body fails, replays an earlier answer or posts.
LEMMA PostBodyIs ==
    ASSUME NEW p \in Procs, NEW s, NEW k \in Keys, NEW x \in Payloads, NEW q \in BOOLEAN,
           Sound(s), q => s[Queue(k)] # None /\ s[Queue(k)].payload = x
    PROVE  LET b == PostBody(p, s, k, x, q) IN
           \/ b.answer[1] \notin Commits /\ b.answer \in Replies
           \/ Replays(b, s, k, x)
           \/ Posts(b, p, s, k, x, q)
<1> DEFINE b == PostBody(p, s, k, x, q)
           gate == ClaimGate(p, s, k, x, q)
<1>1. q => s[Dedup(k)] # None /\ s[Dedup(k)].payload = x
  BY DEF Sound, ClaimsAgree
<1>2. s[Dedup(k)] # None => s[Dedup(k)].status \in {"QUEUED", "POSTED"}
  BY DEF Sound, RowsTyped, DedupRows
<1>3. s[Freeze] \in BOOLEAN
  BY DEF Sound, RowsTyped
<1>4. /\ gate \in {"Infra", "IdempotencyConflict", "Replay", "proceed"}
      /\ gate = "Replay" =>
           s[Dedup(k)] # None /\ s[Dedup(k)].status = "POSTED" /\ s[Dedup(k)].payload = x
      /\ gate = "proceed" => Claimable(s, k, x, q)
  BY <1>1, <1>2 DEF ClaimGate, Claimable
<1>5. b = CASE gate = "Replay" ->
               [answer |-> <<"Entry", s[Dedup(k)].entry>>, reads |-> {Dedup(k)},
                writes |-> NoWrites]
          [] gate \notin {"Replay", "proceed"} -> Failed(<<gate>>, {Dedup(k)})
          [] gate = "proceed" /\ s[Freeze] ->
               Failed(<<"TamperVerificationFailed">>, {Dedup(k)} \cup {Freeze})
          [] gate = "proceed" /\ ~s[Freeze] /\ s[Period(PeriodOf[x])] # "OPEN" ->
               Failed(<<"PeriodClosed">>, {Dedup(k)} \cup {Freeze, Period(PeriodOf[x])})
          [] OTHER ->
               [answer |-> <<"Entry", p>>,
                reads |-> {Dedup(k)} \cup {Freeze, Period(PeriodOf[x])} \cup {Tip, Cache},
                writes |-> PostWrites(p, s, k, x, q)]
  BY DEF PostBody
<1> HIDE DEF gate, b
<1>6. CASE gate = "Replay"
  <2>1. b = [answer |-> <<"Entry", s[Dedup(k)].entry>>, reads |-> {Dedup(k)},
             writes |-> NoWrites]
    BY <1>5, <1>6
  <2> QED
    BY <2>1, <1>4, <1>6 DEF Replays, b
<1>7. CASE gate \in {"Infra", "IdempotencyConflict"}
  <2>1. b = Failed(<<gate>>, {Dedup(k)})
    BY <1>5, <1>7
  <2>2. b.answer = <<gate>> /\ gate \in Words
    BY <2>1, <1>7 DEF Failed, Words
  <2> QED
    BY <2>2, <1>7 DEF Commits, Replies, b
<1>8. CASE gate = "proceed" /\ s[Freeze]
  <2>1. b.answer = <<"TamperVerificationFailed">>
    BY <1>5, <1>8 DEF Failed
  <2> QED
    BY <2>1 DEF Commits, Replies, Words, b
<1>9. CASE gate = "proceed" /\ ~s[Freeze] /\ s[Period(PeriodOf[x])] # "OPEN"
  <2>1. b.answer = <<"PeriodClosed">>
    BY <1>5, <1>9 DEF Failed
  <2> QED
    BY <2>1 DEF Commits, Replies, Words, b
<1>10. CASE gate = "proceed" /\ ~s[Freeze] /\ s[Period(PeriodOf[x])] = "OPEN"
  <2>1. b = [answer |-> <<"Entry", p>>,
             reads |-> {Dedup(k)} \cup {Freeze, Period(PeriodOf[x])} \cup {Tip, Cache},
             writes |-> PostWrites(p, s, k, x, q)]
    BY <1>5, <1>10
  <2> QED
    BY <2>1, <1>4, <1>10 DEF Posts, b
<1> QED
  BY <1>3, <1>4, <1>6, <1>7, <1>8, <1>9, <1>10

\* A body that writes no row but the close's own record.
Quiet(b, rows) ==
    /\ b.answer \in Replies /\ b.answer # <<"Closed">>
    /\ b.reads \subseteq Rows
    /\ DOMAIN b.writes \subseteq rows
    /\ \A r \in DOMAIN b.writes : b.writes[r] \in {"CLOSING"}

Closes(b, p, s, f) ==
    /\ s[Period(f)] = "OPEN"
    /\ s[Cache] = Entries(s)
    /\ b.answer = <<"Closed">>
    /\ b.reads = CloseReads(f)
    /\ b.writes = CloseWrites(p, s, f)

\* A close's body fails, changes nothing but the closing row, or closes.
LEMMA CloseBodyIs ==
    ASSUME NEW p \in Procs, NEW s, NEW f \in Periods, NEW held \in BOOLEAN, Sound(s)
    PROVE  LET b == CloseBody(p, s, f, held) IN
           \/ b.answer[1] \notin Commits /\ b.answer \in Replies
           \/ Quiet(b, {Closing(f)})
           \/ Closes(b, p, s, f)
<1> DEFINE b == CloseBody(p, s, f, held)
<1>0. CloseReads(f) \subseteq Rows /\ Period(f) \in Rows
  BY RowsAre DEF CloseReads, EntryRows
<1>1. s[Period(f)] \in {"ABSENT", "OPEN", "CLOSED"}
  BY DEF Sound, RowsTyped
<1>2. CASE s[Period(f)] = "ABSENT"
  <2>1. b.answer = <<"PeriodNotFound">>
    BY <1>2 DEF CloseBody, Failed
  <2> QED
    BY <2>1 DEF Commits, Replies, Words, b
<1>3. CASE s[Period(f)] = "CLOSED"
  <2>1. b = [answer |-> <<"AlreadyClosed">>, reads |-> {Period(f)}, writes |-> NoWrites]
    BY <1>3 DEF CloseBody
  <2>2. <<"AlreadyClosed">> # <<"Closed">>
    OBVIOUS
  <2> QED
    BY <2>1, <2>2, <1>0 DEF Quiet, NoWrites, Replies, Words, b
<1>4. CASE s[Period(f)] = "OPEN" /\ (held \/ ~TiesOut(s[Cache], Entries(s)))
  <2>1. b = [answer |-> <<"PeriodCloseBlocked">>, reads |-> CloseReads(f),
             writes |-> [r \in {Closing(f)} |-> "CLOSING"]]
    BY <1>4 DEF CloseBody
  <2>2. <<"PeriodCloseBlocked">> # <<"Closed">>
    OBVIOUS
  <2> QED
    BY <2>1, <2>2, <1>0 DEF Quiet, Replies, Words, b
<1>5. CASE s[Period(f)] = "OPEN" /\ ~(held \/ ~TiesOut(s[Cache], Entries(s)))
  <2>1. b = [answer |-> <<"Closed">>, reads |-> CloseReads(f), writes |-> CloseWrites(p, s, f)]
    BY <1>5 DEF CloseBody
  <2> QED
    BY <2>1, <1>5 DEF Closes, TiesOut, b
<1> QED
  BY <1>1, <1>2, <1>3, <1>4, <1>5

Reopens(b, f) ==
    /\ b.answer = <<"Reopened">>
    /\ b.reads = {Period(f), Closing(f)}
    /\ b.writes = [r \in {Period(f), Closing(f)} |->
                     IF r = Period(f) THEN "OPEN" ELSE "REOPENED"]

\* A reopen's body fails, changes nothing but the closing row, or reopens.
LEMMA ReopenBodyIs ==
    ASSUME NEW s, NEW f \in Periods, Sound(s)
    PROVE  LET b == ReopenBody(s, f) IN
           \/ b.answer[1] \notin Commits /\ b.answer \in Replies
           \/ Quiet(b, {Closing(f)})
           \/ Reopens(b, f)
<1> DEFINE b == ReopenBody(s, f)
<1>1. CASE s[Period(f)] = "ABSENT"
  <2>1. b.answer = <<"PeriodNotFound">>
    BY <1>1 DEF ReopenBody, Failed
  <2> QED
    BY <2>1 DEF Commits, Replies, Words, b
<1>2. CASE s[Period(f)] = "OPEN"
  <2>1. b = [answer |-> <<"NoOp">>, reads |-> {Period(f)}, writes |-> NoWrites]
    BY <1>2 DEF ReopenBody
  <2>2. <<"NoOp">> # <<"Closed">>
    OBVIOUS
  <2> QED
    BY <2>1, <2>2, RowsAre DEF Quiet, NoWrites, Replies, Words, b
<1>3. CASE s[Period(f)] \notin {"ABSENT", "OPEN"}
  BY <1>3 DEF ReopenBody, Reopens, b
<1> QED
  BY <1>1, <1>2, <1>3

Freezes(b) ==
    /\ b.answer = <<"Frozen">>
    /\ b.reads = {Freeze}
    /\ DOMAIN b.writes \subseteq {Freeze}
    /\ \A r \in DOMAIN b.writes : b.writes[r] = TRUE

\* A freeze writes the scope's freeze row and nothing else.
LEMMA FreezeBodyIs ==
    ASSUME NEW s
    PROVE  Freezes(FreezeBody(s))
BY DEF FreezeBody, Freezes, NoWrites

-----------------------------------------------------------------------------
(***************************************************************************)
(* The callers' records.                                                   *)
(***************************************************************************)
LEMMA IdleIs ==
    /\ Idle \in Callers
    /\ Idle.pc = "idle" /\ Idle.at = 0 /\ Idle.answer = None /\ Idle.snap = None
BY LedgerAssumption DEF Idle, Callers, Answers

\* The updates of a caller's record.
Told(c, a) == [c EXCEPT !.pc = "done", !.answer = a]
Retried(c, n) == [c EXCEPT !.pc = "again", !.tries = n]
Snapped(c, s, n) == [c EXCEPT !.pc = "txn", !.snap = s, !.at = n]

\* The fields of a caller's record after an update.
LEMMA CallerUpdates ==
    ASSUME NEW c \in Callers
    PROVE  /\ \A a \in Answers :
                /\ Told(c, a) \in Callers /\ Told(c, a).pc = "done"
                /\ Told(c, a).answer = a /\ Told(c, a).at = c.at
           /\ \A n \in 0 .. MaxAttempts - 1 :
                /\ Retried(c, n) \in Callers /\ Retried(c, n).pc = "again"
                /\ Retried(c, n).answer = c.answer /\ Retried(c, n).at = c.at
           /\ \A s \in [Rows -> Values], n \in Nat :
                /\ Snapped(c, s, n) \in Callers /\ Snapped(c, s, n).pc = "txn"
                /\ Snapped(c, s, n).snap = s /\ Snapped(c, s, n).at = n
                /\ Snapped(c, s, n).answer = c.answer
BY DEF Callers, Told, Retried, Snapped

\* A call that ends keeps its answer and nothing else.
LEMMA FinishIs ==
    ASSUME st \in [Procs -> Callers], NEW p \in Procs, NEW a \in Answers, Finish(p, a)
    PROVE  /\ st' \in [Procs -> Callers]
           /\ st'[p].pc = "done" /\ st'[p].answer = a /\ st'[p].at = 0
           /\ \A q \in Procs \ {p} : st'[q] = st[q]
<1> DEFINE c == Told(Idle, a)
<1>1. c \in Callers /\ c.pc = "done" /\ c.answer = a /\ c.at = 0
  BY IdleIs, CallerUpdates
<1>2. st' = [st EXCEPT ![p] = c]
  BY DEF Finish, Told
<1> HIDE DEF c
<1> QED
  BY <1>1, <1>2

\* A fresh attempt takes a snapshot.
Starts(p) == st' = [st EXCEPT ![p].pc = "txn", ![p].snap = db, ![p].at = Len(log)]

\* A transaction that begins takes the committed rows as its snapshot.
LEMMA StartIs ==
    ASSUME st \in [Procs -> Callers], NEW p \in Procs, Starts(p),
           db \in [Rows -> Values], Len(log) \in Nat
    PROVE  /\ st' \in [Procs -> Callers]
           /\ st'[p].pc = "txn" /\ st'[p].snap = db /\ st'[p].at = Len(log)
           /\ st'[p].answer = st[p].answer
           /\ \A q \in Procs \ {p} : st'[q] = st[q]
<1> DEFINE c == Snapped(st[p], db, Len(log))
<1>0. st[p] \in Callers
  OBVIOUS
<1>1. /\ c \in Callers /\ c.pc = "txn" /\ c.snap = db /\ c.at = Len(log)
      /\ c.answer = st[p].answer
  BY <1>0, CallerUpdates
<1>2. st' = [st EXCEPT ![p] = c]
  BY DEF Starts, Snapped
<1> HIDE DEF c
<1> QED
  BY <1>1, <1>2

\* The last refusal is the caller's, an earlier one starts the body again.
LEMMA ConflictIs ==
    ASSUME plan \in Plans, st \in [Procs -> Callers], NEW p \in Procs, Conflict(p)
    PROVE  /\ st' \in [Procs -> Callers]
           /\ st'[p].pc \in {"again", "done"} /\ st'[p].at = 0
           /\ st'[p].answer \in {None, <<"ConcurrentModification">>}
           /\ \A q \in Procs \ {p} : st'[q] = st[q]
<1>1. /\ plan.attempts \in 1 .. MaxAttempts /\ MaxAttempts \in Nat
  BY LedgerAssumption
<1>2. st[p].tries \in Nat
  BY DEF Callers
<1>3. CASE st[p].tries + 1 < plan.attempts
  <2> DEFINE c == Retried(Idle, st[p].tries + 1)
  <2>1. st[p].tries + 1 \in 0 .. MaxAttempts - 1
    BY <1>1, <1>2, <1>3
  <2>2. c \in Callers /\ c.pc = "again" /\ c.answer = None /\ c.at = 0
    BY <2>1, IdleIs, CallerUpdates
  <2>3. st' = [st EXCEPT ![p] = c]
    BY <1>3 DEF Conflict, Retried
  <2> HIDE DEF c
  <2> QED
    BY <2>2, <2>3
<1>4. CASE ~(st[p].tries + 1 < plan.attempts)
  <2> DEFINE c == Told(Idle, <<"ConcurrentModification">>)
  <2>1. <<"ConcurrentModification">> \in Answers
    BY DEF Answers, Replies, Words
  <2>2. c \in Callers /\ c.pc = "done" /\ c.answer = <<"ConcurrentModification">> /\ c.at = 0
    BY <2>1, IdleIs, CallerUpdates
  <2>3. st' = [st EXCEPT ![p] = c]
    BY <1>4 DEF Conflict, Told
  <2> HIDE DEF c
  <2> QED
    BY <2>2, <2>3
<1> QED
  BY <1>3, <1>4

\* A reply is not an entry.
LEMMA RepliesAre ==
    ASSUME NEW a \in Replies
    PROVE  a \in Answers /\ a[1] # "Entry"
BY DEF Replies, Words, Answers

-----------------------------------------------------------------------------
(***************************************************************************)
(* A step that commits.                                                    *)
(***************************************************************************)

\* e has d's entries, and at most p's on top; what was queued stays queued for
\* the same payload.
Grows(e, d, p) ==
    /\ \A a \in Entries(d) : e[Entry(a)] = d[Entry(a)]
    /\ \/ e[Tip] = d[Tip] /\ Entries(e) = Entries(d)
       \/ e[Tip] = p /\ p \notin Entries(d) /\ Entries(e) = Entries(d) \cup {p}
    /\ \A k \in Keys : d[Queue(k)] # None =>
         e[Queue(k)] # None /\ e[Queue(k)].payload = d[Queue(k)].payload

\* What p is told of an entry is true of d.
AnswerRight(a, p, d) ==
    (Op[p].kind \in {"post", "apply"} /\ a # None /\ a[1] = "Entry") =>
       /\ a[2] \in Entries(d)
       /\ d[Entry(a[2])].key = Op[p].key
       /\ d[Entry(a[2])].payload = Op[p].payload

\* AnswersAgree, said caller by caller.
LEMMA AnswersAre ==
    AnswersAgree <=> \A p \in Procs : AnswerRight(st[p].answer, p, db)
BY DEF AnswersAgree, AnswerRight, Doing

\* The plan is what it was.
LEMMA SamePlan ==
    ASSUME UNCHANGED plan
    PROVE  /\ Op' = Op
           /\ \A ks : Doing(ks)' = Doing(ks)
BY DEF Op, Doing

\* p commits the rows w as transaction t and is done with answer a.
CommitsAs(p, w, t, a) ==
    /\ db' = Stored(db, w)
    /\ log' = Append(log, t)
    /\ Follows(t, w, db, log)
    /\ Finish(p, a)
    /\ UNCHANGED <<plan, seen, alarms, damaged>>

\* What a commit leaves of the others, whatever it writes.
LEMMA CommitKeeps ==
    ASSUME LedgerInv, NEW p \in Procs, NEW w, NEW t, NEW a \in Answers,
           CommitsAs(p, w, t, a), Sound(db'), Grows(db', db, p), AnswerRight(a, p, db')
    PROVE  /\ TypeInv'
           /\ \A q \in Procs : CallInv(q)'
           /\ LogSound(log, db)'
           /\ AnswersAgree'
           /\ \A q \in Doing({"freeze"})' : VerifyInv(q)'
           /\ \A q \in Doing({"tick"})' : TickInv(q)'
           /\ FullTieOutSound'
<1>0. /\ plan \in Plans /\ log \in Seq(Transactions) /\ st \in [Procs -> Callers]
      /\ \A q \in Procs : st[q].at <= Len(log) /\ st[q].at \in Nat
  BY DEF LedgerInv, TypeInv, Callers
<1>1. /\ st' \in [Procs -> Callers]
      /\ st'[p].pc = "done" /\ st'[p].answer = a /\ st'[p].at = 0
      /\ \A q \in Procs \ {p} : st'[q] = st[q]
  BY <1>0, FinishIs DEF CommitsAs
<1>2. t \in Transactions
  BY DEF CommitsAs, Follows
<1>3. /\ log' \in Seq(Transactions) /\ Len(log) \in Nat /\ Len(log') = Len(log) + 1
  BY <1>0, <1>2, Appended DEF CommitsAs
<1>4. UNCHANGED <<plan, seen, alarms, damaged>>
  BY DEF CommitsAs
<1>5. Op' = Op /\ (\A ks : Doing(ks)' = Doing(ks))
  BY <1>4, SamePlan
<1>6. \A q \in Procs : st'[q].at \in Nat /\ st'[q].at < Len(log')
  BY <1>0, <1>1, <1>3
<1>7. TypeInv'
  <2>1. \A q \in Procs : st'[q].at <= Len(log')
    BY <1>3, <1>6
  <2>2. /\ DOMAIN seen = Doing({"tick", "freeze"})
        /\ alarms \subseteq [by : Procs, full : BOOLEAN, quiet : BOOLEAN] /\ damaged \subseteq Procs
    BY DEF LedgerInv, TypeInv
  <2> QED
    BY <1>0, <1>1, <1>3, <1>4, <1>5, <2>1, <2>2 DEF TypeInv
<1>8. ASSUME NEW q \in Procs
      PROVE  CallInv(q)'
  <2>0. CallInv(q)
    BY DEF LedgerInv
  <2>1. CASE q = p
    BY <2>1, <1>1 DEF CallInv
  <2>2. CASE q # p
    <3>1. st'[q] = st[q]
      BY <2>2, <1>1
    <3>2. st[q].pc # "done" => db'[Entry(q)] = None
      BY <2>0, <2>2 DEF CallInv, Grows, Entries
    <3>3. st[q].pc = "txn" => SnapshotOf(st[q].snap, st[q].at, db', log')
      BY <2>0, <1>0, SnapshotKept DEF CallInv, CommitsAs
    <3>4. Op[q].kind = "apply" /\ st[q].pc \in {"txn", "again"} => HasQueued(db, q)'
      <4>1. Op[q].kind = "apply" => Op[q].key \in Keys
        BY <1>0, OpIs
      <4> QED
        BY <4>1, <2>0, <1>5 DEF CallInv, HasQueued, Grows
    <3>5. Op[q].kind = "apply" /\ st[q].pc = "txn" => HasQueued(st[q].snap, q)'
      BY <2>0, <3>1, <1>5 DEF CallInv, HasQueued
    <3> QED
      BY <2>0, <3>1, <3>2, <3>3, <3>4, <3>5, <1>4, <1>5 DEF CallInv
  <2> QED
    BY <2>1, <2>2
<1>9. LogSound(log, db)'
  <2>1. LogSound(log, db) /\ Follows(t, w, db, log)
    BY DEF LedgerInv, CommitsAs
  <2>2. LogSound(Append(log, t), Stored(db, w))
    BY <2>1, <1>0, LogGrows
  <2> QED
    BY <2>2 DEF CommitsAs
<1>10. AnswersAgree'
  <2>1. ASSUME NEW q \in Procs
        PROVE  AnswerRight(st[q].answer, q, db)'
    <3>1. CASE q = p
      BY <3>1, <1>1, <1>5 DEF AnswerRight
    <3>2. CASE q # p
      <4>1. AnswerRight(st[q].answer, q, db)
        BY AnswersAre DEF LedgerInv
      <4>2. \A e \in Entries(db) : e \in Entries(db') /\ db'[Entry(e)] = db[Entry(e)]
        BY DEF Grows
      <4> QED
        BY <4>1, <4>2, <3>2, <1>1, <1>5 DEF AnswerRight
    <3> QED
      BY <3>1, <3>2
  <2>2. (AnswersAgree <=> \A q \in Procs : AnswerRight(st[q].answer, q, db))'
    BY DEF AnswersAgree, AnswerRight, Doing
  <2> QED
    BY <2>1, <2>2
<1>11. ASSUME NEW q \in Doing({"freeze"})'
       PROVE  VerifyInv(q)'
  <2>0. VerifyInv(q)
    BY <1>5 DEF LedgerInv
  <2>1. \A e \in Entries(db) : e \in Entries(db') /\ (db'[Tip] = e => db[Tip] = e /\ Entries(db') = Entries(db))
    BY DEF Grows
  <2>2. seen' = seen /\ damaged' = damaged
    BY <1>4
  <2>3. CASE seen[q] = <<>> \/ (seen[q] = <<"break">> /\ damaged # {})
    BY <2>2, <2>3 DEF VerifyInv
  <2>4. CASE \E e \in Entries(db) : seen[q] = <<"tip", e>>
    BY <2>1, <2>2, <2>4 DEF VerifyInv
  <2>5. ASSUME NEW e \in Entries(db), NEW v \in SUBSET Procs, seen[q] = <<"walked", e, v>>,
               db[Tip] = e => v = Entries(db)
        PROVE  VerifyInv(q)'
    <3>1. db'[Tip] = e => v = Entries(db')
      BY <2>1, <2>5
    <3>2. e \in Entries(db')
      BY <2>1
    <3> QED
      BY <3>1, <3>2, <2>2, <2>5 DEF VerifyInv
  <2>6. CASE \E e \in Entries(db) : seen[q] = <<"recount", e>> /\ db[Tip] # e
    BY <2>1, <2>2, <2>6 DEF VerifyInv
  <2> QED
    BY <2>0, <2>3, <2>4, <2>5, <2>6 DEF VerifyInv
<1>12. ASSUME NEW q \in Doing({"tick"})'
       PROVE  TickInv(q)'
  <2>0. TickInv(q) /\ q \in Procs
    BY <1>5 DEF LedgerInv, Doing
  <2>1. Len(log') # st'[q].at
    BY <2>0, <1>6, <1>3
  <2>2. seen' = seen
    BY <1>4
  <2> QED
    BY <2>0, <2>1, <2>2 DEF TickInv
<1>13. FullTieOutSound'
  BY <1>4, <1>5 DEF LedgerInv, NoFalseAlarm, FullTieOutSound
<1> QED
  BY <1>7, <1>8, <1>9, <1>10, <1>11, <1>12, <1>13

\* What is left to show of a commit.
LEMMA CommitInv ==
    ASSUME LedgerInv, NEW p \in Procs, NEW w, NEW t, NEW a \in Answers,
           CommitsAs(p, w, t, a), Sound(db'), Grows(db', db, p), AnswerRight(a, p, db'),
           EntriesAsked', CertifiedInv', BaselineInv', NoFalseFreeze'
    PROVE  LedgerInv'
<1>1. /\ TypeInv' /\ (\A q \in Procs : CallInv(q)') /\ LogSound(log, db)' /\ AnswersAgree'
      /\ \A q \in Doing({"freeze"})' : VerifyInv(q)'
      /\ \A q \in Doing({"tick"})' : TickInv(q)'
      /\ FullTieOutSound'
  BY CommitKeeps
<1> QED
  BY <1>1 DEF LedgerInv, NoFalseAlarm

\* The transaction a body leads to.
LEMMA TransactionIs ==
    ASSUME LedgerInv, NEW p \in Procs, NEW b, NEW z \in BOOLEAN,
           b.reads \subseteq Rows, DOMAIN b.writes \subseteq Rows
    PROVE  LET t == Transaction(p, b, z) IN
           /\ t \in Transactions
           /\ t.pos = Len(log) + 1 /\ t.at = st[p].at /\ t.at <= Len(log)
           /\ t.reads = b.reads /\ t.writes = DOMAIN b.writes /\ t.serializable = z
<1>1. st[p].at \in Nat /\ st[p].at <= Len(log) /\ Len(log) \in Nat
  BY DEF LedgerInv, TypeInv, Callers
<1> QED
  BY <1>1 DEF Transaction, Transactions

\* What a commit is.
LEMMA CommitIs ==
    ASSUME LedgerInv, NEW p \in Procs, NEW held \in BOOLEAN, NEW lost \in BOOLEAN,
           Commit(p, held, lost), NEW b, b = Body(p, st[p].snap, held)
    PROVE  /\ st[p].pc = "txn"
           /\ SnapshotOf(st[p].snap, st[p].at, db, log)
           /\ db[Entry(p)] = None
           /\ b.answer[1] \in Commits
           /\ FirstUpdater(st[p].at, DOMAIN b.writes)
           /\ NoCycle(Transaction(p, b, TRUE))
           /\ db' = Stored(db, b.writes)
           /\ log' = Append(log, Transaction(p, b, TRUE))
           /\ Finish(p, IF lost THEN <<"Infra">> ELSE b.answer)
           /\ b.answer = <<"Closed">> =>
                certified' = [certified EXCEPT ![Op[p].period] =
                                EntriesIn(st[p].snap, {Op[p].period})]
           /\ b.answer # <<"Closed">> => certified' = certified
           /\ UNCHANGED <<seen, alarms, damaged>>
<1>1. st[p].pc = "txn" /\ b.answer[1] \in Commits
  BY DEF Commit, Commits
<1>2. CallInv(p)
  BY DEF LedgerInv
<1>3. FirstUpdater(st[p].at, DOMAIN b.writes) /\ NoCycle(Transaction(p, b, TRUE))
  BY DEF Commit, MayCommit
<1>4. db' = Stored(db, b.writes) /\ log' = Append(log, Transaction(p, b, TRUE))
  BY DEF Commit, Store, Stored
<1> QED
  BY <1>1, <1>2, <1>3, <1>4 DEF Commit, CallInv

\* What a posting writes are rows, and only its own entry is among them.
LEMMA PostWritesIs ==
    ASSUME NEW p \in Procs, NEW s, NEW k \in Keys, NEW x \in Payloads, NEW q \in BOOLEAN,
           Sound(s)
    PROVE  LET w == PostWrites(p, s, k, x, q) IN
           /\ DOMAIN w \subseteq Rows
           /\ {Dedup(k), Tip, Cache, Entry(p)} \subseteq DOMAIN w
           /\ \A e \in Procs : Entry(e) \in DOMAIN w <=> e = p
           /\ w[Entry(p)] # None /\ w[Entry(p)].payload = x
           /\ \A f \in Periods : Period(f) \notin DOMAIN w
           /\ \A r \in DOMAIN w : w[r] \in Values
<1> DEFINE w == PostWrites(p, s, k, x, q)
<1>1. DOMAIN w = {Dedup(k), Entry(p), Tip, Cache, Event(p)} \cup (IF q THEN {Queue(k)} ELSE {})
  BY DEF PostWrites
<1>2. s[Tip] \in Procs \cup {None} /\ s[Cache] \subseteq Procs
  BY DEF Sound, RowsTyped
<1>3. /\ w[Dedup(k)] = [payload |-> x, status |-> "POSTED", entry |-> p]
      /\ w[Entry(p)] = [key |-> k, payload |-> x, prev |-> s[Tip]]
      /\ w[Tip] = p
      /\ w[Cache] = s[Cache] \cup {p}
      /\ w[Event(p)] = "entry.posted"
      /\ q => w[Queue(k)] = [payload |-> x, status |-> "APPLIED"]
  BY RowNames DEF PostWrites
<1> HIDE DEF w
<1>4. /\ [payload |-> x, status |-> "POSTED", entry |-> p] \in DedupRows
      /\ [payload |-> x, status |-> "APPLIED"] \in QueueRows
      /\ [key |-> k, payload |-> x, prev |-> s[Tip]] \in JournalEntries
      /\ "entry.posted" \in Announcements
      /\ s[Cache] \cup {p} \in SUBSET Procs
  BY <1>2 DEF DedupRows, QueueRows, JournalEntries, Announcements
<1>5. \A r \in DOMAIN w : w[r] \in Values
  BY <1>1, <1>3, <1>4 DEF Values, Cells
<1>6. DOMAIN w \subseteq Rows
  BY <1>1, RowsAre
<1>7. w[Entry(p)] # None /\ w[Entry(p)].payload = x
  BY <1>2, <1>3, RowsNotNone
<1>8. \A e \in Procs : Entry(e) \in DOMAIN w <=> e = p
  BY <1>1, RowNames
<1>9. \A f \in Periods : Period(f) \notin DOMAIN w
  BY <1>1, RowNames
<1> QED
  BY <1>1, <1>5, <1>6, <1>7, <1>8, <1>9 DEF w

\* A posting commits.
LEMMA CommitPosts ==
    ASSUME LedgerInv, UNCHANGED plan, NEW p \in Procs, NEW held \in BOOLEAN,
           NEW lost \in BOOLEAN, Commit(p, held, lost), NEW b, b = Body(p, st[p].snap, held),
           NEW q \in BOOLEAN, Op[p].kind \in {"post", "apply"},
           Posts(b, p, st[p].snap, Op[p].key, Op[p].payload, q)
    PROVE  LedgerInv'
<1> DEFINE s == st[p].snap
           k == Op[p].key
           x == Op[p].payload
           w == PostWrites(p, s, k, x, q)
           t == Transaction(p, b, TRUE)
           a == IF lost THEN <<"Infra">> ELSE b.answer
<1>0. /\ SnapshotOf(s, st[p].at, db, log) /\ db[Entry(p)] = None
      /\ FirstUpdater(st[p].at, DOMAIN b.writes) /\ NoCycle(t)
      /\ db' = Stored(db, b.writes) /\ log' = Append(log, t)
      /\ Finish(p, a)
      /\ b.answer # <<"Closed">> => certified' = certified
      /\ UNCHANGED <<seen, alarms, damaged>>
  BY CommitIs
<1>1. k \in Keys /\ x \in Payloads /\ PeriodOf[x] \in Periods
  BY OpIs, LedgerAssumption DEF LedgerInv, TypeInv
<1>2. Sound(s) /\ Sound(db) /\ db \in [Rows -> Values]
  BY <1>0 DEF SnapshotOf, LedgerInv, Sound
<1>3. /\ Claimable(s, k, x, q) /\ s[Period(PeriodOf[x])] = "OPEN"
      /\ b.answer = <<"Entry", p>>
      /\ b.reads = {Dedup(k), Freeze, Period(PeriodOf[x]), Tip, Cache}
      /\ b.writes = w
  BY DEF Posts
<1> HIDE DEF s, k, x, w, t, a
<1>4. /\ DOMAIN w \subseteq Rows
      /\ {Dedup(k), Tip, Cache, Entry(p)} \subseteq DOMAIN w
      /\ \A e \in Procs : Entry(e) \in DOMAIN w <=> e = p
      /\ w[Entry(p)] # None /\ w[Entry(p)].payload = x
      /\ \A f \in Periods : Period(f) \notin DOMAIN w
      /\ \A r \in DOMAIN w : w[r] \in Values
  BY <1>1, <1>2, PostWritesIs DEF w
<1>5. b.reads \subseteq Rows
  BY <1>1, <1>3, RowsAre
<1>6. /\ t \in Transactions
      /\ t.pos = Len(log) + 1 /\ t.at = st[p].at /\ t.at <= Len(log)
      /\ t.reads = b.reads /\ t.writes = DOMAIN w /\ t.serializable = TRUE
  BY <1>3, <1>4, <1>5, TransactionIs DEF t
<1>7. s[Dedup(k)] = db[Dedup(k)] /\ s[Tip] = db[Tip] /\ s[Cache] = db[Cache]
  BY <1>0, <1>3, <1>4, <1>1, RowsAre, WritesCurrent
<1>8. MayPost(db, s, p, k, x, q)
  BY <1>0, <1>3, <1>7 DEF MayPost, Claimable
<1>9. PostedOnto(db', db, s, p, k, x, q)
  <2>1. db' = Stored(db, PostWrites(p, s, k, x, q))
    BY <1>0, <1>3 DEF w
  <2> QED
    BY <2>1, <1>1, PostStored
<1>10. db' \in [Rows -> Values]
  BY <1>0, <1>2, <1>3, <1>4, StoredValues
<1>11. Sound(db')
  BY <1>1, <1>2, <1>8, <1>9, <1>10, PostSound
<1>12. Follows(t, w, db, log)
  <2>1. Period(PeriodOf[x]) \in t.reads
    BY <1>3, <1>6
  <2> QED
    BY <2>1, <1>0, <1>4, <1>6 DEF Follows
<1>13. /\ Entries(db') = Entries(db) \cup {p} /\ p \notin Entries(db)
       /\ \A e \in Entries(db) : e \in Procs /\ db'[Entry(e)] = db[Entry(e)]
  <2>1. s[Tip] \in Procs \cup {None}
    BY <1>2 DEF Sound, RowsTyped
  <2>2. Entries(db') = Entries(db) \cup {p}
    BY <2>1, <1>1, <1>9, PostEntries
  <2>3. p \notin Entries(db)
    BY <1>0 DEF Entries
  <2> QED
    BY <2>2, <2>3, <1>9 DEF PostedOnto, Entries
<1>14. Grows(db', db, p)
  <2>1. db'[Tip] = p
    BY <1>9 DEF PostedOnto
  <2>2. ASSUME NEW j \in Keys, db[Queue(j)] # None
        PROVE  db'[Queue(j)] # None /\ db'[Queue(j)].payload = db[Queue(j)].payload
    <3>1. CASE j = k /\ q
      <4>1. db'[Queue(j)] = [payload |-> x, status |-> "APPLIED"]
        BY <3>1, <1>9 DEF PostedOnto
      <4>2. db[Queue(j)].payload = x
        BY <2>2, <3>1, <1>2, <1>8 DEF Sound, ClaimsAgree, MayPost, Claimable
      <4> QED
        BY <4>1, <4>2, <1>1, RowsNotNone
    <3>2. CASE ~(j = k /\ q)
      BY <2>2, <3>2, <1>9 DEF PostedOnto
    <3> QED
      BY <3>1, <3>2
  <2> QED
    BY <2>1, <2>2, <1>13 DEF Grows
<1>15. a \in Answers /\ (a = <<"Entry", p>> \/ a = <<"Infra">>)
  BY <1>3 DEF a, Answers, Replies, Words
<1>15a. /\ db'[Entry(p)].key = k /\ db'[Entry(p)].payload = x
  BY <1>9 DEF PostedOnto
<1>16. AnswerRight(a, p, db')
  BY <1>13, <1>15, <1>15a DEF AnswerRight, k, x
<1>17. EntriesAsked'
  <2>1. Op' = Op
    BY SamePlan
  <2>2. EntriesAsked
    BY DEF LedgerInv
  <2> QED
    BY <2>1, <2>2, <1>13, <1>15a DEF EntriesAsked, k, x
<1>18. db[Period(PeriodOf[x])] # "CLOSED"
  <2>1. log \in Seq(Transactions) /\ LogSound(log, db)
    BY DEF LedgerInv, TypeInv
  <2>2. Period(PeriodOf[x]) \in t.reads /\ Entry(p) \in t.writes /\ s[Period(PeriodOf[x])] # "CLOSED"
    BY <1>3, <1>4, <1>6
  <2> QED
    BY <2>1, <2>2, <1>0, <1>1, <1>6, NoPostIntoClosed
<1>19. CertifiedInv'
  <2>1. certified' = certified
    <3>1. <<"Entry", p>> # <<"Closed">>
      OBVIOUS
    <3> QED
      BY <3>1, <1>0, <1>3
  <2>2. ASSUME NEW f \in Periods, db'[Period(f)] = "CLOSED"
        PROVE  EntriesIn(db', {f}) = certified[f]
    <3>1. db[Period(f)] = "CLOSED" /\ f # PeriodOf[x]
      BY <2>2, <1>9, <1>18 DEF PostedOnto
    <3>2. EntriesIn(db', {f}) = EntriesIn(db, {f})
      BY <3>1, <1>13, <1>15a DEF EntriesIn
    <3> QED
      BY <3>1, <3>2 DEF LedgerInv, CertifiedInv, ClosedIsCertified
  <2> QED
    BY <2>1, <2>2 DEF LedgerInv, CertifiedInv, ClosedIsCertified
<1>20. BaselineInv'
  <2>1. db'[Baseline] = db[Baseline]
    BY <1>9 DEF PostedOnto
  <2>2. db[Cache] \subseteq db'[Cache]
    <3>1. Sound(db) /\ Sound(db')
      BY <1>11 DEF LedgerInv
    <3> QED
      BY <3>1, <1>13 DEF Sound, CacheIsJournal
  <2>3. <<"Entry", p>> # <<"Closed">>
    OBVIOUS
  <2>4. certified' = certified
    BY <2>3, <1>0, <1>3
  <2> QED
    BY <2>1, <2>2, <2>4 DEF LedgerInv, BaselineInv
<1>21. NoFalseFreeze'
  <2>1. db'[Freeze] = db[Freeze]
    BY <1>9 DEF PostedOnto
  <2> QED
    BY <2>1, <1>0 DEF LedgerInv, NoFalseAlarm, NoFalseFreeze
<1>22. CommitsAs(p, w, t, a)
  BY <1>0, <1>3, <1>12 DEF CommitsAs
<1> QED
  BY <1>11, <1>14, <1>15, <1>16, <1>17, <1>19, <1>20, <1>21, <1>22, CommitInv

-----------------------------------------------------------------------------
(***************************************************************************)
(* Commits beside the journal.                                             *)
(***************************************************************************)

\* The rows that are neither journal nor claims, and of the announcements p's.
AsideRows(p) ==
    {Freeze, Baseline, Event(p)} \cup {Period(f) : f \in Periods} \cup {Closing(f) : f \in Periods}

\* Writes beside the books leave keys, queue, entries, tip and balances alone.
LEMMA StoredAside ==
    ASSUME NEW d, NEW w, NEW p \in Procs, DOMAIN w \subseteq AsideRows(p)
    PROVE  LET e == Stored(d, w) IN
           /\ \A j \in Keys : e[Dedup(j)] = d[Dedup(j)] /\ e[Queue(j)] = d[Queue(j)]
           /\ \A a \in Procs : e[Entry(a)] = d[Entry(a)]
           /\ \A a \in Procs : Event(a) \notin DOMAIN w => e[Event(a)] = d[Event(a)]
           /\ e[Tip] = d[Tip] /\ e[Cache] = d[Cache]
           /\ AsideRows(p) \subseteq Rows
           /\ \A a \in Procs : Entry(a) \notin DOMAIN w
<1>1. \A r \in DOMAIN w : \/ r \in {Freeze, Baseline, Event(p)}
                          \/ \E f \in Periods : r = Period(f) \/ r = Closing(f)
  BY DEF AsideRows
<1>2. \A j \in Keys : Dedup(j) \notin DOMAIN w /\ Queue(j) \notin DOMAIN w
  BY <1>1, RowNames
<1>3. \A a \in Procs : Entry(a) \notin DOMAIN w
  BY <1>1, RowNames
<1>4. Tip \notin DOMAIN w /\ Cache \notin DOMAIN w
  BY <1>1, RowNames
<1>5. AsideRows(p) \subseteq Rows
  BY RowsAre DEF AsideRows
<1> QED
  BY <1>2, <1>3, <1>4, <1>5, StoredAt, RowsAre

\* A commit that leaves journal and claims alone.
LEMMA AsideSound ==
    ASSUME LedgerInv, NEW p \in Procs, NEW w, db' = Stored(db, w),
           DOMAIN w \subseteq AsideRows(p), \A r \in DOMAIN w : w[r] \in Values,
           db[Entry(p)] = None,
           Event(p) \in DOMAIN w => w[Event(p)] = "period.closed",
           \A f \in Periods : Period(f) \in DOMAIN w => w[Period(f)] \in {"OPEN", "CLOSED"},
           Baseline \in DOMAIN w => w[Baseline] \subseteq Procs,
           Freeze \in DOMAIN w => w[Freeze] = TRUE
    PROVE  /\ Sound(db')
           /\ Grows(db', db, p)
           /\ \A a \in Procs : db'[Entry(a)] = db[Entry(a)]
           /\ Entries(db') = Entries(db)
           /\ db'[Cache] = db[Cache]
<1>1. /\ \A j \in Keys : db'[Dedup(j)] = db[Dedup(j)] /\ db'[Queue(j)] = db[Queue(j)]
      /\ \A a \in Procs : db'[Entry(a)] = db[Entry(a)]
      /\ \A a \in Procs : Event(a) \notin DOMAIN w => db'[Event(a)] = db[Event(a)]
      /\ db'[Tip] = db[Tip] /\ db'[Cache] = db[Cache]
  BY StoredAside
<1>2. Sound(db) /\ db \in [Rows -> Values]
  BY DEF LedgerInv, Sound
<1>3. db' \in [Rows -> Values]
  BY <1>2, StoredValues
<1>4. \A f \in Periods : db'[Period(f)] \in {"ABSENT", "OPEN", "CLOSED"}
  BY <1>2, StoredAt, RowsAre DEF Sound, RowsTyped
<1>5. db'[Baseline] \subseteq Procs
  BY <1>2, StoredAt, RowsAre DEF Sound, RowsTyped
<1>5a. db'[Freeze] \in BOOLEAN
  <2>1. db[Freeze] \in BOOLEAN /\ Freeze \in Rows
    BY <1>2, RowsAre DEF Sound, RowsTyped
  <2>2. db'[Freeze] = db[Freeze] \/ (Freeze \in DOMAIN w /\ db'[Freeze] = w[Freeze])
    BY <2>1, StoredAt
  <2> QED
    BY <2>1, <2>2, Zenon
<1>6. ASSUME NEW a \in Procs
      PROVE  /\ db'[Event(a)] \in {None} \cup Announcements
             /\ db'[Event(a)] = "entry.posted" <=> db[Event(a)] = "entry.posted"
  <2>1. CASE Event(a) \notin DOMAIN w
    BY <2>1, <1>1, <1>2 DEF Sound, RowsTyped
  <2>2. CASE Event(a) \in DOMAIN w
    <3>1. a = p
      <4>1. \/ Event(a) \in {Freeze, Baseline, Event(p)}
            \/ \E f \in Periods : Event(a) = Period(f) \/ Event(a) = Closing(f)
        BY <2>2 DEF AsideRows
      <4> QED
        BY <4>1, RowNames
    <3>2. db'[Event(a)] = "period.closed"
      BY <2>2, <3>1, StoredAt, RowsAre
    <3>3. db[Event(a)] # "entry.posted"
      BY <3>1, <1>2 DEF Sound, EachKeyOnce, Entries
    <3> QED
      BY <3>2, <3>3 DEF Announcements
  <2> QED
    BY <2>1, <2>2
<1>7. SameBooks(db', db)
  BY <1>1, <1>4, <1>5, <1>5a, <1>6 DEF SameBooks
<1>8. Sound(db')
  BY <1>2, <1>3, <1>7, SameSound
<1>9. Entries(db') = Entries(db)
  BY <1>1, SameEntries
<1>10. \A a \in Entries(db) : db'[Entry(a)] = db[Entry(a)]
  BY <1>1 DEF Entries
<1>11. Grows(db', db, p)
  BY <1>1, <1>9, <1>10 DEF Grows
<1> QED
  BY <1>1, <1>8, <1>9, <1>11

\* Without new entries the plan's entries and the periods' are what they were.
LEMMA AsideKeeps ==
    ASSUME LedgerInv, UNCHANGED plan, \A a \in Procs : db'[Entry(a)] = db[Entry(a)],
           Entries(db') = Entries(db)
    PROVE  /\ EntriesAsked'
           /\ \A fs : EntriesIn(db', fs) = EntriesIn(db, fs)
           /\ \A a, p : AnswerRight(a, p, db) => AnswerRight(a, p, db')
<1>1. Op' = Op
  BY SamePlan
<1>2. \A a \in Entries(db) : db'[Entry(a)] = db[Entry(a)]
  BY DEF Entries
<1>3. EntriesAsked'
  BY <1>1, <1>2 DEF LedgerInv, EntriesAsked
<1>4. \A fs : EntriesIn(db', fs) = EntriesIn(db, fs)
  BY <1>2 DEF EntriesIn
<1>5. \A a, p : AnswerRight(a, p, db) => AnswerRight(a, p, db')
  BY <1>2 DEF AnswerRight
<1> QED
  BY <1>3, <1>4, <1>5

\* A commit that writes at most the freeze or a close's own record.
LEMMA QuietInv ==
    ASSUME LedgerInv, NEW p \in Procs, NEW w, NEW t, NEW a \in Answers,
           CommitsAs(p, w, t, a), certified' = certified, db[Entry(p)] = None,
           DOMAIN w \subseteq {Freeze} \cup {Closing(f) : f \in Periods},
           \A r \in DOMAIN w : w[r] \in Values,
           Freeze \in DOMAIN w => w[Freeze] = TRUE /\ damaged # {},
           AnswerRight(a, p, db)
    PROVE  LedgerInv'
<1>0. db' = Stored(db, w) /\ UNCHANGED plan /\ damaged' = damaged
  BY DEF CommitsAs
<1>1. \A r \in DOMAIN w : r = Freeze \/ \E f \in Periods : r = Closing(f)
  OBVIOUS
<1>2. DOMAIN w \subseteq AsideRows(p)
  BY <1>1 DEF AsideRows
<1>3. /\ Event(p) \notin DOMAIN w /\ Baseline \notin DOMAIN w
      /\ \A f \in Periods : Period(f) \notin DOMAIN w
  BY <1>1, RowNames
<1>4. /\ Sound(db') /\ Grows(db', db, p)
      /\ \A e \in Procs : db'[Entry(e)] = db[Entry(e)]
      /\ Entries(db') = Entries(db) /\ db'[Cache] = db[Cache]
  BY <1>0, <1>2, <1>3, AsideSound
<1>5. /\ EntriesAsked' /\ AnswerRight(a, p, db')
      /\ \A fs : EntriesIn(db', fs) = EntriesIn(db, fs)
  BY <1>0, <1>4, AsideKeeps
<1>6. /\ \A f \in Periods : db'[Period(f)] = db[Period(f)]
      /\ db'[Baseline] = db[Baseline]
  BY <1>0, <1>3, StoredAt, RowsAre
<1>7. CertifiedInv'
  BY <1>5, <1>6 DEF LedgerInv, CertifiedInv, ClosedIsCertified
<1>8. BaselineInv'
  BY <1>4, <1>6 DEF LedgerInv, BaselineInv
<1>9. NoFalseFreeze'
  BY <1>0, StoredAt, RowsAre DEF LedgerInv, NoFalseAlarm, NoFalseFreeze
<1> QED
  BY <1>4, <1>5, <1>7, <1>8, <1>9, CommitInv

\* A commit that opens a period.
LEMMA OpenInv ==
    ASSUME LedgerInv, NEW p \in Procs, NEW w, NEW t, NEW a \in Answers, NEW f \in Periods,
           CommitsAs(p, w, t, a), certified' = certified, db[Entry(p)] = None,
           DOMAIN w \subseteq {Period(f), Closing(f)},
           \A r \in DOMAIN w : w[r] \in Values,
           Period(f) \in DOMAIN w, w[Period(f)] = "OPEN",
           AnswerRight(a, p, db)
    PROVE  LedgerInv'
<1>0. db' = Stored(db, w) /\ UNCHANGED plan /\ damaged' = damaged
  BY DEF CommitsAs
<1>1. \A r \in DOMAIN w : r = Period(f) \/ r = Closing(f)
  OBVIOUS
<1>2. DOMAIN w \subseteq AsideRows(p)
  BY <1>1 DEF AsideRows
<1>3. /\ Event(p) \notin DOMAIN w /\ Baseline \notin DOMAIN w /\ Freeze \notin DOMAIN w
      /\ \A g \in Periods : Period(g) \in DOMAIN w => g = f
  BY <1>1, RowNames
<1>4. /\ Sound(db') /\ Grows(db', db, p)
      /\ \A e \in Procs : db'[Entry(e)] = db[Entry(e)]
      /\ Entries(db') = Entries(db) /\ db'[Cache] = db[Cache]
  BY <1>0, <1>2, <1>3, AsideSound
<1>5. /\ EntriesAsked' /\ AnswerRight(a, p, db')
      /\ \A fs : EntriesIn(db', fs) = EntriesIn(db, fs)
  BY <1>0, <1>4, AsideKeeps
<1>6. /\ \A g \in Periods : db'[Period(g)] = IF g = f THEN "OPEN" ELSE db[Period(g)]
      /\ db'[Baseline] = db[Baseline] /\ db'[Freeze] = db[Freeze]
  BY <1>0, <1>3, StoredAt, RowsAre
<1>7. CertifiedInv'
  BY <1>5, <1>6 DEF LedgerInv, CertifiedInv, ClosedIsCertified
<1>8. BaselineInv'
  BY <1>4, <1>6 DEF LedgerInv, BaselineInv
<1>9. NoFalseFreeze'
  BY <1>0, <1>6 DEF LedgerInv, NoFalseAlarm, NoFalseFreeze
<1> QED
  BY <1>4, <1>5, <1>7, <1>8, <1>9, CommitInv

\* What a close writes.
LEMMA CloseWritesIs ==
    ASSUME NEW p \in Procs, NEW s, NEW f \in Periods, Sound(s)
    PROVE  LET w == CloseWrites(p, s, f) IN
           /\ DOMAIN w \subseteq AsideRows(p)
           /\ Period(f) \in DOMAIN w /\ w[Period(f)] = "CLOSED"
           /\ \A g \in Periods : Period(g) \in DOMAIN w <=> g = f
           /\ w[Event(p)] = "period.closed"
           /\ Freeze \notin DOMAIN w
           /\ Baseline \in DOMAIN w <=> s[Cache] # {}
           /\ Baseline \in DOMAIN w => w[Baseline] = s[Cache]
           /\ \A r \in DOMAIN w : w[r] \in Values
<1> DEFINE w == CloseWrites(p, s, f)
<1>1. DOMAIN w = {Period(f), Closing(f), Event(p)} \cup (IF s[Cache] = {} THEN {} ELSE {Baseline})
  BY DEF CloseWrites
<1>2. /\ w[Period(f)] = "CLOSED" /\ w[Closing(f)] = "CLOSED"
      /\ Baseline \in DOMAIN w => w[Baseline] = s[Cache]
      /\ w[Event(p)] = "period.closed"
  BY RowNames DEF CloseWrites
<1>3. s[Cache] \in SUBSET Procs /\ "period.closed" \in Announcements
  BY DEF Sound, RowsTyped, Announcements
<1> HIDE DEF w
<1>4. \A r \in DOMAIN w : w[r] \in Values
  BY <1>1, <1>2, <1>3 DEF Values, Cells
<1>5. DOMAIN w \subseteq AsideRows(p)
  BY <1>1 DEF AsideRows
<1>6. /\ \A g \in Periods : Period(g) \in DOMAIN w <=> g = f
      /\ Freeze \notin DOMAIN w
      /\ Baseline \in DOMAIN w <=> s[Cache] # {}
  BY <1>1, RowNames
<1> QED
  BY <1>1, <1>2, <1>4, <1>5, <1>6 DEF w

\* A close commits.
LEMMA CommitCloses ==
    ASSUME LedgerInv, UNCHANGED plan, NEW p \in Procs, NEW held \in BOOLEAN,
           NEW lost \in BOOLEAN, Commit(p, held, lost), NEW b, b = Body(p, st[p].snap, held),
           Op[p].kind = "close", Closes(b, p, st[p].snap, Op[p].period)
    PROVE  LedgerInv'
<1> DEFINE s == st[p].snap
           f == Op[p].period
           w == CloseWrites(p, s, f)
           t == Transaction(p, b, TRUE)
           a == IF lost THEN <<"Infra">> ELSE b.answer
<1>0. /\ SnapshotOf(s, st[p].at, db, log) /\ db[Entry(p)] = None
      /\ FirstUpdater(st[p].at, DOMAIN b.writes) /\ NoCycle(t)
      /\ db' = Stored(db, b.writes) /\ log' = Append(log, t)
      /\ Finish(p, a)
      /\ b.answer = <<"Closed">> => certified' = [certified EXCEPT ![f] = EntriesIn(s, {f})]
      /\ UNCHANGED <<seen, alarms, damaged>>
  BY CommitIs
<1>1. f \in Periods
  BY OpIs DEF LedgerInv, TypeInv
<1>2. Sound(s) /\ Sound(db)
  BY <1>0 DEF SnapshotOf, LedgerInv
<1>3. /\ s[Period(f)] = "OPEN" /\ s[Cache] = Entries(s)
      /\ b.answer = <<"Closed">> /\ b.reads = CloseReads(f) /\ b.writes = w
  BY DEF Closes
<1> HIDE DEF s, f, w, t, a
<1>4. /\ DOMAIN w \subseteq AsideRows(p)
      /\ Period(f) \in DOMAIN w /\ w[Period(f)] = "CLOSED"
      /\ \A g \in Periods : Period(g) \in DOMAIN w <=> g = f
      /\ w[Event(p)] = "period.closed"
      /\ Freeze \notin DOMAIN w
      /\ Baseline \in DOMAIN w <=> s[Cache] # {}
      /\ Baseline \in DOMAIN w => w[Baseline] = s[Cache]
      /\ \A r \in DOMAIN w : w[r] \in Values
  BY <1>1, <1>2, CloseWritesIs DEF w
<1>5. /\ DOMAIN w \subseteq Rows
      /\ \A e \in Procs : Entry(e) \notin DOMAIN w
      /\ b.reads \subseteq Rows /\ EntryRows \subseteq b.reads
  BY <1>1, <1>3, <1>4, StoredAside, RowsAre DEF CloseReads, EntryRows
<1>6. /\ t \in Transactions
      /\ t.pos = Len(log) + 1 /\ t.at = st[p].at /\ t.at <= Len(log)
      /\ t.reads = b.reads /\ t.writes = DOMAIN w /\ t.serializable = TRUE
  BY <1>3, <1>5, TransactionIs DEF t
<1>7. s[Period(f)] = db[Period(f)]
  BY <1>0, <1>3, <1>4, <1>1, RowsAre, WritesCurrent
<1>8. s[Cache] \subseteq Procs
  BY <1>2 DEF Sound, RowsTyped
<1>9. /\ Sound(db') /\ Grows(db', db, p)
      /\ \A e \in Procs : db'[Entry(e)] = db[Entry(e)]
      /\ Entries(db') = Entries(db) /\ db'[Cache] = db[Cache]
  <2>1. db' = Stored(db, w)
    BY <1>0, <1>3
  <2>2. \A g \in Periods : Period(g) \in DOMAIN w => w[Period(g)] \in {"OPEN", "CLOSED"}
    BY <1>4
  <2>3. Baseline \in DOMAIN w => w[Baseline] \subseteq Procs
    BY <1>4, <1>8
  <2> QED
    BY <2>1, <2>2, <2>3, <1>0, <1>4, AsideSound
<1>10. Follows(t, w, db, log)
  BY <1>4, <1>5, <1>6 DEF Follows
<1>11. /\ a \in Answers /\ AnswerRight(a, p, db)
  <2>1. a \in Replies
    BY <1>3 DEF a, Replies, Words
  <2> QED
    BY <2>1, RepliesAre DEF AnswerRight
<1>12. /\ EntriesAsked' /\ AnswerRight(a, p, db')
       /\ \A fs : EntriesIn(db', fs) = EntriesIn(db, fs)
  BY <1>9, <1>11, AsideKeeps
<1>13. EntriesIn(s, {f}) = EntriesIn(db, {f})
  <2>1. log \in Seq(Transactions) /\ LogSound(log, db)
    BY DEF LedgerInv, TypeInv
  <2>2. EntryRows \subseteq t.reads /\ Period(f) \in t.writes
    BY <1>4, <1>5, <1>6
  <2> QED
    BY <2>1, <2>2, <1>0, <1>1, <1>6, CloseSeesAll
<1>14. /\ \A g \in Periods : db'[Period(g)] = IF g = f THEN "CLOSED" ELSE db[Period(g)]
       /\ db'[Baseline] = IF s[Cache] = {} THEN db[Baseline] ELSE s[Cache]
       /\ db'[Freeze] = db[Freeze]
  BY <1>0, <1>3, <1>4, StoredAt, RowsAre
<1>15. CertifiedInv'
  <2>1. DOMAIN certified = Periods /\ ClosedIsCertified
    BY DEF LedgerInv, CertifiedInv
  <2>2. /\ certified' = [certified EXCEPT ![f] = EntriesIn(s, {f})]
    BY <1>0, <1>3
  <2>3. /\ DOMAIN certified' = Periods
        /\ certified'[f] = EntriesIn(s, {f})
        /\ \A g \in Periods : g # f => certified'[g] = certified[g]
    BY <2>1, <2>2, <1>1
  <2>4. ASSUME NEW g \in Periods, db'[Period(g)] = "CLOSED"
        PROVE  EntriesIn(db', {g}) = certified'[g]
    <3>1. CASE g = f
      BY <3>1, <2>3, <1>12, <1>13
    <3>2. CASE g # f
      BY <3>2, <2>1, <2>3, <2>4, <1>12, <1>14 DEF ClosedIsCertified
    <3> QED
      BY <3>1, <3>2
  <2> QED
    BY <2>3, <2>4 DEF CertifiedInv, ClosedIsCertified
<1>16. BaselineInv'
  <2>1. s[Baseline] \subseteq s[Cache]
    BY CommitIs DEF LedgerInv, CallInv, s
  <2>2. s[Cache] # {} => s[Baseline] = db[Baseline]
    BY <1>0, <1>3, <1>4, RowsAre, WritesCurrent
  <2>3. /\ db[Baseline] \subseteq db[Cache]
        /\ \A g \in Periods : certified[g] \subseteq db[Baseline]
    BY DEF LedgerInv, BaselineInv
  <2>4. s[Cache] \subseteq db[Cache]
    <3>1. Entries(s) \subseteq Entries(db)
      BY <1>0 DEF SnapshotOf, Entries
    <3> QED
      BY <3>1, <1>2, <1>3 DEF Sound, CacheIsJournal
  <2>5. EntriesIn(s, {f}) \subseteq s[Cache]
    BY <1>3 DEF EntriesIn
  <2>6. /\ certified'[f] = EntriesIn(s, {f})
        /\ \A g \in Periods : g # f => certified'[g] = certified[g]
    BY <1>0, <1>1, <1>3 DEF LedgerInv, CertifiedInv
  <2>7. db[Baseline] \subseteq db'[Baseline] /\ s[Cache] \subseteq db'[Baseline]
    BY <2>1, <2>2, <1>14
  <2>8. db'[Baseline] \subseteq db'[Cache]
    BY <2>3, <2>4, <1>9, <1>14
  <2> QED
    BY <2>3, <2>5, <2>6, <2>7, <2>8 DEF BaselineInv
<1>17. NoFalseFreeze'
  BY <1>0, <1>14 DEF LedgerInv, NoFalseAlarm, NoFalseFreeze
<1>18. CommitsAs(p, w, t, a)
  BY <1>0, <1>3, <1>10 DEF CommitsAs
<1> QED
  BY <1>9, <1>11, <1>12, <1>15, <1>16, <1>17, <1>18, CommitInv

\* A body that leaves journal, claims, periods and baseline alone commits.
LEMMA CommitQuiet ==
    ASSUME LedgerInv, UNCHANGED plan, NEW p \in Procs, NEW held \in BOOLEAN,
           NEW lost \in BOOLEAN, Commit(p, held, lost), NEW b, b = Body(p, st[p].snap, held),
           b.reads \subseteq Rows, b.answer # <<"Closed">>, b.answer \in Answers,
           DOMAIN b.writes \subseteq {Freeze} \cup {Closing(f) : f \in Periods},
           \A r \in DOMAIN b.writes : b.writes[r] \in Values,
           Freeze \in DOMAIN b.writes => b.writes[Freeze] = TRUE /\ damaged # {},
           AnswerRight(b.answer, p, db)
    PROVE  LedgerInv'
<1> DEFINE t == Transaction(p, b, TRUE)
           a == IF lost THEN <<"Infra">> ELSE b.answer
<1>0. /\ db[Entry(p)] = None
      /\ db' = Stored(db, b.writes) /\ log' = Append(log, t)
      /\ Finish(p, a) /\ certified' = certified
      /\ UNCHANGED <<seen, alarms, damaged>>
  BY CommitIs
<1>1. a \in Answers /\ AnswerRight(a, p, db)
  <2>1. <<"Infra">> \in Replies
    BY DEF Replies, Words
  <2>2. <<"Infra">> \in Answers /\ AnswerRight(<<"Infra">>, p, db)
    BY <2>1, RepliesAre DEF AnswerRight
  <2> QED
    BY <2>2
<1> HIDE DEF t, a
<1>2. \A r \in DOMAIN b.writes : r = Freeze \/ \E f \in Periods : r = Closing(f)
  OBVIOUS
<1>3. /\ DOMAIN b.writes \subseteq Rows
      /\ \A e \in Procs : Entry(e) \notin DOMAIN b.writes
      /\ \A f \in Periods : Period(f) \notin DOMAIN b.writes
  BY <1>2, RowsAre, RowNames
<1>4. /\ t \in Transactions
      /\ t.pos = Len(log) + 1 /\ t.at <= Len(log) /\ t.writes = DOMAIN b.writes
  BY <1>3, TransactionIs DEF t
<1>5. Follows(t, b.writes, db, log)
  BY <1>3, <1>4 DEF Follows
<1>6. CommitsAs(p, b.writes, t, a)
  BY <1>0, <1>5 DEF CommitsAs
<1> QED
  BY <1>0, <1>1, <1>6, QuietInv

\* A post or a queued apply commits: a replay or a posting.
LEMMA CommitPost ==
    ASSUME LedgerInv, UNCHANGED plan, NEW p \in Procs, NEW held \in BOOLEAN,
           NEW lost \in BOOLEAN, Commit(p, held, lost), Op[p].kind \in {"post", "apply"}
    PROVE  LedgerInv'
<1> DEFINE s == st[p].snap
           k == Op[p].key
           x == Op[p].payload
           q == Op[p].kind = "apply"
           b == Body(p, s, held)
<1>0. /\ SnapshotOf(s, st[p].at, db, log) /\ st[p].pc = "txn" /\ b.answer[1] \in Commits
  BY CommitIs
<1>1. k \in Keys /\ x \in Payloads /\ q \in BOOLEAN
  BY OpIs DEF LedgerInv, TypeInv
<1>2. Sound(s)
  BY <1>0 DEF SnapshotOf
<1>3. q => s[Queue(k)] # None /\ s[Queue(k)].payload = x
  BY <1>0 DEF LedgerInv, CallInv, HasQueued
<1>4. b = PostBody(p, s, k, x, q)
  <2>1. CASE Op[p].kind = "post"
    <3>1. b = PostBody(p, s, k, x, FALSE) /\ q = FALSE
      BY <2>1 DEF Body
    <3> QED
      BY <3>1, Zenon
  <2>2. CASE Op[p].kind = "apply"
    <3>1. b = PostBody(p, s, k, x, TRUE) /\ q = TRUE
      BY <2>2 DEF Body
    <3> QED
      BY <3>1, Zenon
  <2> QED
    BY <2>1, <2>2
<1> HIDE DEF s, k, x, q, b
<1>5. \/ b.answer[1] \notin Commits /\ b.answer \in Replies
      \/ Replays(b, s, k, x)
      \/ Posts(b, p, s, k, x, q)
  BY <1>1, <1>2, <1>3, <1>4, PostBodyIs
<1>6. CASE Replays(b, s, k, x)
  <2>1. /\ s[Dedup(k)] # None /\ s[Dedup(k)].status = "POSTED" /\ s[Dedup(k)].payload = x
        /\ b.answer = <<"Entry", s[Dedup(k)].entry>>
        /\ b.reads = {Dedup(k)} /\ DOMAIN b.writes = {}
    BY <1>6 DEF Replays, NoWrites
  <2> DEFINE e == s[Dedup(k)].entry
  <2>2. /\ e \in Entries(s) /\ s[Entry(e)].payload = x
    BY <2>1, <1>1, <1>2 DEF Sound, ClaimsAgree
  <2>3. e \in Procs /\ s[Entry(e)] # None
    BY <2>2 DEF Entries
  <2>4. s[Entry(e)].key = k
    BY <2>1, <2>3, <1>1, <1>2 DEF Sound, EachKeyOnce
  <2> HIDE DEF e
  <2>5. db[Entry(e)] = s[Entry(e)]
    BY <2>3, <1>0 DEF SnapshotOf
  <2>6. b.answer = <<"Entry", e>>
    BY <2>1 DEF e
  <2>7. AnswerRight(b.answer, p, db)
    BY <2>2, <2>3, <2>4, <2>5, <2>6 DEF AnswerRight, Entries, k, x
  <2>8. b.answer \in Answers /\ b.answer # <<"Closed">>
    BY <2>3, <2>6 DEF Answers
  <2>9. b.reads \subseteq Rows
    BY <2>1, <1>1, RowsAre
  <2> QED
    BY <2>1, <2>7, <2>8, <2>9, CommitQuiet DEF b, s
<1>7. CASE Posts(b, p, s, k, x, q)
  BY <1>1, <1>7, CommitPosts DEF b, s, k, x
<1> QED
  BY <1>0, <1>5, <1>6, <1>7

\* A close or a reopen commits: it changes the period, or nothing that matters.
LEMMA CommitPeriod ==
    ASSUME LedgerInv, UNCHANGED plan, NEW p \in Procs, NEW held \in BOOLEAN,
           NEW lost \in BOOLEAN, Commit(p, held, lost), Op[p].kind \in {"close", "reopen"}
    PROVE  LedgerInv'
<1> DEFINE s == st[p].snap
           f == Op[p].period
           b == Body(p, s, held)
<1>0. /\ SnapshotOf(s, st[p].at, db, log) /\ st[p].pc = "txn" /\ b.answer[1] \in Commits
      /\ db[Entry(p)] = None
      /\ db' = Stored(db, b.writes) /\ log' = Append(log, Transaction(p, b, TRUE))
      /\ Finish(p, IF lost THEN <<"Infra">> ELSE b.answer)
      /\ b.answer # <<"Closed">> => certified' = certified
      /\ UNCHANGED <<seen, alarms, damaged>>
  BY CommitIs
<1>1. f \in Periods
  BY OpIs DEF LedgerInv, TypeInv
<1>2. Sound(s)
  BY <1>0 DEF SnapshotOf
<1>3. /\ Op[p].kind = "close" => b = CloseBody(p, s, f, held)
      /\ Op[p].kind = "reopen" => b = ReopenBody(s, f)
  BY DEF Body
<1> HIDE DEF s, f, b
<1>4. \/ b.answer[1] \notin Commits /\ b.answer \in Replies
      \/ Quiet(b, {Closing(f)})
      \/ Op[p].kind = "close" /\ Closes(b, p, s, f)
      \/ Op[p].kind = "reopen" /\ Reopens(b, f)
  BY <1>1, <1>2, <1>3, CloseBodyIs, ReopenBodyIs
<1>5. CASE Quiet(b, {Closing(f)})
  <2>1. /\ b.answer \in Replies /\ b.answer # <<"Closed">>
        /\ b.reads \subseteq Rows /\ DOMAIN b.writes \subseteq {Closing(f)}
        /\ \A r \in DOMAIN b.writes : b.writes[r] = "CLOSING"
    BY <1>5 DEF Quiet
  <2>2. b.answer \in Answers /\ AnswerRight(b.answer, p, db)
    BY <2>1, RepliesAre DEF AnswerRight
  <2>3. DOMAIN b.writes \subseteq {Freeze} \cup {Closing(g) : g \in Periods}
    BY <2>1, <1>1
  <2>4. /\ Freeze \notin DOMAIN b.writes
        /\ \A r \in DOMAIN b.writes : b.writes[r] \in Values
    BY <2>1, RowNames DEF Values, Cells
  <2> QED
    BY <2>1, <2>2, <2>3, <2>4, CommitQuiet DEF b, s
<1>6. CASE Op[p].kind = "close" /\ Closes(b, p, s, f)
  BY <1>6, CommitCloses DEF b, s, f
<1>7. CASE Op[p].kind = "reopen" /\ Reopens(b, f)
  <2> DEFINE w == b.writes
             t == Transaction(p, b, TRUE)
             a == IF lost THEN <<"Infra">> ELSE b.answer
  <2>1. /\ b.answer = <<"Reopened">>
        /\ b.reads = {Period(f), Closing(f)}
        /\ w = [r \in {Period(f), Closing(f)} |-> IF r = Period(f) THEN "OPEN" ELSE "REOPENED"]
    BY <1>7 DEF Reopens
  <2>2. a \in Replies /\ b.answer # <<"Closed">>
    BY <2>1 DEF Replies, Words
  <2>3. a \in Answers /\ AnswerRight(a, p, db)
    BY <2>2, RepliesAre DEF AnswerRight
  <2> HIDE DEF w, t, a
  <2>4. /\ DOMAIN w = {Period(f), Closing(f)} /\ w[Period(f)] = "OPEN"
        /\ \A r \in DOMAIN w : w[r] \in Values
        /\ \A e \in Procs : Entry(e) \notin DOMAIN w
        /\ \A g \in Periods : Period(g) \in DOMAIN w => g = f
        /\ DOMAIN w \subseteq Rows /\ b.reads \subseteq Rows
    BY <2>1, <1>1, RowNames, RowsAre DEF Values, Cells
  <2>4a. b.reads \subseteq Rows /\ DOMAIN b.writes \subseteq Rows
    BY <2>4 DEF w
  <2>5. /\ t \in Transactions
        /\ t.pos = Len(log) + 1 /\ t.at <= Len(log) /\ t.writes = DOMAIN w
    BY <2>4a, TransactionIs DEF t, w
  <2>6. Follows(t, w, db, log)
    BY <2>4, <2>5 DEF Follows
  <2>7. CommitsAs(p, w, t, a)
    BY <1>0, <2>6 DEF CommitsAs, w, t, a
  <2> QED
    BY <1>0, <1>1, <2>2, <2>3, <2>4, <2>7, OpenInv
<1> QED
  BY <1>0, <1>4, <1>5, <1>6, <1>7

\* The verifier's freeze commits: it has found damage.
LEMMA CommitFreeze ==
    ASSUME LedgerInv, UNCHANGED plan, NEW p \in Procs, NEW held \in BOOLEAN,
           NEW lost \in BOOLEAN, Commit(p, held, lost), Op[p].kind = "freeze"
    PROVE  LedgerInv'
<1> DEFINE s == st[p].snap
           b == Body(p, s, held)
<1>0. st[p].pc = "txn"
  BY CommitIs
<1>1. b = FreezeBody(s)
  BY DEF Body
<1> HIDE DEF b, s
<1>2. Freezes(b)
  BY <1>1, FreezeBodyIs
<1>3. damaged # {}
  BY <1>0 DEF LedgerInv, CallInv
<1>4. /\ b.answer = <<"Frozen">> /\ b.reads = {Freeze} /\ DOMAIN b.writes \subseteq {Freeze}
  BY <1>2 DEF Freezes
<1>4a. \A r \in DOMAIN b.writes : b.writes[r] = TRUE
  BY <1>2 DEF Freezes
<1>5. b.answer \in Replies /\ b.answer # <<"Closed">>
  BY <1>4 DEF Replies, Words
<1>6. b.answer \in Answers /\ AnswerRight(b.answer, p, db)
  BY <1>5, RepliesAre DEF AnswerRight
<1>7. b.reads \subseteq Rows /\ DOMAIN b.writes \subseteq {Freeze} \cup {Closing(f) : f \in Periods}
  BY <1>4, RowsAre
<1>8. \A r \in DOMAIN b.writes : b.writes[r] \in Values
  <2>1. TRUE \in Values
    BY Zenon DEF Values
  <2> QED
    BY <2>1, <1>4a, Zenon
<1> QED
  BY <1>3, <1>4a, <1>5, <1>6, <1>7, <1>8, CommitQuiet DEF b, s

\* Every commit keeps the invariant, whatever its body did.
LEMMA CommitStep ==
    ASSUME LedgerInv, UNCHANGED plan, NEW p \in Transactional, NEW held \in BOOLEAN,
           NEW lost \in BOOLEAN, Commit(p, held, lost)
    PROVE  LedgerInv'
<1>1. p \in Procs /\ Op[p].kind \in {"post", "apply", "close", "reopen", "freeze"}
  BY DEF Transactional, Doing
<1> QED
  BY <1>1, CommitPost, CommitPeriod, CommitFreeze

-----------------------------------------------------------------------------
(***************************************************************************)
(* Statements at the default isolation.                                    *)
(***************************************************************************)

\* A statement is a transaction that reads nothing the others depend on.
LEMMA StatementIs ==
    ASSUME LedgerInv, NEW p \in Procs, NEW w, DOMAIN w \subseteq Rows, Statement(p, w),
           \A e \in Procs : Entry(e) \notin DOMAIN w,
           \A f \in Periods : Period(f) \in DOMAIN w => w[Period(f)] # "CLOSED",
           NEW a, Finish(p, a), UNCHANGED <<plan, seen, alarms, damaged>>
    PROVE  CommitsAs(p, w, Transaction(p, [reads |-> {}, writes |-> w], FALSE), a)
<1> DEFINE b == [reads |-> {}, writes |-> w]
           t == Transaction(p, b, FALSE)
<1>1. b.reads \subseteq Rows /\ DOMAIN b.writes \subseteq Rows /\ b.writes = w
  OBVIOUS
<1>2. db' = Stored(db, w) /\ log' = Append(log, t)
  BY DEF Statement, Store, Stored
<1> HIDE DEF b
<1>3. /\ t \in Transactions
      /\ t.pos = Len(log) + 1 /\ t.at <= Len(log) /\ t.writes = DOMAIN w
  BY <1>1, TransactionIs
<1> HIDE DEF t
<1>4. Follows(t, w, db, log)
  BY <1>3 DEF Follows
<1> QED
  BY <1>2, <1>4 DEF CommitsAs, t, b

\* AllocationService::enqueue_allocation claims the key and queues the payload.
LEMMA IntakeQueues ==
    ASSUME LedgerInv, UNCHANGED plan, NEW p \in Procs, NEW k \in Keys, NEW x \in Payloads,
           db[Dedup(k)] = None, db[Entry(p)] = None,
           Statement(p, [r \in {Dedup(k), Queue(k)} |->
                           IF r = Queue(k) THEN [payload |-> x, status |-> "QUEUED"]
                           ELSE [payload |-> x, status |-> "QUEUED", entry |-> None]]),
           Finish(p, <<"Queued">>), UNCHANGED <<seen, alarms, damaged, certified>>
    PROVE  LedgerInv'
<1> DEFINE w == [r \in {Dedup(k), Queue(k)} |->
                   IF r = Queue(k) THEN [payload |-> x, status |-> "QUEUED"]
                   ELSE [payload |-> x, status |-> "QUEUED", entry |-> None]]
           t == Transaction(p, [reads |-> {}, writes |-> w], FALSE)
<1>1. /\ DOMAIN w = {Dedup(k), Queue(k)}
      /\ w[Queue(k)] = [payload |-> x, status |-> "QUEUED"]
      /\ w[Dedup(k)] = [payload |-> x, status |-> "QUEUED", entry |-> None]
  BY RowNames
<1>2. Statement(p, w)
  OBVIOUS
<1> HIDE DEF w, t
<1>3. /\ DOMAIN w \subseteq Rows
      /\ \A e \in Procs : Entry(e) \notin DOMAIN w
      /\ \A f \in Periods : Period(f) \notin DOMAIN w
  BY <1>1, RowNames, RowsAre
<1>4. CommitsAs(p, w, t, <<"Queued">>)
  BY <1>2, <1>3, StatementIs DEF t
<1>5. db' = Stored(db, w)
  BY <1>4 DEF CommitsAs
<1>6. /\ [payload |-> x, status |-> "QUEUED"] \in Values
      /\ [payload |-> x, status |-> "QUEUED", entry |-> None] \in Values
  <2>1. /\ [payload |-> x, status |-> "QUEUED"] \in QueueRows
        /\ [payload |-> x, status |-> "QUEUED", entry |-> None] \in DedupRows
    BY DEF DedupRows, QueueRows
  <2> QED
    BY <2>1 DEF Values, Cells
<1>7. Sound(db) /\ db \in [Rows -> Values]
  BY DEF LedgerInv, Sound
<1>8. \A r \in DOMAIN w : w[r] \in Values
  BY <1>1, <1>6
<1>9. db' \in [Rows -> Values]
  BY <1>5, <1>7, <1>8, StoredValues
<1>10. QueuedOnto(db', db, k, x)
  <2>1. \A j \in Keys : db'[Dedup(j)] = IF j = k THEN [payload |-> x, status |-> "QUEUED", entry |-> None]
                                     ELSE db[Dedup(j)]
    BY <1>1, <1>5, RowNames, RowsAre, StoredAt
  <2>2. \A j \in Keys : db'[Queue(j)] = IF j = k THEN [payload |-> x, status |-> "QUEUED"]
                                     ELSE db[Queue(j)]
    BY <1>1, <1>5, RowNames, RowsAre, StoredAt
  <2>3. \A f \in Periods : db'[Period(f)] = db[Period(f)]
    BY <1>1, <1>5, RowNames, RowsAre, StoredAt
  <2>4. \A e \in Procs : db'[Entry(e)] = db[Entry(e)] /\ db'[Event(e)] = db[Event(e)]
    BY <1>1, <1>5, RowNames, RowsAre, StoredAt
  <2>5. /\ db'[Tip] = db[Tip] /\ db'[Cache] = db[Cache]
        /\ db'[Baseline] = db[Baseline] /\ db'[Freeze] = db[Freeze]
    BY <1>1, <1>5, RowNames, RowsAre, StoredAt
  <2> QED
    BY <2>1, <2>2, <2>3, <2>4, <2>5 DEF QueuedOnto
<1>11. Sound(db')
  BY <1>7, <1>9, <1>10, QueueSound
<1>12. /\ \A e \in Procs : db'[Entry(e)] = db[Entry(e)]
       /\ Entries(db') = Entries(db)
  BY <1>10, SameEntries DEF QueuedOnto
<1>13. Grows(db', db, p)
  <2>1. \A e \in Entries(db) : db'[Entry(e)] = db[Entry(e)]
    BY <1>12 DEF Entries
  <2>2. ASSUME NEW j \in Keys, db[Queue(j)] # None
        PROVE  db'[Queue(j)] # None /\ db'[Queue(j)].payload = db[Queue(j)].payload
    <3>1. j # k
      BY <2>2, <1>7 DEF Sound, ClaimsAgree
    <3> QED
      BY <3>1, <2>2, <1>10 DEF QueuedOnto
  <2>3. db'[Tip] = db[Tip]
    BY <1>10 DEF QueuedOnto
  <2> QED
    BY <2>1, <2>2, <2>3, <1>12 DEF Grows
<1>14. <<"Queued">> \in Answers /\ AnswerRight(<<"Queued">>, p, db)
  <2>1. <<"Queued">> \in Replies
    BY DEF Replies, Words
  <2> QED
    BY <2>1, RepliesAre DEF AnswerRight
<1>15. /\ EntriesAsked' /\ AnswerRight(<<"Queued">>, p, db')
       /\ \A fs : EntriesIn(db', fs) = EntriesIn(db, fs)
  BY <1>12, <1>14, AsideKeeps
<1>16. CertifiedInv'
  BY <1>10, <1>15 DEF LedgerInv, CertifiedInv, ClosedIsCertified, QueuedOnto
<1>17. BaselineInv'
  BY <1>10, <1>12 DEF LedgerInv, BaselineInv, QueuedOnto
<1>18. NoFalseFreeze'
  BY <1>10 DEF LedgerInv, NoFalseAlarm, NoFalseFreeze, QueuedOnto
<1> QED
  BY <1>4, <1>11, <1>13, <1>14, <1>15, <1>16, <1>17, <1>18, CommitInv

-----------------------------------------------------------------------------
(***************************************************************************)
(* Steps that commit nothing.                                              *)
(***************************************************************************)

\* A step of p that leaves the database alone.
LocalTo(p) ==
    /\ st' \in [Procs -> Callers]
    /\ \A q \in Procs \ {p} : st'[q] = st[q]
    /\ st'[p].at <= Len(log)
    /\ DOMAIN seen' = DOMAIN seen
    /\ \A q \in DOMAIN seen \ {p} : seen'[q] = seen[q]
    /\ UNCHANGED <<plan, db, log, damaged, certified>>

\* A step of one caller that stores nothing keeps the invariant if the caller's part holds after it.
LEMMA LocalInv ==
    ASSUME LedgerInv, NEW p \in Procs, LocalTo(p), CallInv(p)',
           AnswerRight(st'[p].answer, p, db),
           Op[p].kind = "freeze" => VerifyInv(p)',
           Op[p].kind = "tick" => TickInv(p)',
           alarms' \subseteq [by : Procs, full : BOOLEAN, quiet : BOOLEAN], FullTieOutSound'
    PROVE  LedgerInv'
<1>0. UNCHANGED plan /\ UNCHANGED db /\ UNCHANGED log /\ UNCHANGED damaged /\ UNCHANGED certified
  BY DEF LocalTo
<1>1. Op' = Op /\ (\A ks : Doing(ks)' = Doing(ks))
  BY <1>0, SamePlan
<1>2. TypeInv'
  <2>1. /\ plan \in Plans /\ log \in Seq(Transactions) /\ st \in [Procs -> Callers]
        /\ \A q \in Procs : st[q].at <= Len(log)
        /\ DOMAIN seen = Doing({"tick", "freeze"}) /\ damaged \subseteq Procs
    BY DEF LedgerInv, TypeInv
  <2>2. \A q \in Procs : st'[q].at <= Len(log')
    BY <2>1, <1>0 DEF LocalTo
  <2> QED
    BY <2>1, <2>2, <1>0, <1>1 DEF TypeInv, LocalTo
<1>3. Sound(db)'
  BY <1>0 DEF LedgerInv
<1>4. EntriesAsked'
  BY <1>0, <1>1 DEF LedgerInv, EntriesAsked
<1>5. ASSUME NEW q \in Procs
      PROVE  CallInv(q)'
  <2>1. CASE q = p
    BY <2>1
  <2>2. CASE q # p
    <3>1. CallInv(q) /\ st'[q] = st[q]
      BY <2>2 DEF LedgerInv, LocalTo
    <3> QED
      BY <3>1, <1>0, <1>1 DEF CallInv, HasQueued
  <2> QED
    BY <2>1, <2>2
<1>6. LogSound(log, db)'
  BY <1>0 DEF LedgerInv
<1>7. AnswersAgree'
  <2>1. ASSUME NEW q \in Procs
        PROVE  AnswerRight(st[q].answer, q, db)'
    <3>1. CASE q = p
      BY <3>1, <1>0, <1>1 DEF AnswerRight
    <3>2. CASE q # p
      BY <3>2, <1>0, <1>1, AnswersAre DEF AnswerRight, LedgerInv, LocalTo
    <3> QED
      BY <3>1, <3>2
  <2>2. (AnswersAgree <=> \A q \in Procs : AnswerRight(st[q].answer, q, db))'
    BY DEF AnswersAgree, AnswerRight, Doing
  <2> QED
    BY <2>1, <2>2
<1>8. CertifiedInv' /\ BaselineInv'
  BY <1>0, <1>1 DEF LedgerInv, CertifiedInv, ClosedIsCertified, BaselineInv
<1>9. ASSUME NEW q \in Doing({"freeze"})'
      PROVE  VerifyInv(q)'
  <2>0. VerifyInv(q) /\ q \in Procs /\ Op[q].kind = "freeze" /\ q \in DOMAIN seen
    BY <1>1 DEF LedgerInv, TypeInv, Doing
  <2>1. CASE q = p
    BY <2>0, <2>1
  <2>2. CASE q # p
    <3>1. seen'[q] = seen[q]
      BY <2>0, <2>2 DEF LocalTo
    <3> QED
      BY <2>0, <3>1, <1>0 DEF VerifyInv
  <2> QED
    BY <2>1, <2>2
<1>10. ASSUME NEW q \in Doing({"tick"})'
       PROVE  TickInv(q)'
  <2>0. TickInv(q) /\ q \in Procs /\ Op[q].kind = "tick" /\ q \in DOMAIN seen
    BY <1>1 DEF LedgerInv, TypeInv, Doing
  <2>1. CASE q = p
    BY <2>0, <2>1
  <2>2. CASE q # p
    <3>1. seen'[q] = seen[q] /\ st'[q] = st[q]
      BY <2>0, <2>2 DEF LocalTo
    <3> QED
      BY <2>0, <3>1, <1>0 DEF TickInv
  <2> QED
    BY <2>1, <2>2
<1>11. NoFalseFreeze'
  BY <1>0 DEF LedgerInv, NoFalseAlarm, NoFalseFreeze
<1> QED
  BY <1>2, <1>3, <1>4, <1>5, <1>6, <1>7, <1>8, <1>9, <1>10, <1>11 DEF LedgerInv, NoFalseAlarm

\* A step that changes p's own record only.
LEMMA CallerInv ==
    ASSUME LedgerInv, NEW p \in Procs, Op[p].kind # "tick",
           st' \in [Procs -> Callers], \A q \in Procs \ {p} : st'[q] = st[q],
           st'[p].at <= Len(log), CallInv(p)', AnswerRight(st'[p].answer, p, db),
           UNCHANGED <<plan, db, log, seen, alarms, damaged, certified>>
    PROVE  LedgerInv'
<1>1. LocalTo(p)
  BY DEF LocalTo
<1>2. Op' = Op
  BY SamePlan
<1>3. Op[p].kind = "freeze" => VerifyInv(p)'
  <2>1. Op[p].kind = "freeze" => VerifyInv(p)
    BY DEF LedgerInv, Doing
  <2> QED
    BY <2>1 DEF VerifyInv
<1>4. alarms' \subseteq [by : Procs, full : BOOLEAN, quiet : BOOLEAN] /\ FullTieOutSound'
  BY <1>2 DEF LedgerInv, TypeInv, NoFalseAlarm, FullTieOutSound
<1> QED
  BY <1>1, <1>3, <1>4, LocalInv

\* p is told something and is done.
LEMMA FinishInv ==
    ASSUME LedgerInv, NEW p \in Procs, Op[p].kind # "tick", NEW a \in Replies, Finish(p, a),
           UNCHANGED <<plan, db, log, seen, alarms, damaged, certified>>
    PROVE  LedgerInv'
<1>0. st \in [Procs -> Callers] /\ Len(log) \in Nat
  BY DEF LedgerInv, TypeInv
<1>1. a \in Answers /\ AnswerRight(a, p, db)
  BY RepliesAre DEF AnswerRight
<1>2. /\ st' \in [Procs -> Callers]
      /\ st'[p].pc = "done" /\ st'[p].answer = a /\ st'[p].at = 0
      /\ \A q \in Procs \ {p} : st'[q] = st[q]
  BY <1>0, <1>1, FinishIs
<1>3. CallInv(p)'
  BY <1>2 DEF CallInv
<1>4. st'[p].at <= Len(log)
  BY <1>0, <1>2
<1> QED
  BY <1>1, <1>2, <1>3, <1>4, CallerInv

\* An attempt starts on the rows as they are.
LEMMA StartInv ==
    ASSUME LedgerInv, NEW p \in Procs, Op[p].kind # "tick", Starts(p), st[p].pc # "done",
           Op[p].kind = "apply" => HasQueued(db, p),
           Op[p].kind = "freeze" => damaged # {},
           UNCHANGED <<plan, db, log, seen, alarms, damaged, certified>>
    PROVE  LedgerInv'
<1>0. st \in [Procs -> Callers] /\ Len(log) \in Nat /\ db \in [Rows -> Values] /\ Sound(db)
  BY DEF LedgerInv, TypeInv, Sound
<1>1. /\ st' \in [Procs -> Callers]
      /\ st'[p].pc = "txn" /\ st'[p].snap = db /\ st'[p].at = Len(log)
      /\ st'[p].answer = st[p].answer
      /\ \A q \in Procs \ {p} : st'[q] = st[q]
  BY <1>0, StartIs
<1>2. SnapshotOf(db, Len(log), db, log)
  BY <1>0 DEF SnapshotOf
<1>3. db[Entry(p)] = None
  BY DEF LedgerInv, CallInv
<1>4. Op' = Op
  BY SamePlan
<1>4a. db[Baseline] \subseteq db[Cache]
  BY DEF LedgerInv, BaselineInv
<1>5. CallInv(p)'
  BY <1>1, <1>2, <1>3, <1>4, <1>4a DEF CallInv, HasQueued
<1>6. AnswerRight(st'[p].answer, p, db)
  BY <1>1, AnswersAre DEF LedgerInv
<1>7. st'[p].at <= Len(log)
  BY <1>0, <1>1
<1> QED
  BY <1>1, <1>5, <1>6, <1>7, CallerInv

\* The start of a call keeps the invariant.
LEMMA BeginStep ==
    ASSUME LedgerInv, UNCHANGED plan, NEW p \in Transactional, Begin(p)
    PROVE  LedgerInv'
<1>0. p \in Procs /\ Op[p].kind \in {"post", "apply", "close", "reopen", "freeze"}
  BY DEF Transactional, Doing
<1>1. Starts(p) /\ st[p].pc # "done" /\ UNCHANGED <<db, log, seen, alarms, damaged, certified>>
  BY DEF Begin, Starts
<1>2. Op[p].kind = "apply" => HasQueued(db, p)
  <2>1. Op[p].kind = "apply" =>
          db[Queue(Op[p].key)] = [payload |-> Op[p].payload, status |-> "QUEUED"]
    BY DEF Begin
  <2>2. Op[p].kind = "apply" => Op[p].payload \in Payloads
    BY <1>0, OpIs DEF LedgerInv, TypeInv
  <2> QED
    BY <2>1, <2>2, RowsNotNone DEF HasQueued
<1>3. Op[p].kind = "freeze" => damaged # {}
  <2>1. Op[p].kind = "freeze" => VerifyInv(p) /\ seen[p] = <<"break">>
    BY <1>0 DEF Begin, LedgerInv, Doing
  <2> QED
    BY <2>1 DEF VerifyInv
<1> QED
  BY <1>0, <1>1, <1>2, <1>3, StartInv

\* A retry after a serialization failure starts from a new snapshot and keeps the invariant.
LEMMA AgainStep ==
    ASSUME LedgerInv, UNCHANGED plan, NEW p \in Transactional, Again(p)
    PROVE  LedgerInv'
<1>0. p \in Procs /\ Op[p].kind \in {"post", "apply", "close", "reopen", "freeze"}
  BY DEF Transactional, Doing
<1>1. Starts(p) /\ st[p].pc = "again" /\ UNCHANGED <<db, log, seen, alarms, damaged, certified>>
  BY DEF Again, Starts
<1>2. CallInv(p)
  BY <1>0 DEF LedgerInv
<1>3. /\ Op[p].kind = "apply" => HasQueued(db, p)
      /\ Op[p].kind = "freeze" => damaged # {}
  BY <1>1, <1>2 DEF CallInv
<1> QED
  BY <1>0, <1>1, <1>3, StartInv

\* A transaction the database aborts leaves no trace but its caller's answer.
LEMMA ConflictStep ==
    ASSUME LedgerInv, UNCHANGED plan, NEW p \in Transactional, Conflict(p)
    PROVE  LedgerInv'
<1>0. p \in Procs /\ Op[p].kind \in {"post", "apply", "close", "reopen", "freeze"}
  BY DEF Transactional, Doing
<1>1. plan \in Plans /\ st \in [Procs -> Callers] /\ Len(log) \in Nat
  BY DEF LedgerInv, TypeInv
<1>2. /\ st' \in [Procs -> Callers]
      /\ st'[p].pc \in {"again", "done"} /\ st'[p].at = 0
      /\ st'[p].answer \in {None, <<"ConcurrentModification">>}
      /\ \A q \in Procs \ {p} : st'[q] = st[q]
  BY <1>0, <1>1, ConflictIs
<1>3. st[p].pc = "txn" /\ UNCHANGED <<db, log, seen, alarms, damaged, certified>>
  BY DEF Conflict
<1>4. Op' = Op
  BY SamePlan
<1>5. CallInv(p)'
  <2>1. CallInv(p)
    BY <1>0 DEF LedgerInv
  <2> QED
    BY <2>1, <1>2, <1>3, <1>4 DEF CallInv, HasQueued
<1>6. AnswerRight(st'[p].answer, p, db)
  <2>1. <<"ConcurrentModification">> \in Replies
    BY DEF Replies, Words
  <2> QED
    BY <2>1, <1>2, RepliesAre DEF AnswerRight
<1>7. st'[p].at <= Len(log)
  BY <1>1, <1>2
<1> QED
  BY <1>0, <1>2, <1>3, <1>5, <1>6, <1>7, CallerInv

\* A replay and a posting answer with an entry.
LEMMA EntryAnswers ==
    ASSUME NEW b, NEW p, NEW s, NEW k, NEW x, NEW q,
           Replays(b, s, k, x) \/ Posts(b, p, s, k, x, q)
    PROVE  b.answer[1] = "Entry"
<1>1. CASE Replays(b, s, k, x)
  <2>1. b.answer = <<"Entry", s[Dedup(k)].entry>>
    BY <1>1 DEF Replays
  <2> QED
    BY <2>1
<1>2. CASE Posts(b, p, s, k, x, q)
  <2>1. b.answer = <<"Entry", p>>
    BY <1>2 DEF Posts
  <2> QED
    BY <2>1
<1> QED
  BY <1>1, <1>2

\* A body that does not commit answers with a word.
LEMMA RejectAnswers ==
    ASSUME LedgerInv, NEW p \in Transactional, NEW held \in BOOLEAN, st[p].pc = "txn",
           Body(p, st[p].snap, held).answer[1] \notin Commits
    PROVE  Body(p, st[p].snap, held).answer \in Replies
<1> DEFINE s == st[p].snap
           b == Body(p, s, held)
<1>0. p \in Procs /\ Op[p].kind \in {"post", "apply", "close", "reopen", "freeze"}
  BY DEF Transactional, Doing
<1>1. CallInv(p) /\ plan \in Plans
  BY <1>0 DEF LedgerInv, TypeInv
<1>2. Sound(s)
  BY <1>1 DEF CallInv, SnapshotOf
<1>2a. b.answer[1] \notin Commits
  OBVIOUS
<1> HIDE DEF s, b
<1>3. ASSUME Op[p].kind = "post" PROVE b.answer \in Replies
  <2>1. b = PostBody(p, s, Op[p].key, Op[p].payload, FALSE)
    BY <1>3 DEF Body, b
  <2>2. Op[p].key \in Keys /\ Op[p].payload \in Payloads
    BY <1>0, <1>1, <1>3, OpIs
  <2>3. \/ b.answer \in Replies \/ Replays(b, s, Op[p].key, Op[p].payload)
        \/ Posts(b, p, s, Op[p].key, Op[p].payload, FALSE)
    BY <2>1, <2>2, <1>0, <1>2, PostBodyIs
  <2> QED
    BY <2>3, <1>2a, EntryAnswers DEF Commits
<1>4. ASSUME Op[p].kind = "apply" PROVE b.answer \in Replies
  <2>1. b = PostBody(p, s, Op[p].key, Op[p].payload, TRUE)
    BY <1>4 DEF Body, b
  <2>2. Op[p].key \in Keys /\ Op[p].payload \in Payloads
    BY <1>0, <1>1, <1>4, OpIs
  <2>3. s[Queue(Op[p].key)] # None /\ s[Queue(Op[p].key)].payload = Op[p].payload
    BY <1>1, <1>4 DEF CallInv, HasQueued, s
  <2>4. \/ b.answer \in Replies \/ Replays(b, s, Op[p].key, Op[p].payload)
        \/ Posts(b, p, s, Op[p].key, Op[p].payload, TRUE)
    BY <2>1, <2>2, <2>3, <1>0, <1>2, PostBodyIs
  <2> QED
    BY <2>4, <1>2a, EntryAnswers DEF Commits
<1>5. ASSUME Op[p].kind = "close" PROVE b.answer \in Replies
  <2>1. b = CloseBody(p, s, Op[p].period, held)
    BY <1>5 DEF Body, b
  <2>2. Op[p].period \in Periods
    BY <1>0, <1>1, <1>5, OpIs
  <2>3. \/ b.answer \in Replies \/ Quiet(b, {Closing(Op[p].period)})
        \/ Closes(b, p, s, Op[p].period)
    BY <2>1, <2>2, <1>0, <1>2, CloseBodyIs
  <2> QED
    BY <2>3 DEF Quiet, Closes, Replies, Words
<1>6. ASSUME Op[p].kind = "reopen" PROVE b.answer \in Replies
  <2>1. b = ReopenBody(s, Op[p].period)
    BY <1>6 DEF Body, b
  <2>2. Op[p].period \in Periods
    BY <1>0, <1>1, <1>6, OpIs
  <2>3. \/ b.answer \in Replies \/ Quiet(b, {Closing(Op[p].period)})
        \/ Reopens(b, Op[p].period)
    BY <2>1, <2>2, <1>2, ReopenBodyIs
  <2> QED
    BY <2>3 DEF Quiet, Reopens, Replies, Words
<1>7. ASSUME Op[p].kind = "freeze" PROVE b.answer \in Replies
  <2>1. b = FreezeBody(s)
    BY <1>7 DEF Body, b
  <2> QED
    BY <2>1 DEF FreezeBody, Replies, Words
<1>8. b.answer \in Replies
  BY <1>0, <1>3, <1>4, <1>5, <1>6, <1>7
<1> QED
  BY <1>8 DEF s, b

\* A rejected call keeps the invariant: what it answers was true in its snapshot.
LEMMA RejectStep ==
    ASSUME LedgerInv, UNCHANGED plan, NEW p \in Transactional, Reject(p)
    PROVE  LedgerInv'
<1>0. p \in Procs /\ Op[p].kind \in {"post", "apply", "close", "reopen", "freeze"}
  BY DEF Transactional, Doing
<1>1. st[p].pc = "txn" /\ UNCHANGED <<db, log, seen, alarms, damaged, certified>>
  BY DEF Reject
<1>2. ASSUME NEW held \in BOOLEAN,
             Body(p, st[p].snap, held).answer[1] \in
                {"IdempotencyConflict", "Infra", "PeriodNotFound",
                 "TamperVerificationFailed", "PeriodClosed"},
             Finish(p, Body(p, st[p].snap, held).answer)
      PROVE  LedgerInv'
  <2>1. Body(p, st[p].snap, held).answer[1] \notin Commits
    BY <1>2 DEF Commits
  <2>2. Body(p, st[p].snap, held).answer \in Replies
    BY <2>1, <1>1, RejectAnswers
  <2> QED
    BY <2>2, <1>0, <1>1, <1>2, FinishInv
<1>3. CASE Finish(p, <<"Refused">>)
  <2>1. <<"Refused">> \in Replies
    BY DEF Replies, Words
  <2> QED
    BY <2>1, <1>0, <1>1, <1>3, FinishInv
<1> QED
  BY <1>2, <1>3 DEF Reject

\* The intake of a queued posting keeps the invariant.
LEMMA IntakeStep ==
    ASSUME LedgerInv, UNCHANGED plan, NEW p \in Doing({"intake"}), Intake(p)
    PROVE  LedgerInv'
<1>0. p \in Procs /\ Op[p].kind = "intake" /\ plan \in Plans
  BY DEF Doing, LedgerInv, TypeInv
<1>1. Op[p].key \in Keys /\ Op[p].payload \in Payloads
  BY <1>0, OpIs
<1>2. st[p].pc = "idle" /\ UNCHANGED <<seen, alarms, damaged, certified>>
  BY DEF Intake
<1>3. db[Entry(p)] = None
  BY <1>0, <1>2 DEF LedgerInv, CallInv
<1>4. CASE db[Dedup(Op[p].key)] = None
  <2>1. /\ Statement(p, [r \in {Dedup(Op[p].key), Queue(Op[p].key)} |->
                           IF r = Queue(Op[p].key) THEN [payload |-> Op[p].payload, status |-> "QUEUED"]
                           ELSE [payload |-> Op[p].payload, status |-> "QUEUED", entry |-> None]])
        /\ Finish(p, <<"Queued">>)
    BY <1>4 DEF Intake
  <2> QED
    BY <2>1, <1>0, <1>1, <1>2, <1>3, <1>4, IntakeQueues
<1>5. CASE db[Dedup(Op[p].key)] # None
  <2> DEFINE row == db[Dedup(Op[p].key)]
             a == IF row.payload # Op[p].payload THEN <<"IdempotencyConflict">>
                  ELSE IF row.status = "QUEUED" THEN <<"Queued">> ELSE <<"Infra">>
  <2>1. Finish(p, a) /\ UNCHANGED <<db, log>>
    BY <1>5 DEF Intake
  <2>2. a \in Replies
    BY DEF Replies, Words
  <2> QED
    BY <2>1, <2>2, <1>0, <1>2, FinishInv
<1> QED
  BY <1>4, <1>5

\* The opening of a fiscal period keeps the invariant.
LEMMA OpenPeriodStep ==
    ASSUME LedgerInv, UNCHANGED plan, NEW p \in Doing({"openPeriod"}), OpenPeriod(p)
    PROVE  LedgerInv'
<1> DEFINE f == Op[p].period
<1>0. p \in Procs /\ Op[p].kind = "openPeriod" /\ plan \in Plans
  BY DEF Doing, LedgerInv, TypeInv
<1>1. f \in Periods
  BY <1>0, OpIs
<1>2. /\ st[p].pc = "idle" /\ UNCHANGED <<seen, alarms, damaged, certified>>
      /\ Finish(p, <<"Opened">>)
  BY DEF OpenPeriod
<1>3. db[Entry(p)] = None
  BY <1>0, <1>2 DEF LedgerInv, CallInv
<1>4. <<"Opened">> \in Replies
  BY DEF Replies, Words
<1>5. CASE db[Period(f)] = "ABSENT"
  <2> DEFINE w == [r \in {Period(f)} |-> "OPEN"]
  <2>1. Statement(p, w)
    BY <1>5 DEF OpenPeriod
  <2>2. DOMAIN w = {Period(f)} /\ w[Period(f)] = "OPEN"
    OBVIOUS
  <2> HIDE DEF w, f
  <2>3. /\ DOMAIN w \subseteq Rows
        /\ \A e \in Procs : Entry(e) \notin DOMAIN w
        /\ \A g \in Periods : Period(g) \in DOMAIN w => w[Period(g)] # "CLOSED"
        /\ \A r \in DOMAIN w : w[r] \in Values
    BY <2>2, <1>1, RowNames, RowsAre DEF Values, Cells
  <2>4. CommitsAs(p, w, Transaction(p, [reads |-> {}, writes |-> w], FALSE), <<"Opened">>)
    BY <2>1, <2>3, <1>0, <1>2, StatementIs
  <2>5. <<"Opened">> \in Answers /\ AnswerRight(<<"Opened">>, p, db)
    BY <1>4, RepliesAre DEF AnswerRight
  <2> QED
    BY <2>2, <2>3, <2>4, <2>5, <1>0, <1>1, <1>2, <1>3, <1>5, OpenInv
<1>6. CASE db[Period(f)] # "ABSENT"
  <2>1. UNCHANGED <<db, log>>
    BY <1>6 DEF OpenPeriod
  <2> QED
    BY <2>1, <1>0, <1>2, <1>4, FinishInv
<1> QED
  BY <1>5, <1>6

-----------------------------------------------------------------------------
(***************************************************************************)
(* The verifier, the storage and the daily tie-out.                        *)
(***************************************************************************)

\* A statement of a reader.
LEMMA ReadInv ==
    ASSUME LedgerInv, UNCHANGED plan, NEW p \in Procs, Op[p].kind \in {"freeze", "tick"},
           NEW what, Read(p, what),
           Op[p].kind = "freeze" => VerifyInv(p)',
           Op[p].kind = "tick" => TickInv(p)'
    PROVE  LedgerInv'
<1>0. seen' = [seen EXCEPT ![p] = what] /\ UNCHANGED <<db, log, st, alarms, damaged, certified>>
  BY DEF Read
<1>1. /\ st \in [Procs -> Callers] /\ st[p].at <= Len(log)
      /\ alarms \subseteq [by : Procs, full : BOOLEAN, quiet : BOOLEAN]
  BY DEF LedgerInv, TypeInv
<1>2. LocalTo(p)
  BY <1>0, <1>1 DEF LocalTo
<1>3. Op' = Op
  BY SamePlan
<1>4. CallInv(p)'
  <2>1. CallInv(p)
    BY DEF LedgerInv
  <2> QED
    BY <2>1, <1>0, <1>3 DEF CallInv, HasQueued
<1>5. AnswerRight(st'[p].answer, p, db)
  BY <1>0, AnswersAre DEF LedgerInv
<1>6. alarms' \subseteq [by : Procs, full : BOOLEAN, quiet : BOOLEAN] /\ FullTieOutSound'
  BY <1>0, <1>1, <1>3 DEF LedgerInv, NoFalseAlarm, FullTieOutSound
<1> QED
  BY <1>2, <1>4, <1>5, <1>6, LocalInv

\* What a reader has just read is what it has seen.
LEMMA SeenIs ==
    ASSUME LedgerInv, NEW p \in Procs, Op[p].kind \in {"freeze", "tick"},
           NEW what, Read(p, what)
    PROVE  seen'[p] = what /\ UNCHANGED <<db, log, st, alarms, damaged, certified>>
<1>1. p \in DOMAIN seen
  BY DEF LedgerInv, TypeInv, Doing
<1> QED
  BY <1>1 DEF Read

\* From the tip the walk visits the whole journal.
LEMMA WalkFromTip ==
    ASSUME NEW d, LinearChain(d), d[Tip] \in Entries(d)
    PROVE  Walk(d, d[Tip]) = Entries(d)
<1>1. ASSUME NEW x \in Entries(d), NEW w \in SUBSET Entries(d), d[Tip] \in w,
             \A y \in w : d[Entry(y)].prev \in w \cup {None}
      PROVE  x \in w
  <2>1. w = Entries(d)
    BY <1>1 DEF LinearChain
  <2> QED
    BY <2>1
<1> QED
  BY <1>1 DEF Walk

\* The verifier's read of the tip keeps the invariant.
LEMMA VerifyTipStep ==
    ASSUME LedgerInv, UNCHANGED plan, NEW p \in Doing({"freeze"}), VerifyTip(p)
    PROVE  LedgerInv'
<1>0. p \in Procs /\ Op[p].kind = "freeze"
  BY DEF Doing
<1>1. db[Tip] \in Entries(db)
  BY DEF VerifyTip, LedgerInv, Sound, ChainEnds
<1>2. Read(p, <<"tip", db[Tip]>>)
  BY DEF VerifyTip
<1>3. seen'[p] = <<"tip", db[Tip]>> /\ db' = db
  BY <1>0, <1>2, SeenIs
<1>4. VerifyInv(p)'
  BY <1>1, <1>3 DEF VerifyInv
<1> QED
  BY <1>0, <1>2, <1>4, ReadInv

\* The verifier's walk along the chain keeps the invariant.
LEMMA VerifyWalkStep ==
    ASSUME LedgerInv, UNCHANGED plan, NEW p \in Doing({"freeze"}), VerifyWalk(p)
    PROVE  LedgerInv'
<1>0. p \in Procs /\ Op[p].kind = "freeze" /\ VerifyInv(p)
  BY DEF Doing, LedgerInv
<1>1. PICK t \in Entries(db) : seen[p] = <<"tip", t>>
  BY <1>0 DEF VerifyWalk, VerifyInv
<1> DEFINE walked == Walk(db, t)
           what == IF walked \cap damaged # {} THEN <<"break">> ELSE <<"walked", t, walked>>
<1>2. Read(p, what)
  BY <1>1 DEF VerifyWalk
<1>3. walked \in SUBSET Procs
  BY DEF Walk, Entries
<1>4. db[Tip] = t => walked = Entries(db)
  BY WalkFromTip DEF LedgerInv, Sound
<1> HIDE DEF walked
<1>5. seen'[p] = what /\ db' = db /\ damaged' = damaged
  BY <1>0, <1>2, SeenIs
<1>6. VerifyInv(p)'
  <2>1. CASE walked \cap damaged # {}
    <3>1. damaged # {}
      BY <2>1
    <3> QED
      BY <2>1, <3>1, <1>5 DEF VerifyInv
  <2>2. CASE walked \cap damaged = {}
    <3>1. seen'[p] = <<"walked", t, walked>>
      BY <2>2, <1>5
    <3> QED
      BY <3>1, <1>3, <1>4, <1>5 DEF VerifyInv
  <2> QED
    BY <2>1, <2>2
<1> QED
  BY <1>0, <1>2, <1>6, ReadInv

\* The verifier's search for orphans keeps the invariant.
LEMMA VerifyCountStep ==
    ASSUME LedgerInv, UNCHANGED plan, NEW p \in Doing({"freeze"}), VerifyCount(p)
    PROVE  LedgerInv'
<1>0. p \in Procs /\ Op[p].kind = "freeze" /\ VerifyInv(p)
  BY DEF Doing, LedgerInv
<1>1. PICK t \in Entries(db), w \in SUBSET Procs :
        seen[p] = <<"walked", t, w>> /\ (db[Tip] = t => w = Entries(db))
  BY <1>0 DEF VerifyCount, VerifyInv
<1> DEFINE what == OrphanCheck(p, w, t)
<1>2. Read(p, what)
  BY <1>1 DEF VerifyCount
<1>3. what = <<>> \/ (what = <<"recount", t>> /\ db[Tip] # t)
  BY <1>1 DEF OrphanCheck
<1> HIDE DEF what
<1>4. seen'[p] = what /\ db' = db
  BY <1>0, <1>2, SeenIs
<1>5. VerifyInv(p)'
  BY <1>3, <1>4 DEF VerifyInv
<1> QED
  BY <1>0, <1>2, <1>5, ReadInv

\* The verifier's second look after the tip moved keeps the invariant.
LEMMA VerifyRecountStep ==
    ASSUME LedgerInv, UNCHANGED plan, NEW p \in Doing({"freeze"}), VerifyRecount(p)
    PROVE  LedgerInv'
<1>0. p \in Procs /\ Op[p].kind = "freeze" /\ VerifyInv(p)
  BY DEF Doing, LedgerInv
<1>1. PICK t \in Entries(db) : seen[p] = <<"recount", t>> /\ db[Tip] # t
  BY <1>0 DEF VerifyRecount, VerifyInv
<1>2. Read(p, <<>>)
  BY <1>1 DEF VerifyRecount
<1>3. seen'[p] = <<>>
  BY <1>0, <1>2, SeenIs
<1>4. VerifyInv(p)'
  BY <1>3 DEF VerifyInv
<1> QED
  BY <1>0, <1>2, <1>4, ReadInv

\* The storage corrupts an entry: more is damaged.
LEMMA CorruptStep ==
    ASSUME LedgerInv, UNCHANGED plan, NEW e \in Procs, Corrupt(e)
    PROVE  LedgerInv'
<1>0. damaged' = damaged \cup {e} /\ UNCHANGED <<db, log, st, seen, alarms, certified>>
  BY DEF Corrupt
<1>1. damaged' # {}
  BY <1>0
<1>2. Op' = Op /\ (\A ks : Doing(ks)' = Doing(ks))
  BY SamePlan
<1>3. TypeInv'
  BY <1>0, <1>2 DEF LedgerInv, TypeInv
<1>4. Sound(db)' /\ LogSound(log, db)'
  BY <1>0 DEF LedgerInv
<1>5. EntriesAsked'
  BY <1>0, <1>2 DEF LedgerInv, EntriesAsked
<1>6. ASSUME NEW q \in Procs
      PROVE  CallInv(q)'
  <2>1. CallInv(q)
    BY DEF LedgerInv
  <2> QED
    BY <2>1, <1>0, <1>1, <1>2 DEF CallInv, HasQueued
<1>7. AnswersAgree'
  BY <1>0, <1>2 DEF LedgerInv, AnswersAgree
<1>8. CertifiedInv' /\ BaselineInv'
  BY <1>0, <1>2 DEF LedgerInv, CertifiedInv, ClosedIsCertified, BaselineInv
<1>9. ASSUME NEW q \in Doing({"freeze"})'
      PROVE  VerifyInv(q)'
  <2>1. VerifyInv(q)
    BY <1>2 DEF LedgerInv
  <2> QED
    BY <2>1, <1>0, <1>1 DEF VerifyInv
<1>10. ASSUME NEW q \in Doing({"tick"})'
       PROVE  TickInv(q)'
  <2>1. TickInv(q)
    BY <1>2 DEF LedgerInv
  <2> QED
    BY <2>1, <1>0 DEF TickInv
<1>11. NoFalseAlarm'
  BY <1>0, <1>1, <1>2 DEF LedgerInv, NoFalseAlarm, NoFalseFreeze, FullTieOutSound
<1> QED
  BY <1>3, <1>4, <1>5, <1>6, <1>7, <1>8, <1>9, <1>10, <1>11 DEF LedgerInv

\* The tie-out ends; over the full fold it raises an alarm only if something was
\* committed meanwhile.
LEMMA VerdictInv ==
    ASSUME LedgerInv, UNCHANGED plan, NEW p \in Procs, Op[p].kind = "tick",
           NEW full \in BOOLEAN, NEW cache, NEW entries, NEW counted,
           Verdict(p, full, cache, entries, counted),
           full /\ Len(log) = st[p].at => counted /\ TiesOut(cache, entries)
    PROVE  LedgerInv'
<1> DEFINE z == Len(log) = st[p].at
           al == [by |-> p, full |-> full, quiet |-> z]
<1>0. /\ \/ alarms' = alarms
         \/ ~(counted /\ TiesOut(cache, entries)) /\ alarms' = alarms \cup {al}
      /\ seen' = [seen EXCEPT ![p] = <<>>]
      /\ Finish(p, <<"TiedOut">>)
      /\ UNCHANGED <<db, log, damaged, certified>>
  BY DEF Verdict
<1>1. st \in [Procs -> Callers] /\ Len(log) \in Nat /\ p \in DOMAIN seen
      /\ alarms \subseteq [by : Procs, full : BOOLEAN, quiet : BOOLEAN]
  BY DEF LedgerInv, TypeInv, Doing
<1>2. <<"TiedOut">> \in Replies
  BY DEF Replies, Words
<1>3. <<"TiedOut">> \in Answers /\ AnswerRight(<<"TiedOut">>, p, db)
  BY <1>2, RepliesAre DEF AnswerRight
<1>4. /\ st' \in [Procs -> Callers]
      /\ st'[p].pc = "done" /\ st'[p].answer = <<"TiedOut">> /\ st'[p].at = 0
      /\ \A q \in Procs \ {p} : st'[q] = st[q]
  BY <1>0, <1>1, <1>3, FinishIs
<1>5. seen'[p] = <<>> /\ DOMAIN seen' = DOMAIN seen
      /\ \A q \in DOMAIN seen \ {p} : seen'[q] = seen[q]
  BY <1>0, <1>1
<1>6. LocalTo(p)
  BY <1>0, <1>1, <1>4, <1>5 DEF LocalTo
<1>7. CallInv(p)' /\ TickInv(p)'
  BY <1>4, <1>5, SamePlan DEF CallInv, TickInv
<1>8. al \in [by : Procs, full : BOOLEAN, quiet : BOOLEAN] /\ al.quiet = z /\ al.full = full /\ z \in BOOLEAN
  <2>1. z \in BOOLEAN
    OBVIOUS
  <2> HIDE DEF z
  <2> QED
    BY <2>1
<1>9. alarms' \subseteq [by : Procs, full : BOOLEAN, quiet : BOOLEAN]
  BY <1>0, <1>1, <1>8
<1>10. FullTieOutSound'
  <2>1. \A a \in alarms : a.full => ~a.quiet
    BY DEF LedgerInv, NoFalseAlarm, FullTieOutSound
  <2>2. full /\ ~(counted /\ TiesOut(cache, entries)) => ~z
    OBVIOUS
  <2> HIDE DEF z, al
  <2>3. ASSUME NEW a \in alarms', a.full
        PROVE  ~a.quiet
    BY <2>1, <2>2, <2>3, <1>0, <1>8, Zenon
  <2> QED
    BY <2>3 DEF FullTieOutSound
<1> QED
  BY <1>3, <1>4, <1>6, <1>7, <1>9, <1>10, LocalInv

\* The tie-out's read of its baseline keeps the invariant.
LEMMA TickBaselineStep ==
    ASSUME LedgerInv, UNCHANGED plan, NEW p \in Doing({"tick"}), NEW full \in BOOLEAN,
           TickBaseline(p, full)
    PROVE  LedgerInv'
<1>0. p \in Procs /\ Op[p].kind = "tick" /\ st \in [Procs -> Callers] /\ Len(log) \in Nat
      /\ p \in DOMAIN seen /\ alarms \subseteq [by : Procs, full : BOOLEAN, quiet : BOOLEAN]
  BY DEF Doing, LedgerInv, TypeInv
<1>1. /\ st[p].pc = "idle"
      /\ seen' = [seen EXCEPT ![p] =
                  IF full \/ db[Baseline] = {} THEN <<"full">> ELSE <<"baseline", db[Baseline]>>]
      /\ st' = [st EXCEPT ![p].at = Len(log)]
      /\ UNCHANGED <<db, log, alarms, damaged, certified>>
  BY DEF TickBaseline
<1>2. /\ st' \in [Procs -> Callers]
      /\ st'[p].at = Len(log) /\ st'[p].pc = "idle" /\ st'[p].answer = st[p].answer
      /\ \A q \in Procs \ {p} : st'[q] = st[q]
  BY <1>0, <1>1 DEF Callers
<1>3. seen'[p] = IF full \/ db[Baseline] = {} THEN <<"full">> ELSE <<"baseline", db[Baseline]>>
  BY <1>0, <1>1
<1>4. LocalTo(p)
  BY <1>0, <1>1, <1>2 DEF LocalTo
<1>5. db[Baseline] \in SUBSET Procs
  BY DEF LedgerInv, Sound, RowsTyped
<1>6. TickInv(p)'
  <2>1. CASE full \/ db[Baseline] = {}
    BY <2>1, <1>3 DEF TickInv
  <2>2. CASE ~full /\ db[Baseline] # {}
    BY <2>2, <1>1, <1>3, <1>5 DEF TickInv
  <2> QED
    BY <2>1, <2>2
<1>7. CallInv(p)'
  <2>1. CallInv(p) /\ Op' = Op
    BY <1>0, SamePlan DEF LedgerInv
  <2> QED
    BY <2>1, <1>0, <1>1, <1>2 DEF CallInv
<1>8. AnswerRight(st'[p].answer, p, db)
  BY <1>0, <1>2, AnswersAre DEF LedgerInv
<1>9. alarms' \subseteq [by : Procs, full : BOOLEAN, quiet : BOOLEAN] /\ FullTieOutSound'
  BY <1>0, <1>1, SamePlan DEF LedgerInv, NoFalseAlarm, FullTieOutSound
<1> QED
  BY <1>0, <1>4, <1>6, <1>7, <1>8, <1>9, LocalInv

\* The tie-out's read of the cached balances keeps the invariant.
LEMMA TickCachesStep ==
    ASSUME LedgerInv, UNCHANGED plan, NEW p \in Doing({"tick"}), TickCaches(p)
    PROVE  LedgerInv'
<1>0. p \in Procs /\ Op[p].kind = "tick"
  BY DEF Doing
<1>1. Read(p, <<"cache", db[Cache]>>)
  BY DEF TickCaches
<1>2. seen'[p] = <<"cache", db[Cache]>> /\ db' = db
  BY <1>0, <1>1, SeenIs
<1>3. db[Cache] \in SUBSET Procs
  BY DEF LedgerInv, Sound, RowsTyped
<1>4. TickInv(p)'
  BY <1>2, <1>3 DEF TickInv
<1> QED
  BY <1>0, <1>1, <1>4, ReadInv

\* The full tie-out's verdict keeps the invariant.
LEMMA TickFoldStep ==
    ASSUME LedgerInv, UNCHANGED plan, NEW p \in Doing({"tick"}), TickFold(p)
    PROVE  LedgerInv'
<1>0. p \in Procs /\ Op[p].kind = "tick" /\ TickInv(p)
  BY DEF Doing, LedgerInv
<1>1. PICK c \in SUBSET Procs :
        seen[p] = <<"cache", c>> /\ (Len(log) = st[p].at => c = db[Cache])
  BY <1>0 DEF TickFold, TickInv
<1>1a. seen[p][2] = c
  BY <1>1
<1>1b. Verdict(p, TRUE, seen[p][2], Entries(db), TRUE)
  BY Zenon DEF TickFold
<1>2. Verdict(p, TRUE, c, Entries(db), TRUE)
  BY <1>1a, <1>1b, Zenon
<1>3. Len(log) = st[p].at => TiesOut(c, Entries(db))
  BY <1>1 DEF LedgerInv, Sound, CacheIsJournal, TiesOut
<1> QED
  BY <1>0, <1>2, <1>3, VerdictInv

\* The tie-out's read of the periods keeps the invariant.
LEMMA TickPeriodsStep ==
    ASSUME LedgerInv, UNCHANGED plan, NEW p \in Doing({"tick"}), TickPeriods(p)
    PROVE  LedgerInv'
<1>0. p \in Procs /\ Op[p].kind = "tick" /\ TickInv(p)
  BY DEF Doing, LedgerInv
<1>1. PICK b \in SUBSET Procs :
        seen[p] = <<"baseline", b>> /\ b # {} /\ (Len(log) = st[p].at => b = db[Baseline])
  BY <1>0 DEF TickPeriods, TickInv
<1>2. Read(p, <<"periods", b, OpenPeriods(db)>>)
  BY <1>1 DEF TickPeriods
<1>3. seen'[p] = <<"periods", b, OpenPeriods(db)>> /\ UNCHANGED <<db, log, st>>
  BY <1>0, <1>2, SeenIs
<1>4. OpenPeriods(db) \in SUBSET Periods
  BY DEF OpenPeriods
<1>5. TickInv(p)'
  BY <1>1, <1>3, <1>4 DEF TickInv
<1> QED
  BY <1>0, <1>2, <1>5, ReadInv

\* The tie-out's read of the lines keeps the invariant.
LEMMA TickLinesStep ==
    ASSUME LedgerInv, UNCHANGED plan, NEW p \in Doing({"tick"}), TickLines(p)
    PROVE  LedgerInv'
<1>0. p \in Procs /\ Op[p].kind = "tick" /\ TickInv(p)
  BY DEF Doing, LedgerInv
<1>1. PICK b \in SUBSET Procs, fs \in SUBSET Periods :
         /\ seen[p] = <<"periods", b, fs>> /\ b # {}
         /\ Len(log) = st[p].at => b = db[Baseline] /\ fs = OpenPeriods(db)
  BY <1>0 DEF TickLines, TickInv
<1> DEFINE l == EntriesIn(db, fs)
<1>2. Read(p, <<"lines", b, l>>)
  BY <1>1 DEF TickLines
<1>3. seen'[p] = <<"lines", b, l>> /\ UNCHANGED <<db, log, st>>
  BY <1>0, <1>2, SeenIs
<1>4. l \in SUBSET Procs
  BY DEF EntriesIn, Entries
<1>5. Len(log) = st[p].at => b = db[Baseline] /\ l = EntriesIn(db, OpenPeriods(db))
  BY <1>1
<1> HIDE DEF l
<1>6. TickInv(p)'
  BY <1>1, <1>3, <1>4, <1>5 DEF TickInv
<1> QED
  BY <1>0, <1>2, <1>6, ReadInv

\* The verdict against the baseline keeps the invariant.
LEMMA TickVerifyStep ==
    ASSUME LedgerInv, UNCHANGED plan, NEW p \in Doing({"tick"}), TickVerify(p)
    PROVE  LedgerInv'
<1>0. p \in Procs /\ Op[p].kind = "tick" /\ TickInv(p)
  BY DEF Doing, LedgerInv
<1>1. PICK b \in SUBSET Procs, l \in SUBSET Procs :
         /\ seen[p] = <<"lines", b, l>> /\ b # {}
         /\ Len(log) = st[p].at => b = db[Baseline] /\ l = EntriesIn(db, OpenPeriods(db))
  BY <1>0 DEF TickVerify, TickInv
<1>1a. seen[p][2] = b /\ seen[p][3] = l
  BY <1>1
<1>1b. Verdict(p, FALSE, db[Cache], seen[p][2] \cup seen[p][3], seen[p][2] \cap seen[p][3] = {})
  BY Zenon DEF TickVerify
<1>2. Verdict(p, FALSE, db[Cache], b \cup l, b \cap l = {})
  BY <1>1a, <1>1b, Zenon
<1> QED
  BY <1>0, <1>2, VerdictInv

-----------------------------------------------------------------------------
(***************************************************************************)
(* The theorems.                                                           *)
(***************************************************************************)

\* The rows at the start.
LEMMA InitRows ==
    ASSUME Init
    PROVE  /\ db \in [Rows -> Values]
           /\ \A k \in Keys : db[Dedup(k)] = None /\ db[Queue(k)] = None
           /\ \A f \in Periods : db[Period(f)] \in {"ABSENT", "OPEN"}
           /\ \A e \in Procs : db[Entry(e)] = None /\ db[Event(e)] = None
           /\ db[Tip] = None /\ db[Cache] = {} /\ db[Baseline] = {} /\ db[Freeze] = FALSE
<1> DEFINE Start(r) == CASE \E f \in plan.open : r = Period(f) -> "OPEN"
                         [] \E f \in Periods \ plan.open : r = Period(f) -> "ABSENT"
                         [] r \in {Cache, Baseline} -> {}
                         [] r = Freeze -> FALSE
                         [] OTHER -> None
<1>0. plan \in Plans /\ db = [r \in Rows |-> Start(r)]
  BY DEF Init
<1>1. plan.open \subseteq Periods
  BY <1>0, LedgerAssumption
<1>1a. ASSUME NEW r, \A f : r # Period(f), r # Cache, r # Baseline, r # Freeze
       PROVE  Start(r) = None
  BY <1>1a
<1>2. \A k : Start(Dedup(k)) = None /\ Start(Queue(k)) = None
  <2>1. \A k : /\ (\A f : Dedup(k) # Period(f) /\ Queue(k) # Period(f))
               /\ Dedup(k) # Cache /\ Dedup(k) # Baseline /\ Dedup(k) # Freeze
               /\ Queue(k) # Cache /\ Queue(k) # Baseline /\ Queue(k) # Freeze
    BY RowNames
  <2> HIDE DEF Start
  <2> QED
    BY <2>1, <1>1a
<1>3. \A e : Start(Entry(e)) = None /\ Start(Event(e)) = None
  <2>1. \A e : /\ (\A f : Entry(e) # Period(f) /\ Event(e) # Period(f))
               /\ Entry(e) # Cache /\ Entry(e) # Baseline /\ Entry(e) # Freeze
               /\ Event(e) # Cache /\ Event(e) # Baseline /\ Event(e) # Freeze
    BY RowNames
  <2> HIDE DEF Start
  <2> QED
    BY <2>1, <1>1a
<1>4. \A f \in Periods : Start(Period(f)) \in {"ABSENT", "OPEN"} /\ Start(Closing(f)) = None
  <2>1. ASSUME NEW f \in Periods
        PROVE  Start(Period(f)) \in {"ABSENT", "OPEN"}
    <3>0. Period(f) \notin {Cache, Baseline} /\ Period(f) # Freeze
      BY RowNames
    <3>1. CASE f \in plan.open
      <4>1. /\ \E g \in plan.open : Period(f) = Period(g)
            /\ ~(\E g \in Periods \ plan.open : Period(f) = Period(g))
        BY <3>1, RowNames
      <4>2. Start(Period(f)) = "OPEN"
        BY <3>0, <4>1
      <4> QED
        BY <4>2
    <3>2. CASE f \notin plan.open
      <4>1. /\ ~(\E g \in plan.open : Period(f) = Period(g))
            /\ \E g \in Periods \ plan.open : Period(f) = Period(g)
        BY <3>2, RowNames
      <4>2. Start(Period(f)) = "ABSENT"
        BY <3>0, <4>1
      <4> QED
        BY <4>2
    <3> QED
      BY <3>1, <3>2
  <2>2. ASSUME NEW f \in Periods
        PROVE  Start(Closing(f)) = None
    <3>1. /\ \A g : Closing(f) # Period(g)
          /\ Closing(f) # Cache /\ Closing(f) # Baseline /\ Closing(f) # Freeze
      BY RowNames
    <3> HIDE DEF Start
    <3> QED
      BY <3>1, <1>1a
  <2> QED
    BY <2>1, <2>2
<1>5. Start(Tip) = None /\ Start(Cache) = {} /\ Start(Baseline) = {}
  BY RowNames
<1>6. Start(Freeze) = FALSE
  BY RowNames
<1> HIDE DEF Start
<1>7. \A r \in Rows : db[r] = Start(r)
  BY <1>0
<1>8. \A r \in Rows : Start(r) \in Values
  <2>1. \A r \in Rows : \/ \E k \in Keys : r = Dedup(k) \/ r = Queue(k)
                        \/ \E f \in Periods : r = Period(f) \/ r = Closing(f)
                        \/ \E e \in Procs : r = Entry(e) \/ r = Event(e)
                        \/ r \in {Tip, Cache, Baseline, Freeze}
    BY DEF Rows, EntryRows
  <2>2. None \in Values /\ "ABSENT" \in Values /\ "OPEN" \in Values /\ {} \in Values
    BY DEF Values, Cells
  <2>3. FALSE \in Values
    BY Zenon DEF Values
  <2>4. Start(Freeze) \in Values
    BY <2>3, <1>6, Zenon
  <2> QED
    BY <2>1, <2>2, <2>4, <1>2, <1>3, <1>4, <1>5
<1>9. db \in [Rows -> Values]
  BY <1>0, <1>8
<1>10. db[Freeze] = FALSE
  BY <1>6, <1>7, RowsAre, Zenon
<1> QED
  BY <1>2, <1>3, <1>4, <1>5, <1>7, <1>9, <1>10, RowsAre

\* The initial tables satisfy the invariant.
LEMMA InitInv ==
    ASSUME Init
    PROVE  LedgerInv
<1>0. /\ db \in [Rows -> Values]
      /\ \A k \in Keys : db[Dedup(k)] = None /\ db[Queue(k)] = None
      /\ \A f \in Periods : db[Period(f)] \in {"ABSENT", "OPEN"}
      /\ \A e \in Procs : db[Entry(e)] = None /\ db[Event(e)] = None
      /\ db[Tip] = None /\ db[Cache] = {} /\ db[Baseline] = {}
  BY InitRows
<1>0a. db[Freeze] = FALSE
  BY InitRows
<1>1. /\ plan \in Plans /\ log = <<>> /\ st = [p \in Procs |-> Idle]
      /\ seen = [p \in Doing({"tick", "freeze"}) |-> <<>>]
      /\ alarms = {} /\ damaged = {} /\ certified = [f \in Periods |-> {}]
  BY DEF Init
<1>2. Entries(db) = {}
  BY <1>0 DEF Entries
<1>3. Sound(db)
  <2>1. db = [r \in Rows |-> db[r]]
    BY <1>0
  <2>2. db[Freeze] \in BOOLEAN
    BY <1>0a, Zenon
  <2>3. RowsTyped(db)
    BY <2>1, <2>2, <1>0 DEF RowsTyped
  <2>4. LinearChain(db) /\ ChainEnds(db) /\ CacheIsJournal(db)
    BY <1>0, <1>2 DEF LinearChain, ChainEnds, CacheIsJournal
  <2>5. EachKeyOnce(db) /\ ClaimsAgree(db)
    BY <1>0, <1>2, RowsNotNone DEF EachKeyOnce, ClaimsAgree
  <2> QED
    BY <2>3, <2>4, <2>5, <1>0 DEF Sound
<1>4. TypeInv
  <2>1. \A p \in Procs : st[p] \in Callers /\ st[p].at = 0
    BY <1>1, IdleIs
  <2>2. log \in Seq(Transactions) /\ Len(log) = 0
    BY <1>1
  <2> QED
    BY <2>1, <2>2, <1>1 DEF TypeInv
<1>5. \A p \in Procs : st[p].pc = "idle" /\ st[p].answer = None
  BY <1>1, IdleIs
<1>6. EntriesAsked /\ AnswersAgree
  BY <1>2, <1>5 DEF EntriesAsked, AnswersAgree, Doing
<1>7. \A p \in Procs : CallInv(p)
  BY <1>0, <1>5 DEF CallInv
<1>8. LogSound(log, db)
  <2>1. 1 .. Len(log) = {}
    BY <1>1
  <2> QED
    BY <2>1, <1>0 DEF LogSound
<1>9. CertifiedInv /\ BaselineInv
  BY <1>0, <1>1 DEF CertifiedInv, ClosedIsCertified, BaselineInv
<1>10. \A p \in Doing({"freeze"}) : VerifyInv(p)
  BY <1>1 DEF VerifyInv, Doing
<1>11. \A p \in Doing({"tick"}) : TickInv(p)
  BY <1>1 DEF TickInv, Doing
<1>12. NoFalseFreeze
  BY <1>0a, Zenon DEF NoFalseFreeze
<1>13. NoFalseAlarm
  BY <1>1, <1>12 DEF NoFalseAlarm, FullTieOutSound
<1> QED
  BY <1>3, <1>4, <1>6, <1>7, <1>8, <1>9, <1>10, <1>11, <1>13 DEF LedgerInv

\* A step that changes nothing keeps the invariant.
LEMMA StutterInv ==
    ASSUME LedgerInv, UNCHANGED <<vars, plan>>
    PROVE  LedgerInv'
<1>1. UNCHANGED <<db, log, st, seen, alarms, damaged, certified>> /\ UNCHANGED plan
  BY DEF vars
<1>2. TypeInv' /\ Sound(db)' /\ EntriesAsked' /\ LogSound(log, db)'
  BY <1>1 DEF LedgerInv, TypeInv, EntriesAsked, Doing, Op
<1>3. \A p \in Procs : CallInv(p)'
  BY <1>1 DEF LedgerInv, CallInv, HasQueued, Op
<1>4. AnswersAgree' /\ CertifiedInv' /\ BaselineInv'
  BY <1>1 DEF LedgerInv, AnswersAgree, CertifiedInv, ClosedIsCertified, BaselineInv,
     Doing, Op
<1>5. \A p \in Doing({"freeze"})' : VerifyInv(p)'
  BY <1>1 DEF LedgerInv, VerifyInv, Doing, Op
<1>6. \A p \in Doing({"tick"})' : TickInv(p)'
  BY <1>1 DEF LedgerInv, TickInv, Doing, Op
<1>7. NoFalseAlarm'
  BY <1>1 DEF LedgerInv, NoFalseAlarm, NoFalseFreeze, FullTieOutSound
<1> QED
  BY <1>2, <1>3, <1>4, <1>5, <1>6, <1>7 DEF LedgerInv

\* Every step of the ledger keeps the invariant.
LEMMA NextInv ==
    ASSUME LedgerInv, UNCHANGED plan, Next
    PROVE  LedgerInv'
<1>1. ASSUME NEW p \in Transactional, Begin(p) PROVE LedgerInv'
  BY <1>1, BeginStep
<1>2. ASSUME NEW p \in Transactional, Conflict(p) PROVE LedgerInv'
  BY <1>2, ConflictStep
<1>3. ASSUME NEW p \in Transactional, Again(p) PROVE LedgerInv'
  BY <1>3, AgainStep
<1>4. ASSUME NEW p \in Transactional, Reject(p) PROVE LedgerInv'
  BY <1>4, RejectStep
<1>5. ASSUME NEW p \in Transactional, NEW held \in BOOLEAN, NEW lost \in BOOLEAN,
             Commit(p, held, lost)
      PROVE  LedgerInv'
  BY <1>5, CommitStep
<1>6. ASSUME NEW p \in Doing({"intake"}), Intake(p) PROVE LedgerInv'
  BY <1>6, IntakeStep
<1>7. ASSUME NEW p \in Doing({"openPeriod"}), OpenPeriod(p) PROVE LedgerInv'
  BY <1>7, OpenPeriodStep
<1>8. ASSUME NEW p \in Doing({"freeze"}),
             VerifyTip(p) \/ VerifyWalk(p) \/ VerifyCount(p) \/ VerifyRecount(p)
      PROVE  LedgerInv'
  BY <1>8, VerifyTipStep, VerifyWalkStep, VerifyCountStep, VerifyRecountStep
<1>9. ASSUME NEW p \in Doing({"tick"}),
             \/ (\E full \in BOOLEAN : TickBaseline(p, full)) \/ TickCaches(p) \/ TickFold(p)
             \/ TickPeriods(p) \/ TickLines(p) \/ TickVerify(p)
      PROVE  LedgerInv'
  BY <1>9, TickBaselineStep, TickCachesStep, TickFoldStep, TickPeriodsStep, TickLinesStep,
     TickVerifyStep
<1>10. ASSUME NEW e \in Procs, Corrupt(e) PROVE LedgerInv'
  BY <1>10, CorruptStep
<1> QED
  BY <1>1, <1>2, <1>3, <1>4, <1>5, <1>6, <1>7, <1>8, <1>9, <1>10 DEF Next

\* The inductive invariant holds in every state: the stored rows, the snapshot of
\* every open transaction and what each call, verifier walk and tie-out has read so far fit together.
THEOREM LedgerInductive == Spec => []LedgerInv
<1>1. Init => LedgerInv
  BY InitInv
<1>2. LedgerInv /\ [Next /\ UNCHANGED plan]_<<vars, plan>> => LedgerInv'
  BY NextInv, StutterInv
<1> QED
  BY <1>1, <1>2, PTL DEF Spec

\* The journal is one chain that never forks and that the tip reaches whole, and
\* the cached balances are its fold (chain.rs, projector.rs).
THEOREM JournalCorrect == Spec => []JournalSound
<1>1. LedgerInv => JournalSound
  <2> SUFFICES ASSUME LedgerInv
               PROVE  JournalSound
    OBVIOUS
  <2>1. RowsTyped(db) /\ LinearChain(db) /\ CacheIsJournal(db)
    BY DEF LedgerInv, Sound
  <2>2. /\ st \in [Procs -> Callers] /\ Len(log) \in Nat
        /\ \A p \in Procs : st[p].at <= Len(log)
        /\ alarms \subseteq [by : Procs, full : BOOLEAN, quiet : BOOLEAN] /\ damaged \subseteq Procs
    BY DEF LedgerInv, TypeInv
  <2>3. \A p \in Procs : /\ st[p].pc \in {"idle", "txn", "again", "done"}
                         /\ st[p].tries \in 0 .. MaxAttempts - 1
                         /\ st[p].at \in 0 .. Len(log)
    BY <2>2 DEF Callers
  <2> QED
    BY <2>1, <2>2, <2>3 DEF JournalSound, TypeOK
<1> QED
  BY <1>1, LedgerInductive, PTL

\* A key is posted at most once, by a post or by an applier of its queued payload,
\* and everyone who is told of an entry is told of that one
\* (PostingService::post_in_txn).
THEOREM PostingOnce == Spec => []PostedOnce
<1>1. LedgerInv => PostedOnce
  BY DEF LedgerInv, Sound, PostedOnce
<1> QED
  BY <1>1, LedgerInductive, PTL

\* No entry enters a period between its close's tie-out and the flip or after it,
\* and the baseline goes on counting all that was certified (close_in_txn,
\* snapshot_baseline).
THEOREM CloseCorrect == Spec => []CloseHolds
<1>1. LedgerInv => CloseHolds
  <2> SUFFICES ASSUME LedgerInv
               PROVE  CloseHolds
    OBVIOUS
  <2>1. ClosedIsCertified /\ \A f \in Periods : certified[f] \subseteq db[Baseline]
    BY DEF LedgerInv, CertifiedInv, BaselineInv
  <2> QED
    BY <2>1 DEF CloseHolds, ClosedIsCertified, BaselineCovers
<1> QED
  BY <1>1, LedgerInductive, PTL

\* The verifier freezes only over damage, and a full tie-out that nothing overtakes
\* raises no variance (ChainVerifier::verify_tenant, TieOutJob::tie_out_tenant).
\* Nothing is said of the tie-out against a baseline, which does accuse sound
\* books with two open periods or a reopened one (see BaselineAddsUp).
THEOREM AlarmsCorrect == Spec => []NoFalseAlarm
<1>1. LedgerInv => NoFalseAlarm
  BY DEF LedgerInv
<1> QED
  BY <1>1, LedgerInductive, PTL
=============================================================================
