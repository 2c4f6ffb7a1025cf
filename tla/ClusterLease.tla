---------------------------- MODULE ClusterLease ----------------------------
(***************************************************************************)
(* The lease that the cluster gear's locks and elections share: one record *)
(* under one cache key, taken by insert-or-steal-if-lapsed and held by     *)
(* conditional writes predicated on the token its holder presents.         *)
(*                                                                         *)
(* This module is the store and the operations in flight on it.  A request *)
(* is one call of CacheLeaseStore, and every await of that call is a step: *)
(* the clock is read, the cache answers, and in between other requests run *)
(* and time passes.  Who issues the calls, and what it makes of the        *)
(* answers, is in ClusterLock and ClusterElection, which extend this one.  *)
(*                                                                         *)
(* The cache entry is the record with the version the cache gives it: 1    *)
(* when the key is created, one more with every write, and 1 again when    *)
(* the key is created anew.  The replicas' clocks agree.                   *)
(***************************************************************************)
EXTENDS Naturals

CONSTANTS
    Requests,       \* calls that may be in flight
    Owners,         \* identities a lease can be held under
    Foreign,        \* the owner of a value that is not a readable record
    Nobody,         \* no record
    Ttl,            \* the lease's time to live
    Retention,      \* fence_retention
    AcquireAttempts,\* ACQUIRE_ATTEMPTS
    Stall,          \* the longest a conditional write trails its read
    Deployments,    \* the deployments: see deploy
    MaxTime         \* bound: the clock, in every deployment

ASSUME LeaseAssumption ==
    /\ Foreign \notin Owners /\ Nobody \notin Owners /\ Foreign # Nobody
    /\ Ttl \in Nat \ {0}
    /\ Retention \in Nat \ {0}
    /\ AcquireAttempts \in Nat \ {0}
    /\ Stall \in Nat \ {0}
    /\ MaxTime \in Nat
    /\ \A d \in Deployments :
        /\ d.faults \in BOOLEAN /\ d.prompt \in BOOLEAN
        /\ d.inherited \subseteq Owners /\ d.horizon \in 0 .. MaxTime

\* deploy is the deployment, which no step changes: whether a cache call may
\* fail (faults), whether a renewal's write reaches the cache before the lease
\* that its read found live has lapsed (prompt), whose leases may be there from
\* the start (inherited), how long the clock runs (horizon, a bound), and what
\* the extending module adds.
VARIABLES
    deploy,
    now,        \* every replica's clock
    rec,        \* the cache entry under the lease's key
    writes,     \* how many records were written: the last nonce handed out
    pc,         \* where each request is
    tok,        \* the token it presents, or was granted
    snap,       \* the entry it read
    due,        \* the deadline it computed for its write
    tries,      \* attempts of try_acquire
    lapse       \* Contended's lapse_in, as a point in time

storeVars == <<rec, writes, pc, tok, snap, due, tries, lapse>>
leaseVars == <<now, storeVars>>

FirstFence == 1
Never == MaxTime + Ttl + 1

NoRecord == [owner |-> Nobody, fence |-> 0, deadline |-> 0, nonce |-> 0,
             version |-> 0, reap |-> 0, tenure |-> 0]
NoToken == [owner |-> Nobody, fence |-> 0, tenure |-> 0, until |-> 0]

\* A value some earlier build left under the key: it clears at its own TTL.
ForeignValue == [owner |-> Foreign, fence |-> 0, deadline |-> 0, nonce |-> 0,
                 version |-> 1, reap |-> Ttl, tenure |-> 0]

\* The lease of a holder that died before the first step.
Leftover(o) ==
    [owner |-> o, fence |-> FirstFence, deadline |-> Ttl, nonce |-> 1,
     version |-> 1, reap |-> Ttl + Retention, tenure |-> 1]

Records == [owner : Owners \cup {Foreign, Nobody}, fence : Nat, deadline : Nat,
            nonce : Nat, version : Nat, reap : Nat, tenure : Nat]
Tokens == [owner : Owners \cup {Nobody}, fence : Nat, tenure : Nat, until : Nat]

AtStore == {"put", "read", "steal", "renew", "extend", "release", "delete"}
Conditional == {"put", "steal", "extend", "delete"}
Answered == {"acquired", "contended", "renewed", "expired", "released", "failed"}
Steps == AtStore \cup {"measure"} \cup Answered

LeaseInit ==
    /\ deploy \in Deployments
    /\ now = 0
    /\ rec \in {NoRecord, ForeignValue} \cup {Leftover(o) : o \in deploy.inherited}
    /\ writes = rec.nonce
    /\ pc = [r \in Requests |-> "idle"]
    /\ tok = [r \in Requests |-> NoToken]
    /\ snap = [r \in Requests |-> NoRecord]
    /\ due = [r \in Requests |-> 0]
    /\ tries = [r \in Requests |-> 0]
    /\ lapse = [r \in Requests |-> Never]

-----------------------------------------------------------------------------
\* Mutant: a lease counts as lapsed one tick early.
LiveTooShort(e) == e.deadline > now + 1

Live(e) == e.deadline > now

\* matches: the owner and the fence, and nothing else.
Matches(e, t) == e.owner = t.owner /\ e.fence = t.fence

\* The entry a write of request r leaves: a fresh nonce, the deadline computed
\* before the call, and the physical TTL that outlives it by the retention.
Entry(r, o, f, v, n) ==
    [owner |-> o, fence |-> f, deadline |-> due[r], nonce |-> writes + 1,
     version |-> v, reap |-> now + Ttl + Retention, tenure |-> n]

\* A write that reached the store is answered, or its answer is lost.
AnswerTo(r, answer) ==
    \E a \in {answer} \cup (IF deploy.faults THEN {"failed"} ELSE {}) :
        pc' = [pc EXCEPT ![r] = a]

\* Mutant: the holder counts its deadline from the answer, not from the call.
HoldFromAnswer(r, e) ==
    tok' = [tok EXCEPT ![r] = [owner |-> e.owner, fence |-> e.fence,
                               tenure |-> e.tenure, until |-> now + Ttl]]

Hold(r, e) ==
    tok' = [tok EXCEPT ![r] = [owner |-> e.owner, fence |-> e.fence,
                               tenure |-> e.tenure, until |-> e.deadline]]

Store(e) == rec' = e /\ writes' = writes + 1

-----------------------------------------------------------------------------
(* try_acquire.                                                            *)

StartAcquire(r, o) ==
    /\ pc' = [pc EXCEPT ![r] = "put"]
    /\ tok' = [tok EXCEPT ![r] = [owner |-> o, fence |-> 0, tenure |-> 0, until |-> 0]]
    /\ due' = [due EXCEPT ![r] = now + Ttl]
    /\ tries' = [tries EXCEPT ![r] = 1]
    /\ lapse' = [lapse EXCEPT ![r] = Never]
    /\ UNCHANGED <<now, rec, writes, snap>>

PutIfAbsent(r) ==
    /\ pc[r] = "put"
    /\ IF rec = NoRecord
       THEN LET e == Entry(r, tok[r].owner, FirstFence, 1, writes + 1) IN
            Store(e) /\ Hold(r, e) /\ AnswerTo(r, "acquired")
       ELSE pc' = [pc EXCEPT ![r] = "read"] /\ UNCHANGED <<rec, writes, tok>>
    /\ UNCHANGED <<now, snap, due, tries, lapse>>

Read(r) ==
    /\ pc[r] = "read"
    /\ \/ /\ rec = NoRecord /\ tries[r] < AcquireAttempts
          /\ pc' = [pc EXCEPT ![r] = "put"]
          /\ tries' = [tries EXCEPT ![r] = tries[r] + 1]
          /\ due' = [due EXCEPT ![r] = now + Ttl]
          /\ UNCHANGED snap
       \/ /\ rec.owner = Foreign \/ (rec = NoRecord /\ tries[r] = AcquireAttempts)
          /\ pc' = [pc EXCEPT ![r] = "contended"]
          /\ UNCHANGED <<tries, due, snap>>
       \/ /\ rec.owner \in Owners
          /\ pc' = [pc EXCEPT ![r] = IF Live(rec) THEN "measure" ELSE "steal"]
          /\ snap' = [snap EXCEPT ![r] = rec]
          /\ due' = [due EXCEPT ![r] = now + Ttl]
          /\ UNCHANGED tries
    /\ UNCHANGED <<now, rec, writes, tok, lapse>>

\* remaining_until reads the clock again: what was live may have lapsed.
Measure(r) ==
    /\ pc[r] = "measure"
    /\ pc' = [pc EXCEPT ![r] = "contended"]
    /\ lapse' = [lapse EXCEPT ![r] = IF Live(snap[r]) THEN snap[r].deadline ELSE Never]
    /\ UNCHANGED <<now, rec, writes, tok, snap, due, tries>>

\* Mutant: a steal starts the fence afresh.
StealAtFirstFence(r) ==
    /\ pc[r] = "steal"
    /\ IF rec.nonce = snap[r].nonce
       THEN LET e == Entry(r, tok[r].owner, FirstFence, rec.version + 1, writes + 1) IN
            Store(e) /\ Hold(r, e) /\ AnswerTo(r, "acquired")
       ELSE pc' = [pc EXCEPT ![r] = "contended"] /\ UNCHANGED <<rec, writes, tok>>
    /\ UNCHANGED <<now, snap, due, tries, lapse>>

\* compare_and_swap_value on the bytes read; the nonce makes them unique.
Steal(r) ==
    /\ pc[r] = "steal"
    /\ IF rec.nonce = snap[r].nonce
       THEN LET e == Entry(r, tok[r].owner, snap[r].fence + 1,
                           rec.version + 1, writes + 1) IN
            Store(e) /\ Hold(r, e) /\ AnswerTo(r, "acquired")
       ELSE pc' = [pc EXCEPT ![r] = "contended"] /\ UNCHANGED <<rec, writes, tok>>
    /\ UNCHANGED <<now, snap, due, tries, lapse>>

-----------------------------------------------------------------------------
(* renew: the read checks the token and the deadline, the write compares   *)
(* only the version.                                                       *)

StartRenew(r, t) ==
    /\ pc' = [pc EXCEPT ![r] = "renew"]
    /\ tok' = [tok EXCEPT ![r] = t]
    /\ UNCHANGED <<now, rec, writes, snap, due, tries, lapse>>

CheckRenew(r) ==
    /\ pc[r] = "renew"
    /\ LET ok == Matches(rec, tok[r]) /\ Live(rec) IN
       /\ pc' = [pc EXCEPT ![r] = IF ok THEN "extend" ELSE "expired"]
       /\ snap' = [snap EXCEPT ![r] = rec]
       /\ due' = [due EXCEPT ![r] = now + Ttl]
    /\ UNCHANGED <<now, rec, writes, tok, tries, lapse>>

Extend(r) ==
    /\ pc[r] = "extend"
    /\ IF rec.version = snap[r].version
       THEN LET e == Entry(r, snap[r].owner, snap[r].fence, rec.version + 1,
                           snap[r].tenure) IN
            Store(e) /\ Hold(r, e) /\ AnswerTo(r, "renewed")
       ELSE pc' = [pc EXCEPT ![r] = "expired"] /\ UNCHANGED <<rec, writes, tok>>
    /\ UNCHANGED <<now, snap, due, tries, lapse>>

-----------------------------------------------------------------------------
(* release: whether the lease is live does not matter.                     *)

StartRelease(r, t) ==
    /\ pc' = [pc EXCEPT ![r] = "release"]
    /\ tok' = [tok EXCEPT ![r] = t]
    /\ UNCHANGED <<now, rec, writes, snap, due, tries, lapse>>

CheckRelease(r) ==
    /\ pc[r] = "release"
    /\ pc' = [pc EXCEPT ![r] = IF Matches(rec, tok[r]) THEN "delete" ELSE "released"]
    /\ snap' = [snap EXCEPT ![r] = rec]
    /\ due' = [due EXCEPT ![r] = now + Ttl]
    /\ UNCHANGED <<now, rec, writes, tok, tries, lapse>>

\* compare_and_delete on the bytes read: what moved under the read stays.
Delete(r) ==
    /\ pc[r] = "delete"
    /\ rec' = IF rec.nonce = snap[r].nonce THEN NoRecord ELSE rec
    /\ AnswerTo(r, "released")
    /\ UNCHANGED <<now, writes, tok, snap, due, tries, lapse>>

-----------------------------------------------------------------------------
\* The call returns, and its locals are gone.
Finish(r) ==
    /\ pc' = [pc EXCEPT ![r] = "idle"]
    /\ tok' = [tok EXCEPT ![r] = NoToken]
    /\ snap' = [snap EXCEPT ![r] = NoRecord]
    /\ due' = [due EXCEPT ![r] = 0]
    /\ tries' = [tries EXCEPT ![r] = 0]
    /\ lapse' = [lapse EXCEPT ![r] = Never]
    /\ UNCHANGED <<now, rec, writes>>

\* A cache call fails without an effect.
Fail(r) ==
    /\ deploy.faults
    /\ pc[r] \in AtStore
    /\ pc' = [pc EXCEPT ![r] = "failed"]
    /\ UNCHANGED <<now, rec, writes, tok, snap, due, tries, lapse>>

\* The cache drops an entry whose physical TTL has passed.
Reap ==
    /\ rec # NoRecord
    /\ rec.reap <= now
    /\ rec' = NoRecord
    /\ UNCHANGED <<now, writes, pc, tok, snap, due, tries, lapse>>

StoreStep(r) ==
    \/ PutIfAbsent(r) \/ Read(r) \/ Measure(r) \/ Steal(r)
    \/ CheckRenew(r) \/ Extend(r)
    \/ CheckRelease(r) \/ Delete(r)
    \/ Fail(r)

\* Time passes, but no conditional write stays in flight longer than Stall, and
\* where renewals are prompt none outlives the lease it is to extend.
Tick ==
    /\ now < deploy.horizon
    /\ \A r \in Requests :
        /\ pc[r] \in Conditional => now + Ttl < due[r] + Stall
        /\ pc[r] = "extend" /\ deploy.prompt => now + 1 < snap[r].deadline
    /\ now' = now + 1
    /\ UNCHANGED storeVars

-----------------------------------------------------------------------------
LeaseTypeOK ==
    /\ now \in Nat
    /\ rec \in Records
    /\ writes \in Nat
    /\ pc \in [Requests -> Steps \cup {"idle", "asleep"}]
    /\ tok \in [Requests -> Tokens]
    /\ snap \in [Requests -> Records]
    /\ due \in [Requests -> Nat]
    /\ tries \in [Requests -> Nat]
    /\ lapse \in [Requests -> Nat]
=============================================================================
