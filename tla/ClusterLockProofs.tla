-------------------------- MODULE ClusterLockProofs --------------------------
(***************************************************************************)
(* What ClusterLock guarantees for any number of clients and calls, any    *)
(* TTL and retention, guards and remote clients, with and without watches  *)
(* and faults of the cache.                                                *)
(*                                                                         *)
(* The argument: the nonce makes a conditional write on the bytes exact    *)
(* (NonceInv), so a steal replaces the lapsed record it read and a delete  *)
(* the one its token matched; no two clients present tokens of the same    *)
(* owner (OwnerInv).  A renewal compares only the version, but as long as  *)
(* its write is prompt nobody can have touched the record in between       *)
(* (ExtendInv).  So a token whose deadline has not come names the owner    *)
(* of the stored record (ClaimInv), and there is only one.                 *)
(***************************************************************************)
EXTENDS ClusterLock, TLAPS

\* The stored record is there, is foreign, or carries a nonce and outlives its
\* deadline by the retention.
RecordInv ==
    /\ rec.owner = Nobody => rec = NoRecord
    /\ rec.owner = Foreign => rec.deadline = 0
    /\ rec.owner \in Owners => rec.nonce > 0 /\ rec.tenure > 0 /\ rec.deadline < rec.reap
    /\ rec.deadline <= now + Ttl
    /\ rec.nonce <= writes /\ rec.tenure <= writes

\* No nonce is handed out twice: what was read with the stored nonce is stored.
NonceInv ==
    \A r \in Requests :
        /\ snap[r].nonce <= writes /\ snap[r].tenure <= writes
        /\ snap[r].nonce > 0 /\ snap[r].nonce = rec.nonce => snap[r] = rec

\* What a request in flight knows.
RequestInv ==
    \A r \in Requests :
        /\ due[r] <= now + Ttl
        /\ IF pc[r] = "idle" THEN tok[r] = NoToken ELSE tok[r].owner \in Owners
        /\ held[r] = NoToken \/ held[r].owner \in Owners
        /\ pc[r] \in {"renew", "extend"} => tok[r] = held[r]
        /\ pc[r] \in {"release", "delete", "released"} => held[r] = NoToken
        /\ pc[r] = "steal" => snap[r].nonce > 0 /\ snap[r].deadline <= now
        /\ pc[r] \in {"extend", "delete"}
            => snap[r].nonce > 0 /\ snap[r].tenure > 0 /\ Matches(snap[r], tok[r])
        /\ pc[r] = "asleep" => r \in blocking

\* Every client presents owners of its own.
OwnerInv ==
    /\ \A r \in Requests :
        LET drawn == IF deploy.fresh THEN used ELSE {OwnerOf[r]} IN
        tok[r].owner \in drawn \cup {Nobody} /\ held[r].owner \in drawn \cup {Nobody}
    /\ \A r, s \in Requests :
        r # s => /\ tok[r].owner \in Owners => tok[r].owner \notin {tok[s].owner, held[s].owner}
                 /\ held[r].owner \in Owners => held[r].owner # held[s].owner

\* A guard's owner stands for one tenure.
TenureInv ==
    deploy.fresh => \A r \in Requests :
        /\ held[r] # NoToken => held[r].tenure > 0
        /\ pc[r] \in {"put", "read", "measure", "steal", "contended", "asleep", "acquired"}
            => held[r] = NoToken
        /\ pc[r] \in {"acquired", "renewed", "renew", "release", "extend", "delete"}
            => tok[r].tenure > 0
        /\ pc[r] \in {"extend", "delete"} => snap[r].tenure = tok[r].tenure
        /\ \A t \in {tok[r], held[r]} :
            t.tenure > 0 /\ rec.owner = t.owner => rec.tenure = t.tenure

\* Nothing touches the record between the read and the write of a prompt renewal.
ExtendInv ==
    deploy.prompt => \A r \in Requests :
        pc[r] = "extend" => /\ rec = snap[r]
                            /\ now < snap[r].deadline /\ snap[r].deadline <= due[r]

\* A token that has not run out names the owner of the record.
Claims(t) == now < t.until => rec.owner = t.owner /\ t.until <= rec.deadline

ClaimInv ==
    deploy.prompt => \A r \in Requests :
        /\ Claims(held[r])
        /\ pc[r] \in {"acquired", "renewed"} => Claims(tok[r])

\* A lock() that saw the name taken has been told if it no longer is.
SleepInv ==
    \A r \in Requests :
        deploy.watches /\ r \in blocking /\ r \notin feed
            => (pc[r] \in {"read", "measure", "steal", "contended", "asleep"} => rec # NoRecord)

IndInv ==
    /\ deploy \in Deployments /\ TypeOK
    /\ RecordInv /\ NonceInv /\ RequestInv /\ OwnerInv
    /\ TenureInv /\ ExtendInv /\ ClaimInv /\ SleepInv

USE LeaseAssumption, LockAssumption
USE DEF FirstFence, Never, AtStore, Answered, Steps, Matches, Live

\* The constants of the store are what their types say.
LEMMA Values == NoToken \in Tokens /\ NoRecord \in Records /\ Never \in Nat
BY DEF NoToken, Tokens, NoRecord, Records

\* The record is absent, foreign or inherited, and nobody holds or asks.
LEMMA InitInd == Init => IndInv
<1> SUFFICES ASSUME Init PROVE IndInv
  OBVIOUS
<1>1. /\ rec \in Records /\ RecordInv
  <2>1. CASE rec = NoRecord
    BY <2>1 DEF Init, LeaseInit, Records, RecordInv, NoRecord
  <2>2. CASE rec = ForeignValue
    BY <2>2 DEF Init, LeaseInit, Records, RecordInv, ForeignValue
  <2>3. ASSUME NEW o \in Owners, rec = Leftover(o) PROVE rec \in Records /\ RecordInv
    BY <2>3 DEF Init, LeaseInit, Records, RecordInv, NoRecord, Leftover
  <2> QED
    BY <2>1, <2>2, <2>3 DEF Init, LeaseInit
<1>2. TypeOK /\ deploy \in Deployments
  BY <1>1, Values DEF Init, LeaseInit, TypeOK, LeaseTypeOK, Records
<1>3. NonceInv /\ RequestInv /\ OwnerInv /\ TenureInv /\ ExtendInv /\ ClaimInv /\ SleepInv
  BY <1>1 DEF Init, LeaseInit, NonceInv, RequestInv, OwnerInv, TenureInv, ExtendInv, ClaimInv, SleepInv,
     Claims, NoToken, NoRecord, Records
<1> QED
  BY <1>1, <1>2, <1>3 DEF IndInv

-----------------------------------------------------------------------------
(* Steps that write nothing.                                               *)

\* A request starts an acquisition, for an owner that is its client's own.
LEMMA AcquireInd ==
    ASSUME IndInv, UNCHANGED <<deploy, held, shutdown>>, NEW r \in Requests, NEW o \in Owners,
           StartAcquire(r, o),
           deploy.fresh => held[r] = NoToken,
           \/ tok[r].owner = o /\ UNCHANGED used
           \/ deploy.fresh /\ o \notin used /\ used' = used \cup {o}
           \/ ~deploy.fresh /\ o = OwnerOf[r] /\ used' = used \cup {o},
           blocking' \subseteq Requests, feed' \subseteq blocking',
           blocking \subseteq blocking', blocking' \subseteq blocking \cup {r},
           feed \ {r} \subseteq feed',
           wake' \in [Requests -> Nat], giveUp' \in [Requests -> Nat], resets' \in [Requests -> Nat],
           calls' \in Nat
    PROVE  IndInv'
<1> USE DEF IndInv, StartAcquire
<1>1. TypeOK'
  <2>1. tok' \in [Requests -> Tokens]
    BY DEF TypeOK, LeaseTypeOK, Tokens
  <2>2. LeaseTypeOK'
    BY <2>1, Values DEF TypeOK, LeaseTypeOK
  <2>3. used' \subseteq Owners
    BY DEF TypeOK
  <2> QED
    BY <2>2, <2>3 DEF TypeOK
<1>2. /\ RecordInv' /\ NonceInv' /\ SleepInv'
  BY DEF TypeOK, LeaseTypeOK, RecordInv, NonceInv, SleepInv
<1>3. /\ RequestInv'
  BY DEF TypeOK, LeaseTypeOK, RequestInv, Tokens, NoToken
<1>4. OwnerInv'
  BY DEF TypeOK, LeaseTypeOK, OwnerInv, Tokens, NoToken
<1>5. TenureInv' /\ ExtendInv' /\ ClaimInv'
  BY DEF TypeOK, LeaseTypeOK, TenureInv, ExtendInv, ClaimInv, Claims, Tokens, NoToken
<1> QED
  BY <1>1, <1>2, <1>3, <1>4, <1>5

\* A request returns, and its client keeps what it held, takes what the request
\* was granted, or gives up.
LEMMA ReturnInd ==
    ASSUME IndInv, UNCHANGED <<deploy, used, calls, shutdown>>, NEW r \in Requests, Return(r),
           NEW h, held' = [held EXCEPT ![r] = h],
           h \in {NoToken, held[r]} \/ (pc[r] \in {"acquired", "renewed"} /\ h = tok[r])
    PROVE  IndInv'
<1> USE DEF IndInv, Return, Finish
<1>1. TypeOK'
  BY DEF TypeOK, LeaseTypeOK, Tokens, NoToken, Records, NoRecord
<1>2. RecordInv' /\ NonceInv' /\ SleepInv'
  BY DEF TypeOK, LeaseTypeOK, RecordInv, NonceInv, SleepInv, NoRecord
<1>3. RequestInv'
  BY DEF TypeOK, LeaseTypeOK, RequestInv, Tokens, NoToken
<1>4. OwnerInv'
  BY DEF TypeOK, LeaseTypeOK, OwnerInv, Tokens, NoToken
<1>5. ExtendInv' /\ ClaimInv'
  BY DEF TypeOK, LeaseTypeOK, ExtendInv, ClaimInv, Claims, Tokens, NoToken
<1>6. TenureInv'
  <2> SUFFICES ASSUME deploy.fresh, NEW s \in Requests
               PROVE  TenureInv!2!(s)'
    BY DEF TenureInv
  <2> QED
    BY DEF TypeOK, LeaseTypeOK, TenureInv, Tokens, NoToken
<1> QED
  BY <1>1, <1>2, <1>3, <1>4, <1>5, <1>6

\* A lock() that leaves its wait returns without the lock.
LEMMA GiveUpInd ==
    ASSUME IndInv, UNCHANGED <<deploy, held, used, calls, shutdown>>, NEW r \in Requests, Return(r)
    PROVE  IndInv'
<1> USE DEF IndInv, Return, Finish
<1>1. TypeOK'
  BY DEF TypeOK, LeaseTypeOK, Tokens, NoToken, Records, NoRecord
<1>2. RecordInv' /\ NonceInv' /\ SleepInv'
  BY DEF TypeOK, LeaseTypeOK, RecordInv, NonceInv, SleepInv, NoRecord
<1>3. RequestInv'
  BY DEF TypeOK, LeaseTypeOK, RequestInv, Tokens, NoToken
<1>4. OwnerInv'
  BY DEF TypeOK, LeaseTypeOK, OwnerInv, Tokens, NoToken
<1>5. TenureInv' /\ ExtendInv' /\ ClaimInv'
  BY DEF TypeOK, LeaseTypeOK, TenureInv, ExtendInv, ClaimInv, Claims, Tokens, NoToken
<1> QED
  BY <1>1, <1>2, <1>3, <1>4, <1>5

\* The holder's token goes into a renewal.
LEMMA RenewInd ==
    ASSUME IndInv, UNCHANGED deploy, NEW r \in Requests, Renew(r)
    PROVE  IndInv'
<1> USE DEF IndInv, TypeOK, LeaseTypeOK, Renew, Call, Idle, StartRenew, waitVars
<1>1. TypeOK'
  BY Values DEF Tokens
<1>2. RecordInv' /\ NonceInv' /\ SleepInv'
  BY DEF RecordInv, NonceInv, SleepInv
<1>3. RequestInv' /\ OwnerInv'
  BY DEF RequestInv, OwnerInv, RecordInv, Tokens, Records, NoToken
<1>4. TenureInv' /\ ExtendInv' /\ ClaimInv'
  BY DEF TenureInv, ExtendInv, ClaimInv, Claims, RequestInv, RecordInv, Tokens, Records, NoToken
<1> QED
  BY <1>1, <1>2, <1>3, <1>4

\* The holder gives up its token and asks for the release.
LEMMA ReleaseInd ==
    ASSUME IndInv, UNCHANGED deploy, NEW r \in Requests, Release(r)
    PROVE  IndInv'
<1> USE DEF IndInv, TypeOK, LeaseTypeOK, Release, Call, Idle, StartRelease, waitVars
<1>1. TypeOK'
  BY Values DEF Tokens
<1>2. RecordInv' /\ NonceInv' /\ SleepInv'
  BY DEF RecordInv, NonceInv, SleepInv
<1>3. RequestInv' /\ OwnerInv'
  BY DEF RequestInv, OwnerInv, RecordInv, Tokens, Records, NoToken
<1>4. TenureInv' /\ ExtendInv' /\ ClaimInv'
  BY DEF TenureInv, ExtendInv, ClaimInv, Claims, RequestInv, RecordInv, Tokens, Records, NoToken
<1> QED
  BY <1>1, <1>2, <1>3, <1>4

\* A dropped guard leaves its record to lapse.
LEMMA DropInd ==
    ASSUME IndInv, UNCHANGED deploy, NEW r \in Requests, Drop(r)
    PROVE  IndInv'
<1> USE DEF IndInv, TypeOK, LeaseTypeOK, Drop, Idle, leaseVars, storeVars, waitVars
<1>1. TypeOK'
  BY Values DEF Tokens
<1>2. RecordInv' /\ NonceInv' /\ SleepInv'
  BY DEF RecordInv, NonceInv, SleepInv
<1>3. RequestInv' /\ OwnerInv'
  BY DEF RequestInv, OwnerInv, RecordInv, Tokens, Records, NoToken
<1>4. TenureInv' /\ ExtendInv' /\ ClaimInv'
  BY DEF TenureInv, ExtendInv, ClaimInv, Claims, RequestInv, RecordInv, Tokens, Records, NoToken
<1> QED
  BY <1>1, <1>2, <1>3, <1>4

\* The read of an acquisition.
LEMMA ReadInd ==
    ASSUME IndInv, UNCHANGED deploy, NEW r \in Requests, Read(r),
           UNCHANGED <<held, used, blocking, wake, giveUp, feed, resets, calls, shutdown>>
    PROVE  IndInv'
<1> USE DEF IndInv, TypeOK, LeaseTypeOK, Read
<1>1. TypeOK'
  <2>1. pc' \in [Requests -> Steps \cup {"idle", "asleep"}]
    OBVIOUS
  <2>2. snap' \in [Requests -> Records] /\ due' \in [Requests -> Nat] /\ tries' \in [Requests -> Nat]
    OBVIOUS
  <2> QED
    BY <2>1, <2>2
<1>2. RecordInv' /\ NonceInv' /\ SleepInv'
  BY DEF RecordInv, NonceInv, SleepInv
<1>3. RequestInv' /\ OwnerInv'
  BY DEF RequestInv, OwnerInv, RecordInv, Tokens, Records, NoToken
<1>4. TenureInv' /\ ExtendInv' /\ ClaimInv'
  BY DEF TenureInv, ExtendInv, ClaimInv, Claims, RequestInv, RecordInv, Tokens, Records, NoToken
<1> QED
  BY <1>1, <1>2, <1>3, <1>4

\* The incumbent's remaining time is measured.
LEMMA MeasureInd ==
    ASSUME IndInv, UNCHANGED deploy, NEW r \in Requests, Measure(r),
           UNCHANGED <<held, used, blocking, wake, giveUp, feed, resets, calls, shutdown>>
    PROVE  IndInv'
<1> USE DEF IndInv, TypeOK, LeaseTypeOK, Measure
<1>1. TypeOK'
  BY Values DEF Records
<1>2. RecordInv' /\ NonceInv' /\ SleepInv'
  BY DEF RecordInv, NonceInv, SleepInv
<1>3. RequestInv' /\ OwnerInv'
  BY DEF RequestInv, OwnerInv, RecordInv, Tokens, Records, NoToken
<1>4. TenureInv' /\ ExtendInv' /\ ClaimInv'
  BY DEF TenureInv, ExtendInv, ClaimInv, Claims, RequestInv, RecordInv, Tokens, Records, NoToken
<1> QED
  BY <1>1, <1>2, <1>3, <1>4

\* The read of a renewal finds the token's record live, or refuses.
LEMMA CheckRenewInd ==
    ASSUME IndInv, UNCHANGED deploy, NEW r \in Requests, CheckRenew(r),
           UNCHANGED <<held, used, blocking, wake, giveUp, feed, resets, calls, shutdown>>
    PROVE  IndInv'
<1> USE DEF IndInv, TypeOK, LeaseTypeOK, CheckRenew
<1>1. TypeOK'
  BY Values DEF Tokens
<1>2. RecordInv' /\ NonceInv' /\ SleepInv'
  BY DEF RecordInv, NonceInv, SleepInv
<1>3. RequestInv' /\ OwnerInv'
  BY DEF RequestInv, OwnerInv, RecordInv, Tokens, Records, NoToken
<1>4. TenureInv' /\ ExtendInv' /\ ClaimInv'
  BY DEF TenureInv, ExtendInv, ClaimInv, Claims, RequestInv, RecordInv, Tokens, Records, NoToken
<1> QED
  BY <1>1, <1>2, <1>3, <1>4

\* The read of a release finds the token's record, or is done.
LEMMA CheckReleaseInd ==
    ASSUME IndInv, UNCHANGED deploy, NEW r \in Requests, CheckRelease(r),
           UNCHANGED <<held, used, blocking, wake, giveUp, feed, resets, calls, shutdown>>
    PROVE  IndInv'
<1> USE DEF IndInv, TypeOK, LeaseTypeOK, CheckRelease
<1>1. TypeOK'
  BY Values DEF Tokens
<1>2. RecordInv' /\ NonceInv' /\ SleepInv'
  BY DEF RecordInv, NonceInv, SleepInv
<1>3. RequestInv' /\ OwnerInv'
  BY DEF RequestInv, OwnerInv, RecordInv, Tokens, Records, NoToken
<1>4. TenureInv' /\ ExtendInv' /\ ClaimInv'
  BY DEF TenureInv, ExtendInv, ClaimInv, Claims, RequestInv, RecordInv, Tokens, Records, NoToken
<1> QED
  BY <1>1, <1>2, <1>3, <1>4

\* A call that fails leaves the store as it is.
LEMMA FailInd ==
    ASSUME IndInv, UNCHANGED deploy, NEW r \in Requests, Fail(r),
           UNCHANGED <<held, used, blocking, wake, giveUp, feed, resets, calls, shutdown>>
    PROVE  IndInv'
<1> USE DEF IndInv, TypeOK, LeaseTypeOK, Fail
<1>1. TypeOK'
  BY Values DEF Tokens
<1>2. RecordInv' /\ NonceInv' /\ SleepInv'
  BY DEF RecordInv, NonceInv, SleepInv
<1>3. RequestInv' /\ OwnerInv'
  BY DEF RequestInv, OwnerInv, RecordInv, Tokens, Records, NoToken
<1>4. TenureInv' /\ ExtendInv' /\ ClaimInv'
  BY DEF TenureInv, ExtendInv, ClaimInv, Claims, RequestInv, RecordInv, Tokens, Records, NoToken
<1> QED
  BY <1>1, <1>2, <1>3, <1>4

\* A lock() goes to sleep.
LEMMA SleepInd ==
    ASSUME IndInv, UNCHANGED deploy, NEW r \in Requests, NEW w \in Nat, Sleep(r, w), pc[r] = "contended", r \in blocking,
           UNCHANGED <<held, used, calls, shutdown>>
    PROVE  IndInv'
<1> USE DEF IndInv, TypeOK, LeaseTypeOK, Sleep
<1>1. TypeOK'
  BY Values DEF Tokens
<1>2. RecordInv' /\ NonceInv' /\ SleepInv'
  BY DEF RecordInv, NonceInv, SleepInv, NoRecord
<1>3. RequestInv' /\ OwnerInv'
  BY DEF RequestInv, OwnerInv, RecordInv, Tokens, Records, NoToken
<1>4. TenureInv' /\ ExtendInv' /\ ClaimInv'
  BY DEF TenureInv, ExtendInv, ClaimInv, Claims, RequestInv, RecordInv, Tokens, Records, NoToken
<1> QED
  BY <1>1, <1>2, <1>3, <1>4

-----------------------------------------------------------------------------
(* Steps that write the record.                                            *)

\* A write by an acquisition or a renewal, over a record that has lapsed or that
\* is the renewal's own.
LEMMA StoreInd ==
    ASSUME IndInv, NEW r \in Requests, pc[r] \in {"put", "steal", "extend"},
           NEW f \in Nat, NEW v \in Nat, NEW n \in Nat, n > 0, n <= writes + 1,
           NEW a, a \in IF pc[r] = "extend" THEN {"renewed", "failed"} ELSE {"acquired", "failed"},
           deploy.fresh => n = tok[r].tenure \/ pc[r] # "extend",
           deploy.prompt => rec.deadline <= now \/ (pc[r] = "extend" /\ rec = snap[r]),
           rec' = Entry(r, tok[r].owner, f, v, n), writes' = writes + 1,
           pc' = [pc EXCEPT ![r] = a],
           Hold(r, Entry(r, tok[r].owner, f, v, n)), Notify,
           UNCHANGED <<deploy, now, snap, due, tries, lapse, held, used, blocking, wake, giveUp,
                       resets, calls, shutdown>>
    PROVE  IndInv'
<1> USE DEF IndInv, TypeOK, LeaseTypeOK, Records, Tokens
<1> DEFINE o == tok[r].owner
<1>1. o \in Owners
  BY DEF RequestInv
<1>2. /\ rec' = [owner |-> o, fence |-> f, deadline |-> due[r], nonce |-> writes + 1,
                 version |-> v, reap |-> now + Ttl + Retention, tenure |-> n]
      /\ tok' = [tok EXCEPT ![r] = [owner |-> o, fence |-> f, tenure |-> n, until |-> due[r]]]
  BY DEF Entry, Hold
<1> HIDE DEF o
<1>3. TypeOK'
  <2>1. rec' \in Records /\ tok' \in [Requests -> Tokens]
    BY <1>1, <1>2
  <2>2. pc' \in [Requests -> Steps \cup {"idle", "asleep"}] /\ feed' \subseteq blocking'
    BY DEF Notify
  <2> QED
    BY <2>1, <2>2
<1>4. RecordInv' /\ NonceInv'
  <2>1. due[r] <= now + Ttl /\ due[r] < now + Ttl + Retention
    BY DEF RequestInv
  <2>2. RecordInv'
    BY <1>1, <1>2, <2>1 DEF RecordInv
  <2>3. NonceInv'
    BY <1>2 DEF NonceInv
  <2> QED
    BY <2>2, <2>3
<1>5. SleepInv'
  BY <1>1, <1>2 DEF SleepInv, NoRecord
<1>6. RequestInv'
  BY <1>1, <1>2 DEF RequestInv
<1>7. OwnerInv'
  BY <1>1, <1>2 DEF OwnerInv, o
<1>8. TenureInv'
  <2> SUFFICES ASSUME deploy.fresh PROVE TenureInv'
    BY DEF TenureInv
  <2>1. CASE pc[r] = "extend"
    BY <1>1, <1>2, <2>1 DEF TenureInv, OwnerInv, RequestInv, o
  <2>2. CASE pc[r] # "extend"
    BY <1>1, <1>2, <2>2, Values DEF TenureInv, OwnerInv, RequestInv, NoToken, o
  <2> QED
    BY <2>1, <2>2
<1>9. ExtendInv' /\ ClaimInv'
  <2> SUFFICES ASSUME deploy.prompt PROVE ExtendInv' /\ ClaimInv'
    BY DEF ExtendInv, ClaimInv
  <2>1. CASE rec.deadline <= now
    <3>1. \A s \in Requests : pc[s] # "extend"
      BY <2>1 DEF ExtendInv
    <3>2. \A s \in Requests : ~(now < held[s].until)
      BY <2>1 DEF ClaimInv, Claims
    <3>3. \A s \in Requests : pc[s] \in {"acquired", "renewed"} => ~(now < tok[s].until)
      BY <2>1 DEF ClaimInv, Claims
    <3> QED
      BY <1>2, <3>1, <3>2, <3>3 DEF ExtendInv, ClaimInv, Claims
  <2>2. CASE pc[r] = "extend" /\ rec = snap[r]
    <3>1. rec.owner = o /\ tok[r] = held[r] /\ rec.deadline <= due[r]
      BY <2>2 DEF RequestInv, ExtendInv, o
    <3>2. \A s \in Requests : s # r => held[s].owner # o /\ tok[s].owner # o
      BY <1>1 DEF OwnerInv, o
    <3>3. \A s \in Requests : s # r => pc[s] # "extend"
      BY <3>1, <3>2 DEF ExtendInv, RequestInv
    <3>4. \A s \in Requests : s # r => ~(now < held[s].until)
      BY <3>1, <3>2 DEF ClaimInv, Claims
    <3>5. \A s \in Requests : s # r /\ pc[s] \in {"acquired", "renewed"} => ~(now < tok[s].until)
      BY <3>1, <3>2 DEF ClaimInv, Claims
    <3>6. now < held[r].until => held[r].owner = o /\ held[r].until <= due[r]
      BY <3>1 DEF ClaimInv, Claims
    <3> QED
      BY <1>2, <2>2, <3>3, <3>4, <3>5, <3>6 DEF ExtendInv, ClaimInv, Claims
  <2> QED
    BY <2>1, <2>2
<1> QED
  BY <1>3, <1>4, <1>5, <1>6, <1>7, <1>8, <1>9

\* The record goes: it was a releasing client's, or the retention is over.
LEMMA RemoveInd ==
    ASSUME IndInv, UNCHANGED <<deploy, now, writes, tok, snap, due, tries, lapse, held, used,
                               blocking, wake, giveUp, resets, calls, shutdown>>,
           rec' = NoRecord, Notify,
           \/ UNCHANGED pc
           \/ \E r \in Requests, a \in {"released", "failed"} :
                pc[r] = "delete" /\ pc' = [pc EXCEPT ![r] = a],
           \/ rec.deadline <= now
           \/ \E r \in Requests : pc[r] = "delete" /\ rec = snap[r]
    PROVE  IndInv'
<1> USE DEF IndInv, TypeOK, LeaseTypeOK, Tokens
<1>1. TypeOK'
  BY Values DEF Notify
<1>2. RecordInv' /\ NonceInv'
  BY DEF RecordInv, NonceInv, NoRecord, Records
<1>3. SleepInv'
  BY DEF SleepInv, Notify
<1>4. RequestInv' /\ OwnerInv'
  BY DEF RequestInv, OwnerInv
<1>5. TenureInv'
  BY DEF TenureInv, RequestInv, NoRecord, NoToken
<1>6. deploy.prompt => /\ \A s \in Requests : pc[s] # "extend" /\ ~(now < held[s].until)
                       /\ \A s \in Requests : pc[s] \in {"acquired", "renewed"} => ~(now < tok[s].until)
  <2> SUFFICES ASSUME deploy.prompt, NEW s \in Requests
               PROVE  /\ pc[s] # "extend" /\ ~(now < held[s].until)
                      /\ pc[s] \in {"acquired", "renewed"} => ~(now < tok[s].until)
    OBVIOUS
  <2>1. CASE rec.deadline <= now
    BY <2>1 DEF ExtendInv, ClaimInv, Claims, Records
  <2>2. ASSUME NEW r \in Requests, pc[r] = "delete", rec = snap[r]
        PROVE  /\ pc[s] # "extend" /\ ~(now < held[s].until)
               /\ pc[s] \in {"acquired", "renewed"} => ~(now < tok[s].until)
    <3>1. rec.owner = tok[r].owner /\ tok[r].owner \in Owners /\ held[r] = NoToken
      BY <2>2 DEF RequestInv
    <3>2. CASE s = r
      BY <2>2, <3>1, <3>2 DEF NoToken
    <3>3. CASE s # r
      <4>1. held[s].owner # rec.owner /\ tok[s].owner # rec.owner
        BY <3>1, <3>3 DEF OwnerInv
      <4>2. pc[s] # "extend"
        BY <4>1 DEF ExtendInv, RequestInv
      <4> QED
        BY <4>1, <4>2 DEF ClaimInv, Claims
    <3> QED
      BY <3>2, <3>3
  <2> QED
    BY <2>1, <2>2
<1>7. ExtendInv' /\ ClaimInv'
  BY <1>6 DEF ExtendInv, ClaimInv, Claims
<1> QED
  BY <1>1, <1>2, <1>3, <1>4, <1>5, <1>7

\* A conditional write that finds something else, or a delete that finds nothing
\* of its own, changes only where its request is.
LEMMA MissInd ==
    ASSUME IndInv, NEW r \in Requests, NEW a,
           \/ pc[r] = "put" /\ a = "read" /\ rec # NoRecord
           \/ pc[r] = "steal" /\ a = "contended"
           \/ pc[r] = "extend" /\ a = "expired"
           \/ pc[r] = "delete" /\ a \in {"released", "failed"},
           pc' = [pc EXCEPT ![r] = a],
           UNCHANGED <<deploy, now, rec, writes, tok, snap, due, tries, lapse, held, used, blocking,
                       wake, giveUp, feed, resets, calls, shutdown>>
    PROVE  IndInv'
<1> USE DEF IndInv, TypeOK, LeaseTypeOK
<1>1. TypeOK'
  OBVIOUS
<1>2. RecordInv' /\ NonceInv' /\ SleepInv'
  BY DEF RecordInv, NonceInv, SleepInv
<1>3. RequestInv' /\ OwnerInv'
  BY DEF RequestInv, OwnerInv
<1>4. TenureInv' /\ ExtendInv' /\ ClaimInv'
  BY DEF TenureInv, ExtendInv, ClaimInv, Claims
<1> QED
  BY <1>1, <1>2, <1>3, <1>4

\* put_if_absent takes the name, or finds it taken.
LEMMA PutInd ==
    ASSUME IndInv, UNCHANGED deploy, NEW r \in Requests, PutIfAbsent(r), Notify,
           UNCHANGED <<held, used, blocking, wake, giveUp, resets, calls, shutdown>>
    PROVE  IndInv'
<1>1. CASE rec = NoRecord
  <2>1. PICK a \in {"acquired", "failed"} : pc' = [pc EXCEPT ![r] = a]
    BY <1>1 DEF PutIfAbsent, AnswerTo
  <2>2. rec.deadline <= now
    BY <1>1 DEF IndInv, TypeOK, LeaseTypeOK, NoRecord
  <2>3. writes + 1 \in Nat /\ writes + 1 > 0 /\ writes + 1 <= writes + 1
    BY DEF IndInv, TypeOK, LeaseTypeOK
  <2>4. /\ rec' = Entry(r, tok[r].owner, 1, 1, writes + 1) /\ writes' = writes + 1
        /\ Hold(r, Entry(r, tok[r].owner, 1, 1, writes + 1))
    BY <1>1 DEF PutIfAbsent, Store
  <2>5. pc[r] = "put" /\ UNCHANGED <<now, snap, due, tries, lapse>>
    BY DEF PutIfAbsent
  <2> QED
    BY <2>1, <2>2, <2>3, <2>4, <2>5, StoreInd
<1>2. CASE rec # NoRecord
  BY <1>2, MissInd DEF PutIfAbsent, Notify
<1> QED
  BY <1>1, <1>2

\* The swap of a steal replaces the lapsed record it read, and nothing else.
LEMMA StealInd ==
    ASSUME IndInv, UNCHANGED deploy, NEW r \in Requests, Steal(r), Notify,
           UNCHANGED <<held, used, blocking, wake, giveUp, resets, calls, shutdown>>
    PROVE  IndInv'
<1>1. CASE rec.nonce = snap[r].nonce
  <2>1. PICK a \in {"acquired", "failed"} : pc' = [pc EXCEPT ![r] = a]
    BY <1>1 DEF Steal, AnswerTo
  <2>2. rec.deadline <= now /\ snap[r].fence + 1 \in Nat /\ rec.version + 1 \in Nat
    BY <1>1 DEF Steal, IndInv, TypeOK, LeaseTypeOK, Records, NonceInv, RequestInv
  <2>3. writes + 1 \in Nat /\ writes + 1 > 0 /\ writes + 1 <= writes + 1
    BY DEF IndInv, TypeOK, LeaseTypeOK
  <2> DEFINE e == Entry(r, tok[r].owner, snap[r].fence + 1, rec.version + 1, writes + 1)
  <2>4. rec' = e /\ writes' = writes + 1 /\ Hold(r, e)
    BY <1>1 DEF Steal, Store
  <2>5. pc[r] = "steal" /\ UNCHANGED <<now, snap, due, tries, lapse>>
    BY DEF Steal
  <2> QED
    BY <2>1, <2>2, <2>3, <2>4, <2>5, StoreInd
<1>2. CASE rec.nonce # snap[r].nonce
  BY <1>2, MissInd DEF Steal, Notify
<1> QED
  BY <1>1, <1>2

\* The swap of a renewal extends the record it read, if it is prompt; if it is
\* not, it still writes its own client's owner and tenure.
LEMMA ExtendInd ==
    ASSUME IndInv, UNCHANGED deploy, NEW r \in Requests, Extend(r), Notify,
           UNCHANGED <<held, used, blocking, wake, giveUp, resets, calls, shutdown>>
    PROVE  IndInv'
<1>1. CASE rec.version = snap[r].version
  <2>1. PICK a \in {"renewed", "failed"} : pc' = [pc EXCEPT ![r] = a]
    BY <1>1 DEF Extend, AnswerTo
  <2>2. /\ snap[r].owner = tok[r].owner
        /\ snap[r].fence \in Nat /\ rec.version + 1 \in Nat /\ snap[r].tenure \in Nat
    BY DEF Extend, IndInv, TypeOK, LeaseTypeOK, Records, RequestInv
  <2>3. deploy.fresh => snap[r].tenure = tok[r].tenure
    BY DEF Extend, IndInv, TenureInv
  <2>4. deploy.prompt => rec = snap[r]
    BY DEF Extend, IndInv, ExtendInv
  <2>5. snap[r].tenure > 0 /\ snap[r].tenure <= writes + 1
    BY DEF Extend, IndInv, TypeOK, LeaseTypeOK, Records, RequestInv, NonceInv
  <2> QED
    BY <1>1, <2>1, <2>2, <2>3, <2>4, <2>5, StoreInd DEF Extend, Store
<1>2. CASE rec.version # snap[r].version
  BY <1>2, MissInd DEF Extend, Notify
<1> QED
  BY <1>1, <1>2

\* The delete of a release removes the record its token matched, and no other.
LEMMA DeleteInd ==
    ASSUME IndInv, UNCHANGED deploy, NEW r \in Requests, Delete(r), Notify,
           UNCHANGED <<held, used, blocking, wake, giveUp, resets, calls, shutdown>>
    PROVE  IndInv'
<1>1. PICK a \in {"released", "failed"} : pc' = [pc EXCEPT ![r] = a]
  BY DEF Delete, AnswerTo
<1>2. CASE rec.nonce = snap[r].nonce
  <2>1. rec = snap[r]
    BY <1>2 DEF Delete, IndInv, NonceInv, RequestInv
  <2> QED
    BY <1>1, <1>2, <2>1, RemoveInd DEF Delete
<1>3. CASE rec.nonce # snap[r].nonce
  BY <1>1, <1>3, MissInd DEF Delete, Notify
<1> QED
  BY <1>2, <1>3

\* Every step of a request at the store.
LEMMA AtTheStoreInd ==
    ASSUME IndInv, UNCHANGED deploy, NEW r \in Requests, AtTheStore(r)
    PROVE  IndInv'
<1>1. rec' = rec => UNCHANGED feed
  BY DEF AtTheStore, Notify
<1>2. CASE PutIfAbsent(r) \/ Steal(r) \/ Extend(r) \/ Delete(r)
  BY <1>2, PutInd, StealInd, ExtendInd, DeleteInd DEF AtTheStore
<1>3. CASE Read(r)
  BY <1>1, <1>3, ReadInd DEF AtTheStore, Read
<1>4. CASE Measure(r)
  BY <1>1, <1>4, MeasureInd DEF AtTheStore, Measure
<1>5. CASE CheckRenew(r)
  BY <1>1, <1>5, CheckRenewInd DEF AtTheStore, CheckRenew
<1>6. CASE CheckRelease(r)
  BY <1>1, <1>6, CheckReleaseInd DEF AtTheStore, CheckRelease
<1>7. CASE Fail(r)
  BY <1>1, <1>7, FailInd DEF AtTheStore, Fail
<1> QED
  BY <1>2, <1>3, <1>4, <1>5, <1>6, <1>7 DEF AtTheStore, StoreStep

-----------------------------------------------------------------------------
(* The calls, the waits, and time.                                         *)

\* A call draws an owner: a guard a new one, a remote client its own.
LEMMA DrawInd ==
    ASSUME IndInv, UNCHANGED deploy, NEW r \in Requests, NEW o \in Owners, TryLock(r, o) \/ Lock(r, o)
    PROVE  IndInv'
<1>1. /\ StartAcquire(r, o) /\ UNCHANGED <<held, shutdown>>
      /\ deploy.fresh => held[r] = NoToken
      /\ \/ deploy.fresh /\ o \notin used /\ used' = used \cup {o}
         \/ ~deploy.fresh /\ o = OwnerOf[r] /\ used' = used \cup {o}
  BY DEF TryLock, Lock, MayDraw
<1>2. /\ blocking' \subseteq Requests /\ feed' \subseteq blocking'
      /\ blocking \subseteq blocking' /\ blocking' \subseteq blocking \cup {r}
      /\ feed \ {r} \subseteq feed'
  BY DEF TryLock, Lock, waitVars, IndInv, TypeOK
<1>3. /\ wake' \in [Requests -> Nat] /\ giveUp' \in [Requests -> Nat]
      /\ resets' \in [Requests -> Nat] /\ calls' \in Nat
  BY DEF TryLock, Lock, Call, waitVars, IndInv, TypeOK, LeaseTypeOK
<1> QED
  BY <1>1, <1>2, <1>3, AcquireInd

\* An answered call returns, and its client has what After says.
LEMMA AnswerInd ==
    ASSUME IndInv, UNCHANGED deploy, NEW r \in Requests, Answer(r)
    PROVE  IndInv'
<1>1. \/ After(r) \in {NoToken, held[r]}
      \/ pc[r] \in {"acquired", "renewed"} /\ After(r) = tok[r]
  BY DEF After
<1>2. Return(r) /\ held' = [held EXCEPT ![r] = After(r)] /\ UNCHANGED <<used, calls, shutdown>>
  BY DEF Answer
<1> QED
  BY <1>1, <1>2, ReturnInd

\* It tries again, unless the backend shuts down.
LEMMA RetryInd ==
    ASSUME IndInv, UNCHANGED deploy, NEW r \in Requests, pc[r] = "asleep",
           NEW n \in Nat, NEW pending \in {feed, feed \ {r}}, Retry(r, n, pending),
           UNCHANGED <<held, used, calls, shutdown>>
    PROVE  IndInv'
<1>1. CASE shutdown
  BY <1>1, GiveUpInd DEF Retry
<1>2. CASE ~shutdown
  <2>1. /\ StartAcquire(r, tok[r].owner) /\ tok[r].owner \in Owners
        /\ deploy.fresh => held[r] = NoToken
    BY <1>2 DEF Retry, IndInv, RequestInv, TenureInv
  <2>2. /\ blocking' = blocking /\ feed' = pending /\ feed \ {r} \subseteq pending
        /\ blocking \subseteq Requests /\ pending \subseteq blocking
    BY <1>2 DEF Retry, IndInv, TypeOK
  <2>3. /\ wake' \in [Requests -> Nat] /\ giveUp' \in [Requests -> Nat]
        /\ resets' \in [Requests -> Nat] /\ calls' \in Nat
    BY <1>2 DEF Retry, IndInv, TypeOK
  <2> QED
    BY <2>1, <2>2, <2>3, AcquireInd
<1> QED
  BY <1>1, <1>2

\* The steps of wait_for_lease.
LEMMA WaiterInd ==
    ASSUME IndInv, UNCHANGED deploy, NEW r \in Requests, Waiter(r)
    PROVE  IndInv'
<1>1. CASE Contend(r)
  <2>1. /\ pc[r] = "contended" /\ r \in blocking
        /\ UNCHANGED <<held, used, calls, shutdown>>
        /\ Return(r) \/ \E w \in Nat : Sleep(r, w)
    BY <1>1 DEF Contend, Least, IndInv, TypeOK, LeaseTypeOK
  <2> QED
    BY <2>1, GiveUpInd, SleepInd
<1>2. CASE WakeOnEvent(r)
  BY <1>2, RetryInd DEF WakeOnEvent
<1>3. CASE WakeOnElapse(r)
  BY <1>3, GiveUpInd, RetryInd DEF WakeOnElapse
<1>4. CASE WatchClosed(r) \/ ShutdownWakes(r)
  BY <1>4, GiveUpInd DEF WatchClosed, ShutdownWakes
<1>5. CASE StreamEnded(r)
  <2>1. /\ pc[r] = "asleep" /\ UNCHANGED <<held, used, calls, shutdown>>
        /\ Return(r) \/ \E n \in Nat : Retry(r, n, feed \ {r})
    BY <1>5 DEF StreamEnded, IndInv, TypeOK
  <2> QED
    BY <2>1, GiveUpInd, RetryInd
<1> QED
  BY <1>1, <1>2, <1>3, <1>4, <1>5 DEF Waiter

\* The cache drops the record when the retention is over.
LEMMA ExpireInd ==
    ASSUME IndInv, UNCHANGED deploy, Expire
    PROVE  IndInv'
<1>1. rec.deadline <= now
  <2>1. CASE rec.owner \in Owners
    BY <2>1 DEF Expire, Reap, IndInv, TypeOK, LeaseTypeOK, Records, RecordInv
  <2>2. CASE rec.owner = Foreign
    BY <2>2 DEF IndInv, RecordInv, TypeOK, LeaseTypeOK, Records
  <2> QED
    BY <2>1, <2>2 DEF Expire, Reap, IndInv, TypeOK, LeaseTypeOK, Records, RecordInv
<1> QED
  BY <1>1, RemoveInd DEF Expire, Reap

\* Time passes, but not past the deadline of a prompt renewal.
LEMMA PassesInd ==
    ASSUME IndInv, UNCHANGED deploy, Passes
    PROVE  IndInv'
<1> USE DEF IndInv, TypeOK, LeaseTypeOK, Passes, Tick, storeVars, lockVars, waitVars
<1>1. TypeOK'
  OBVIOUS
<1>2. RecordInv' /\ NonceInv' /\ SleepInv'
  BY DEF RecordInv, NonceInv, SleepInv, Records
<1>3. RequestInv' /\ OwnerInv' /\ TenureInv'
  BY DEF RequestInv, OwnerInv, TenureInv, Records
<1>4. ExtendInv' /\ ClaimInv'
  BY DEF ExtendInv, ClaimInv, Claims, Records, Tokens
<1> QED
  BY <1>1, <1>2, <1>3, <1>4

\* Every step preserves the invariant.
LEMMA StepInd == IndInv /\ [Next /\ UNCHANGED deploy]_<<vars, deploy>> => IndInv'
<1> SUFFICES ASSUME IndInv, [Next /\ UNCHANGED deploy]_<<vars, deploy>> PROVE IndInv'
  OBVIOUS
<1>1. CASE UNCHANGED <<vars, deploy>> \/ (UNCHANGED deploy /\ Revoke)
  <2>1. UNCHANGED <<deploy, now, rec, writes, pc, tok, snap, due, tries, lapse, held, used, blocking,
                    wake, giveUp, feed, resets, calls>>
    BY <1>1 DEF vars, leaseVars, storeVars, lockVars, waitVars, Revoke
  <2>2. shutdown' \in BOOLEAN
    BY <1>1 DEF vars, leaseVars, storeVars, lockVars, waitVars, Revoke, IndInv, TypeOK
  <2>3. TypeOK'
    BY <2>1, <2>2 DEF IndInv, TypeOK, LeaseTypeOK
  <2>4. RecordInv' /\ NonceInv' /\ RequestInv' /\ OwnerInv'
    BY <2>1 DEF IndInv, RecordInv, NonceInv, RequestInv, OwnerInv
  <2>5. TenureInv' /\ ExtendInv' /\ ClaimInv' /\ SleepInv'
    BY <2>1 DEF IndInv, TenureInv, ExtendInv, ClaimInv, Claims, SleepInv
  <2> QED
    BY <2>1, <2>3, <2>4, <2>5 DEF IndInv
<1>2. ASSUME NEW r \in Requests, UNCHANGED deploy,
             \/ \E o \in Owners : TryLock(r, o) \/ Lock(r, o)
             \/ Renew(r) \/ Release(r) \/ Drop(r)
             \/ AtTheStore(r) \/ Answer(r) \/ Waiter(r)
      PROVE  IndInv'
  BY <1>2, DrawInd, RenewInd, ReleaseInd, DropInd, AtTheStoreInd, AnswerInd, WaiterInd
<1>3. CASE UNCHANGED deploy /\ (Expire \/ Passes)
  BY <1>3, ExpireInd, PassesInd
<1> QED
  BY <1>1, <1>2, <1>3 DEF Next

\* So it holds in every reachable state.
LEMMA Inductive == Spec => []IndInv
BY InitInd, StepInd, PTL DEF Spec

-----------------------------------------------------------------------------
(* What the clients rely on.                                               *)

\* Where renewals are prompt, two clients never hold the lock at once (lease.rs,
\* try_acquire and renew): of two tokens that have not run out, both would name
\* the owner of the one record.
THEOREM LockExclusive == Spec => []OneHolder
<1>1. IndInv => OneHolder
  <2> SUFFICES ASSUME IndInv, deploy.prompt,
                      NEW c \in Clients, NEW d \in Clients, Holds(c), Holds(d)
               PROVE  c = d
    BY DEF OneHolder, Exclusive, IndInv
  <2>1. held[c].owner = rec.owner /\ held[d].owner = rec.owner
    BY DEF IndInv, ClaimInv, Claims, Holds
  <2>2. held[c].owner \in Owners
    BY DEF IndInv, RequestInv, Holds
  <2> QED
    BY <2>1, <2>2 DEF IndInv, OwnerInv
<1> QED
  BY <1>1, Inductive, PTL

\* A lock() never sleeps on a name that nobody holds without an event in its feed
\* (lock.rs, wait_for_lease): a release between the failed claim and the wait is
\* not missed.
THEOREM NeverSleepsOnFree == Spec => []NoSleepOnFreeName
<1>1. IndInv => NoSleepOnFreeName
  BY DEF IndInv, SleepInv, RequestInv, NoSleepOnFreeName
<1> QED
  BY <1>1, Inductive, PTL

\* The steps that write the record: a creation, a steal, a renewal or a release
\* that found what it had read, or the end of the retention.
LEMMA Writers ==
    ASSUME IndInv, Next, rec' # rec
    PROVE  \/ Reap
           \/ \E r \in Requests :
                \/ rec = NoRecord
                   /\ rec' = Entry(r, tok[r].owner, FirstFence, 1, writes + 1)
                   /\ tok[r].owner \in Owners
                \/ pc[r] = "steal" /\ rec.nonce = snap[r].nonce /\ tok[r].owner \in Owners
                   /\ rec' = Entry(r, tok[r].owner, snap[r].fence + 1, rec.version + 1, writes + 1)
                \/ pc[r] = "extend" /\ tok[r].owner \in Owners
                   /\ rec' = Entry(r, snap[r].owner, snap[r].fence, rec.version + 1, snap[r].tenure)
                \/ pc[r] = "delete" /\ rec.nonce = snap[r].nonce /\ rec' = NoRecord
<1>1. CASE Expire
  BY <1>1 DEF Expire
<1>2. ASSUME NEW r \in Requests, StoreStep(r)
      PROVE  PutIfAbsent(r) \/ Steal(r) \/ Extend(r) \/ Delete(r)
  BY <1>2 DEF StoreStep, Read, Measure, CheckRenew, CheckRelease, Fail
<1>3. CASE \E r \in Requests : AtTheStore(r)
  BY <1>2, <1>3 DEF AtTheStore, PutIfAbsent, Steal, Extend, Delete, Store, IndInv, RequestInv
<1>4. ASSUME NEW r \in Requests, \E o \in Owners : TryLock(r, o) \/ Lock(r, o)
      PROVE  FALSE
  BY <1>4 DEF TryLock, Lock, StartAcquire
<1>5. ASSUME NEW r \in Requests, Renew(r) \/ Release(r) \/ Drop(r) \/ Answer(r)
      PROVE  FALSE
  BY <1>5 DEF Renew, Release, Drop, Answer, StartRenew, StartRelease, Return, Finish, leaseVars, storeVars
<1>6. ASSUME NEW r \in Requests, Waiter(r)
      PROVE  FALSE
  BY <1>6 DEF Waiter, Contend, WakeOnEvent, WakeOnElapse, WatchClosed, StreamEnded, ShutdownWakes,
     Return, Finish, Sleep, Retry, StartAcquire
<1>7. CASE Passes \/ Revoke
  BY <1>7 DEF Passes, Tick, Revoke, leaseVars, storeVars
<1> QED
  BY <1>1, <1>3, <1>4, <1>5, <1>6, <1>7 DEF Next

\* No write to the stored record does harm (lease.rs, release; and, where renewals
\* are prompt, try_acquire and renew): only the holder's own release or the end of
\* the retention removes it, nobody else's write replaces it while it is live, and
\* its fence grows with its tenure.
THEOREM TenuresCorrect == Spec => TenuresKept
<1>1. ASSUME IndInv, Next, UNCHANGED deploy
      PROVE  /\ OnlyOwnReleaseRemoves
             /\ deploy.prompt => NoLiveTheft /\ FenceTellsTenures
  <2> USE <1>1
  <2>1. CASE rec' = rec
    BY <2>1 DEF OnlyOwnReleaseRemoves, NoLiveTheft, FenceTellsTenures
  <2>2. CASE Reap
    BY <2>2 DEF Reap, OnlyOwnReleaseRemoves, NoLiveTheft, FenceTellsTenures
  <2>3. ASSUME NEW r \in Requests, rec = NoRecord,
               rec' = Entry(r, tok[r].owner, FirstFence, 1, writes + 1)
        PROVE  OnlyOwnReleaseRemoves /\ NoLiveTheft /\ FenceTellsTenures
    BY <2>3 DEF OnlyOwnReleaseRemoves, NoLiveTheft, FenceTellsTenures, NoRecord
  <2>4. ASSUME NEW r \in Requests, pc[r] = "steal", rec.nonce = snap[r].nonce, tok[r].owner \in Owners,
               rec' = Entry(r, tok[r].owner, snap[r].fence + 1, rec.version + 1, writes + 1)
        PROVE  OnlyOwnReleaseRemoves /\ NoLiveTheft /\ FenceTellsTenures
    <3>1. rec' # NoRecord
      BY <2>4 DEF Entry, NoRecord
    <3>2. snap[r] = rec /\ rec.deadline <= now
      BY <2>4 DEF IndInv, NonceInv, RequestInv
    <3>3. rec'.fence = rec.fence + 1 /\ rec'.tenure = writes + 1
      BY <2>4, <3>2 DEF Entry
    <3>4. rec.tenure <= writes /\ rec.tenure \in Nat /\ rec.fence \in Nat /\ writes \in Nat
          /\ now \in Nat /\ rec.deadline \in Nat
      BY DEF IndInv, RecordInv, TypeOK, LeaseTypeOK, Records
    <3> QED
      BY <3>1, <3>2, <3>3, <3>4 DEF OnlyOwnReleaseRemoves, NoLiveTheft, FenceTellsTenures
  <2>5. ASSUME NEW r \in Requests, pc[r] = "extend", tok[r].owner \in Owners,
               rec' = Entry(r, snap[r].owner, snap[r].fence, rec.version + 1, snap[r].tenure)
        PROVE  /\ OnlyOwnReleaseRemoves
               /\ deploy.prompt => NoLiveTheft /\ FenceTellsTenures
    <3>1. rec' # NoRecord
      BY <2>5 DEF Entry, NoRecord, IndInv, RequestInv
    <3>2. deploy.prompt => rec'.fence = rec.fence /\ rec'.tenure = rec.tenure
      BY <2>5 DEF Entry, IndInv, ExtendInv
    <3> QED
      BY <3>1, <3>2 DEF OnlyOwnReleaseRemoves, NoLiveTheft, FenceTellsTenures
  <2>6. ASSUME NEW r \in Requests, pc[r] = "delete", rec.nonce = snap[r].nonce, rec' = NoRecord
        PROVE  OnlyOwnReleaseRemoves /\ NoLiveTheft /\ FenceTellsTenures
    <3>1. snap[r] = rec /\ tok[r].owner = rec.owner
      BY <2>6 DEF IndInv, NonceInv, RequestInv
    <3>2. deploy.fresh => tok[r].tenure = rec.tenure
      BY <2>6, <3>1 DEF IndInv, TenureInv
    <3> QED
      BY <2>6, <3>1, <3>2 DEF OnlyOwnReleaseRemoves, NoLiveTheft, FenceTellsTenures
  <2> QED
    BY <2>1, <2>2, <2>3, <2>4, <2>5, <2>6, Writers
<1>2. IndInv /\ [Next /\ UNCHANGED deploy]_<<vars, deploy>>
        => [/\ OnlyOwnReleaseRemoves
            /\ deploy.prompt => NoLiveTheft /\ FenceTellsTenures]_vars
  BY <1>1 DEF vars
<1> QED
  BY <1>2, Inductive, PTL DEF Spec, TenuresKept
=============================================================================
