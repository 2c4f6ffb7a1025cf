----------------------- MODULE ClusterElectionProofs ------------------------
(***************************************************************************)
(* What ClusterElection guarantees for any number of candidates, any TTL,  *)
(* retention and budget of missed renewals, with faults of the cache,      *)
(* broken watches, crashes and shutdown.                                   *)
(*                                                                         *)
(* The store's part of the argument is that of the lock: a condition on    *)
(* the bytes is exact (NonceInv) and nothing touches the record between    *)
(* the read and the write of a prompt renewal (ExtendInv).  The task's is  *)
(* that it runs one operation at a time and alone writes records under its *)
(* owner.  So a record under its owner is of the tenure its token names    *)
(* (TenureInv), and stays there until the token runs out (ClaimInv).       *)
(* LapseInv is about time: where each task is when a claim has lapsed.     *)
(* Every part but RecordInv is about one task and the record.              *)
(***************************************************************************)
EXTENDS ClusterElection, TLAPS

\* The stored record is there, is foreign, or carries a nonce and outlives its
\* deadline by the retention.
RecordInv ==
    /\ rec.owner = Nobody => rec = NoRecord
    /\ rec.owner = Foreign => rec.deadline = 0
    /\ rec.owner \in Owners => rec.nonce > 0 /\ rec.deadline < rec.reap
    /\ rec.deadline <= now + Ttl
    /\ rec.nonce <= writes

\* No nonce is handed out twice: what was read with the stored nonce is stored.
NonceInv(t) ==
    /\ snap[t].nonce <= writes
    /\ snap[t].nonce > 0 /\ snap[t].nonce = rec.nonce => snap[t] = rec

Claiming == {"enrol", "claim", "reclaim"}

\* What a task does in each phase, and where its operation can be.
StepInv(t) ==
    /\ phase[t] = "out" => doing[t] \in {"nothing", "enrol"}
    /\ phase[t] = "on" => doing[t] \in {"nothing", "claim", "reclaim", "renew", "observe"}
    /\ phase[t] = "leaving" <=> doing[t] = "leave"
    /\ phase[t] = "ended" => doing[t] = "nothing"
    /\ doing[t] = "nothing" <=> pc[t] = "idle"
    /\ doing[t] \in Claiming =>
        pc[t] \in {"put", "read", "measure", "steal", "acquired", "contended", "failed"}
    /\ doing[t] = "renew" => pc[t] \in {"renew", "extend", "renewed", "expired", "failed"}
    /\ doing[t] = "observe" => pc[t] = "measure"
    /\ doing[t] = "leave" => pc[t] \in {"release", "delete", "released", "failed"}
    /\ pc[t] = "failed" => deploy.faults
    /\ doing[t] \in {"nothing", "observe"} => ~byTimer[t]

\* The task's tokens, and what it believes and shows.
TaskInv(t) ==
    /\ doing[t] \notin {"nothing", "observe"} => tok[t].owner = OwnerOf[t]
    /\ mine[t] # NoToken => mine[t].owner = OwnerOf[t]
    /\ leader[t] => mine[t] # NoToken /\ phase[t] \in {"on", "leaving"}
    /\ shown[t] = "Leader" => leader[t]
    /\ doing[t] \in Claiming => ~leader[t]
    /\ doing[t] = "renew" => leader[t]
    /\ pc[t] \in {"renew", "extend"} => tok[t] = mine[t]

\* What an operation knows between its read and its write.
RequestInv(t) ==
    /\ due[t] <= now + Ttl
    /\ pc[t] \in Conditional => now + Ttl <= due[t] + Stall
    /\ pc[t] = "steal" => snap[t].nonce > 0 /\ snap[t].deadline <= now
    /\ pc[t] \in {"extend", "delete"} => snap[t].nonce > 0 /\ Matches(snap[t], tok[t])

\* The record under a task's owner is of the tenure that its token names.
SameTenure(e, k) == e.fence = k.fence /\ e.tenure = k.tenure

TenureInv(t) ==
    /\ rec.owner = OwnerOf[t] =>
        /\ leader[t] => SameTenure(rec, mine[t])
        /\ pc[t] \in {"acquired", "renewed"} => SameTenure(rec, tok[t])
        /\ doing[t] = "observe" => rec = snap[t]
    /\ pc[t] = "extend" => SameTenure(snap[t], mine[t])
    /\ pc[t] = "renewed" => SameTenure(tok[t], mine[t])
    /\ doing[t] = "observe" /\ leader[t] /\ snap[t].owner = OwnerOf[t]
        => SameTenure(snap[t], mine[t])

\* Nothing touches the record between the read and the write of a prompt renewal.
ExtendInv(t) ==
    deploy.prompt /\ pc[t] = "extend" =>
        rec = snap[t] /\ now < snap[t].deadline /\ snap[t].deadline <= due[t]

\* A token that has not run out names the owner of the record, and the live record
\* of its own that a task has looked at is still there.
Claims(k) == now < k.until => rec.owner = k.owner /\ k.until <= rec.deadline

ClaimInv(t) ==
    deploy.prompt =>
        /\ leader[t] /\ phase[t] = "on" => Claims(mine[t])
        /\ pc[t] \in {"acquired", "renewed"} => Claims(tok[t])
        /\ doing[t] = "observe" /\ snap[t].owner = OwnerOf[t] /\ now < snap[t].deadline
            => rec = snap[t]

\* A store call takes at most Stall, and no timer is set further ahead than the
\* longest wait.
TimeInv(t) ==
    /\ pc[t] # "idle" => began[t] <= now /\ now <= began[t] + Stall
    /\ tick[t] <= now + LongestWait

\* A call that will leave the stored claim to others began before it lapsed.
LeftAlone(t) ==
    /\ pc[t] \in {"contended", "acquired", "renewed", "extend"} => began[t] < rec.deadline
    /\ pc[t] = "measure" /\ doing[t] # "observe" => began[t] < rec.deadline
    /\ (pc[t] = "steal" \/ doing[t] = "observe")
        => (snap[t] = rec \/ began[t] < rec.deadline)

\* A task in its select! wakes in time to notice that the claim has lapsed, and the
\* call that will replace it begins at most one call later.
Notices(t) ==
    /\ ~byTimer[t] => tick[t] < rec.deadline + LongestWait + Stall
    /\ doing[t] = "nothing" => now < rec.deadline + LongestWait + Stall
    /\ doing[t] \in {"renew", "observe"}
        => began[t] < rec.deadline + LongestWait + Stall
    /\ doing[t] \in {"claim", "reclaim"}
        => began[t] < rec.deadline + LongestWait + 2 * Stall

LapseInv(t) ==
    ~deploy.faults /\ Stall < Ttl /\ rec.owner \in Owners =>
        /\ LeftAlone(t)
        /\ phase[t] = "on" => Notices(t)

\* All that is said of one task.
Local(t) ==
    /\ NonceInv(t) /\ StepInv(t) /\ TaskInv(t) /\ RequestInv(t)
    /\ TenureInv(t) /\ ExtendInv(t) /\ ClaimInv(t)
    /\ TimeInv(t) /\ LapseInv(t)

IndInv ==
    /\ deploy \in Deployments /\ TypeOK /\ RecordInv
    /\ \A t \in Candidates : Local(t)

USE LeaseAssumption, ElectionAssumption
USE DEF FirstFence, Never, AtStore, Answered, Steps, Matches, Live

-----------------------------------------------------------------------------
(* Values and delays.                                                      *)

\* The constants of the store are what their types say.
LEMMA Values == NoToken \in Tokens /\ NoRecord \in Records /\ Never \in Nat
BY DEF NoToken, Tokens, NoRecord, Records

\* The interval of renewals and the longest wait are numbers of ticks.
LEMMA WaitTypes == Interval \in Nat /\ LongestWait \in Nat /\ Interval <= LongestWait
<1>1. Interval \in Nat
  BY DEF Interval
<1> QED
  BY <1>1 DEF LongestWait

\* next_renewal_delay never exceeds the longest wait.
LEMMA DelayBound ==
    ASSUME NEW lead \in BOOLEAN, NEW left \in Nat, NEW d \in Delays(lead, left)
    PROVE  d \in Nat /\ d <= LongestWait
<1>1. CASE lead
  BY <1>1, WaitTypes DEF Delays
<1>2. CASE ~lead
  <2> DEFINE base == Lesser(Interval, left)
  <2>1. base \in Nat /\ base <= Interval
    BY WaitTypes DEF Lesser
  <2>2. PICK j \in Jitter(base) : d = base + j
    BY <1>2 DEF Delays
  <2> HIDE DEF base
  <2>3. j \in Nat /\ j <= (base + 1) \div 2
    BY <2>1, <2>2 DEF Jitter
  <2>4. (base + 1) \div 2 <= (Interval + 1) \div 2
    BY <2>1, WaitTypes
  <2> QED
    BY <2>1, <2>2, <2>3, <2>4, WaitTypes DEF LongestWait
<1> QED
  BY <1>1, <1>2

-----------------------------------------------------------------------------
(* Steps of one task that leave the record alone.                          *)

\* A step leaves another task alone.
Untouched(u) ==
    /\ pc'[u] = pc[u] /\ tok'[u] = tok[u] /\ snap'[u] = snap[u] /\ due'[u] = due[u]
    /\ phase'[u] = phase[u] /\ doing'[u] = doing[u] /\ byTimer'[u] = byTimer[u]
    /\ began'[u] = began[u] /\ leader'[u] = leader[u] /\ mine'[u] = mine[u]
    /\ tick'[u] = tick[u] /\ shown'[u] = shown[u]

\* What is said of a task holds on while the task and the record stay as they are.
LEMMA OtherTask ==
    ASSUME NEW u \in Candidates, Local(u), Untouched(u), UNCHANGED <<deploy, now, rec, writes>>
    PROVE  Local(u)'
<1> USE DEF Untouched, Local
<1>1. NonceInv(u)' /\ StepInv(u)' /\ TaskInv(u)' /\ RequestInv(u)'
  BY DEF NonceInv, StepInv, TaskInv, RequestInv
<1>2. TenureInv(u)' /\ ExtendInv(u)' /\ ClaimInv(u)'
  BY DEF TenureInv, SameTenure, ExtendInv, ClaimInv, Claims
<1>3. TimeInv(u)' /\ LapseInv(u)'
  BY DEF TimeInv, LapseInv, LeftAlone, Notices
<1> QED
  BY <1>1, <1>2, <1>3

\* So a step of one task has to be looked at for that task only.
LEMMA OneTask ==
    ASSUME IndInv, UNCHANGED <<deploy, now, rec, writes>>, NEW t \in Candidates,
           \A u \in Candidates \ {t} : Untouched(u), TypeOK', Local(t)'
    PROVE  IndInv'
<1>1. \A u \in Candidates : Local(u)'
  BY OtherTask DEF IndInv
<1>2. RecordInv'
  BY DEF IndInv, RecordInv
<1> QED
  BY <1>1, <1>2 DEF IndInv

\* The initial state: no record or one nobody here wrote, and no task.
LEMMA InitInd == Init => IndInv
<1> SUFFICES ASSUME Init PROVE IndInv
  OBVIOUS
<1>1. rec \in Records /\ RecordInv
  <2>1. CASE rec = NoRecord
    BY <2>1 DEF Init, LeaseInit, Records, RecordInv, NoRecord
  <2>2. CASE rec = ForeignValue
    BY <2>2 DEF Init, LeaseInit, Records, RecordInv, ForeignValue
  <2>3. ASSUME NEW o \in Owners, rec = Leftover(o) PROVE rec \in Records /\ RecordInv
    BY <2>3 DEF Init, LeaseInit, Records, RecordInv, NoRecord, Leftover
  <2> QED
    BY <2>1, <2>2, <2>3 DEF Init, LeaseInit
<1>2. TypeOK /\ deploy \in Deployments
  <2>1. LeaseTypeOK /\ deploy \in Deployments
    <3>1. rec.nonce \in Nat
      BY <1>1 DEF Records
    <3> QED
      BY <1>1, <3>1, Values DEF Init, LeaseInit, LeaseTypeOK
  <2>2. NoToken \in Tokens /\ Unknown \in Nat
    BY Values DEF Unknown
  <2>3. /\ phase \in [Candidates -> {"out", "on", "leaving", "ended"}]
        /\ doing \in [Candidates -> Doings] /\ mine \in [Candidates -> Tokens]
        /\ byTimer \in [Candidates -> BOOLEAN] /\ leader \in [Candidates -> BOOLEAN]
    BY <2>2 DEF Init, Doings
  <2>4. /\ began \in [Candidates -> Nat] /\ armed \in [Candidates -> Nat]
        /\ tick \in [Candidates -> Nat] /\ seen \in [Candidates -> Nat]
        /\ missed \in [Candidates -> 0 .. MaxMissed]
        /\ shown \in [Candidates -> {"Follower", "Leader", "Lost", "Gone"}]
    BY <2>2 DEF Init
  <2> QED
    BY <2>1, <2>3, <2>4 DEF Init, TypeOK
<1>3. ASSUME NEW t \in Candidates PROVE Local(t)
  <2> USE DEF Init, LeaseInit
  <2>1. NonceInv(t) /\ StepInv(t) /\ TaskInv(t) /\ RequestInv(t)
    BY <1>1 DEF NonceInv, StepInv, TaskInv, RequestInv, Claiming, Conditional, NoRecord, Records
  <2>2. TenureInv(t) /\ ExtendInv(t) /\ ClaimInv(t)
    BY DEF TenureInv, ExtendInv, ClaimInv
  <2>3. TimeInv(t) /\ LapseInv(t)
    BY WaitTypes DEF TimeInv, LapseInv, LeftAlone
  <2> QED
    BY <2>1, <2>2, <2>3 DEF Local
<1> QED
  BY <1>1, <1>2, <1>3 DEF IndInv

\* An operation returns and the task goes to its select!, with the token k, its
\* timer at n, as the leader or not.
LEMMA ReturnInd ==
    ASSUME IndInv, UNCHANGED deploy, NEW t \in Candidates, Finish(t),
           phase[t] \in {"on", "out"}, pc[t] # "idle",
           NEW k \in Tokens, NEW n \in Nat, NEW l \in BOOLEAN,
           NEW s \in {"Follower", "Leader", "Lost", "Gone"},
           phase' = [phase EXCEPT ![t] = "on"], doing' = [doing EXCEPT ![t] = "nothing"],
           byTimer' = [byTimer EXCEPT ![t] = FALSE], began' = [began EXCEPT ![t] = 0],
           leader' = [leader EXCEPT ![t] = l], mine' = [mine EXCEPT ![t] = k],
           tick' = [tick EXCEPT ![t] = n], shown' = [shown EXCEPT ![t] = s],
           armed' \in [Candidates -> Nat], seen' \in [Candidates -> Nat],
           missed' \in [Candidates -> 0 .. MaxMissed], UNCHANGED <<feed, watching, shutdown>>,
           k # NoToken => k.owner = OwnerOf[t], l => k # NoToken, s = "Leader" => l,
           rec.owner = OwnerOf[t] /\ l => SameTenure(rec, k),
           deploy.prompt /\ l => Claims(k),
           n <= now + LongestWait,
           ~deploy.faults /\ Stall < Ttl /\ rec.owner \in Owners =>
              now < rec.deadline + Stall /\ n < rec.deadline + LongestWait + Stall
    PROVE  IndInv'
<1> USE DEF IndInv, Finish
<1>0. UNCHANGED <<now, rec, writes>>
  OBVIOUS
<1>1. TypeOK'
  <2>1. LeaseTypeOK'
    BY Values DEF TypeOK, LeaseTypeOK
  <2> QED
    BY <2>1 DEF TypeOK, Doings
<1>2. \A u \in Candidates \ {t} : Untouched(u)
  BY DEF Untouched, TypeOK, LeaseTypeOK
<1>3. /\ pc'[t] = "idle" /\ tok'[t] = NoToken /\ snap'[t] = NoRecord /\ due'[t] = 0
      /\ phase'[t] = "on" /\ doing'[t] = "nothing" /\ byTimer'[t] = FALSE /\ began'[t] = 0
      /\ leader'[t] = l /\ mine'[t] = k /\ tick'[t] = n /\ shown'[t] = s
  BY DEF TypeOK, LeaseTypeOK
<1>4. now \in Nat /\ writes \in Nat /\ rec.deadline \in Nat
  BY DEF TypeOK, LeaseTypeOK, Records
<1>5. Local(t)'
  <2>1. NonceInv(t)' /\ StepInv(t)' /\ TaskInv(t)' /\ RequestInv(t)'
    BY <1>0, <1>3, <1>4 DEF NonceInv, StepInv, TaskInv, RequestInv, Claiming, Conditional, NoRecord
  <2>2. TenureInv(t)' /\ ExtendInv(t)' /\ ClaimInv(t)'
    BY <1>0, <1>3 DEF TenureInv, SameTenure, ExtendInv, ClaimInv, Claims
  <2>3. TimeInv(t)' /\ LapseInv(t)'
    BY <1>0, <1>3, <1>4, WaitTypes DEF TimeInv, LapseInv, LeftAlone, Notices
  <2> QED
    BY <2>1, <2>2, <2>3 DEF Local
<1> QED
  BY <1>0, <1>1, <1>2, <1>5, OneTask

\* What is over: the operation has lasted at most Stall.
LEMMA EndsInTime ==
    ASSUME IndInv, NEW t \in Candidates, pc[t] # "idle", phase[t] \in {"on", "out"},
           \/ pc[t] \in {"contended", "acquired", "renewed"}
           \/ pc[t] = "failed"
           \/ doing[t] = "observe" /\ (deploy.faults \/ now < snap[t].deadline)
    PROVE  ~deploy.faults /\ Stall < Ttl /\ rec.owner \in Owners => now < rec.deadline + Stall
<1> SUFFICES ASSUME ~deploy.faults, Stall < Ttl, rec.owner \in Owners
             PROVE  now < rec.deadline + Stall
  OBVIOUS
<1>1. now \in Nat /\ rec.deadline \in Nat /\ began[t] \in Nat
  BY DEF IndInv, TypeOK, LeaseTypeOK, Records
<1>2. now <= began[t] + Stall /\ LeftAlone(t) /\ pc[t] # "failed"
  BY DEF IndInv, Local, TimeInv, LapseInv, StepInv
<1>3. CASE began[t] < rec.deadline
  BY <1>1, <1>2, <1>3
<1>4. CASE doing[t] = "observe" /\ now < snap[t].deadline /\ snap[t] = rec
  BY <1>1, <1>4
<1>5. CASE pc[t] \in {"contended", "acquired", "renewed"}
  <2>1. began[t] < rec.deadline
    BY <1>2, <1>5 DEF LeftAlone
  <2> QED
    BY <1>3, <2>1
<1>6. CASE doing[t] = "observe" /\ now < snap[t].deadline
  BY <1>2, <1>3, <1>4, <1>6 DEF LeftAlone
<1> QED
  BY <1>2, <1>5, <1>6

\* Rest: an operation of an enrolled task is over.
LEMMA RestInd ==
    ASSUME IndInv, UNCHANGED deploy, NEW t \in Candidates, NEW lead \in BOOLEAN, NEW left \in Nat,
           Rest(t, lead, left), phase[t] = "on", pc[t] # "idle",
           NEW k \in Tokens, NEW l \in BOOLEAN,
           NEW s \in {"Follower", "Leader", "Lost", "Gone"},
           leader' = [leader EXCEPT ![t] = l], mine' = [mine EXCEPT ![t] = k],
           shown' = [shown EXCEPT ![t] = s],
           armed' \in [Candidates -> Nat], missed' \in [Candidates -> 0 .. MaxMissed],
           k # NoToken => k.owner = OwnerOf[t], l => k # NoToken, s = "Leader" => l,
           rec.owner = OwnerOf[t] /\ l => SameTenure(rec, k),
           deploy.prompt /\ l => Claims(k),
           ~deploy.faults /\ Stall < Ttl /\ rec.owner \in Owners => now < rec.deadline + Stall
    PROVE  IndInv'
<1> USE DEF Rest
<1>1. now \in Nat /\ rec.deadline \in Nat /\ tick[t] \in Nat
  BY DEF IndInv, TypeOK, LeaseTypeOK, Records
<1>2. PICK n \in Nat : /\ tick' = [tick EXCEPT ![t] = n]
                       /\ n <= now + LongestWait
                       /\ byTimer[t] \/ n = tick[t]
  <2>1. CASE byTimer[t]
    <3>1. PICK d \in Delays(lead, left) : tick' = [tick EXCEPT ![t] = now + d]
      BY <2>1
    <3>2. d \in Nat /\ d <= LongestWait
      BY DelayBound
    <3>3. now + d \in Nat /\ now + d <= now + LongestWait
      BY <1>1, <3>2, WaitTypes
    <3> QED
      BY <2>1, <3>1, <3>3, Zenon
  <2>2. CASE ~byTimer[t]
    <3>1. tick' = [tick EXCEPT ![t] = tick[t]]
      BY <2>2 DEF IndInv, TypeOK
    <3>2. tick[t] <= now + LongestWait
      BY DEF IndInv, Local, TimeInv
    <3> QED
      BY <1>1, <3>1, <3>2
  <2> QED
    BY <2>1, <2>2
<1>3. ~deploy.faults /\ Stall < Ttl /\ rec.owner \in Owners =>
              now < rec.deadline + Stall /\ n < rec.deadline + LongestWait + Stall
  <2> SUFFICES ASSUME ~deploy.faults, Stall < Ttl, rec.owner \in Owners
               PROVE  n < rec.deadline + LongestWait + Stall
    OBVIOUS
  <2>1. CASE byTimer[t]
    BY <1>1, <1>2, WaitTypes
  <2>2. CASE ~byTimer[t]
    BY <1>2, <2>2 DEF IndInv, Local, LapseInv, Notices
  <2> QED
    BY <2>1, <2>2
<1>4. phase' = [phase EXCEPT ![t] = "on"] /\ seen' \in [Candidates -> Nat]
  BY DEF IndInv, TypeOK
<1> QED
  BY <1>2, <1>3, <1>4, ReturnInd

\* A claim begins: the task is not, or is no longer, the leader.
LEMMA ClaimInd ==
    ASSUME IndInv, UNCHANGED <<deploy, shutdown>>, NEW t \in Candidates, StartAcquire(t, OwnerOf[t]),
           NEW what \in Claiming, NEW k \in {mine[t], NoToken}, NEW b \in BOOLEAN,
           NEW s \in {"Follower", "Lost", "Gone"},
           doing' = [doing EXCEPT ![t] = what], began' = [began EXCEPT ![t] = now],
           mine' = [mine EXCEPT ![t] = k], byTimer' = [byTimer EXCEPT ![t] = b],
           leader' = [leader EXCEPT ![t] = FALSE], shown' = [shown EXCEPT ![t] = s],
           UNCHANGED <<phase, tick, seen>>,
           armed' \in [Candidates -> Nat], missed' \in [Candidates -> 0 .. MaxMissed],
           feed' \subseteq watching', watching' \subseteq Candidates,
           \/ phase[t] = "out" /\ what = "enrol"
           \/ phase[t] = "on" /\ what # "enrol" /\ (b \/ ~byTimer[t]),
           ~deploy.faults /\ Stall < Ttl /\ rec.owner \in Owners /\ phase[t] = "on" =>
              now < rec.deadline + LongestWait + 2 * Stall
    PROVE  IndInv'
<1> USE DEF IndInv, StartAcquire
<1>0. UNCHANGED <<now, rec, writes>>
  OBVIOUS
<1> DEFINE new == [owner |-> OwnerOf[t], fence |-> 0, tenure |-> 0, until |-> 0]
<1>1. TypeOK'
  <2>1. new \in Tokens /\ k \in Tokens
    BY Values DEF Tokens, TypeOK
  <2>2. LeaseTypeOK'
    BY <2>1, Values DEF TypeOK, LeaseTypeOK
  <2>3. /\ doing' \in [Candidates -> Doings] /\ byTimer' \in [Candidates -> BOOLEAN]
        /\ leader' \in [Candidates -> BOOLEAN] /\ mine' \in [Candidates -> Tokens]
    BY <2>1 DEF TypeOK, Doings, Claiming
  <2>4. /\ began' \in [Candidates -> Nat]
        /\ shown' \in [Candidates -> {"Follower", "Leader", "Lost", "Gone"}]
    BY DEF TypeOK, LeaseTypeOK
  <2> QED
    BY <2>2, <2>3, <2>4 DEF TypeOK
<1>2. \A u \in Candidates \ {t} : Untouched(u)
  BY DEF Untouched, TypeOK, LeaseTypeOK
<1>3. /\ pc'[t] = "put" /\ tok'[t] = new /\ snap'[t] = snap[t] /\ due'[t] = now + Ttl
      /\ phase'[t] = phase[t] /\ doing'[t] = what /\ byTimer'[t] = b /\ began'[t] = now
      /\ leader'[t] = FALSE /\ mine'[t] = k /\ tick'[t] = tick[t] /\ shown'[t] = s
  BY DEF TypeOK, LeaseTypeOK
<1>4. now \in Nat /\ writes \in Nat /\ rec.deadline \in Nat /\ new.owner = OwnerOf[t]
  BY DEF TypeOK, LeaseTypeOK, Records
<1> HIDE DEF new
<1>5. Local(t)'
  <2>0. Local(t)
    OBVIOUS
  <2>1. NonceInv(t)' /\ StepInv(t)' /\ TaskInv(t)' /\ RequestInv(t)'
    BY <1>0, <1>3, <1>4, <2>0 DEF Local, NonceInv, StepInv, TaskInv, RequestInv, Claiming, Conditional
  <2>2. TenureInv(t)' /\ ExtendInv(t)' /\ ClaimInv(t)'
    BY <1>0, <1>3, <2>0 DEF Local, TenureInv, SameTenure, ExtendInv, ClaimInv, Claims, Claiming
  <2>3. TimeInv(t)' /\ LapseInv(t)'
    BY <1>0, <1>3, <1>4, <2>0, WaitTypes DEF Local, TimeInv, LapseInv, LeftAlone, Notices, Claiming
  <2> QED
    BY <2>1, <2>2, <2>3 DEF Local
<1> QED
  BY <1>0, <1>1, <1>2, <1>5, OneTask

\* The task is over.
LEMMA GoneInd ==
    ASSUME IndInv, UNCHANGED deploy, NEW t \in Candidates, NEW s \in {"Lost", "Gone"}, Gone(t, s)
    PROVE  IndInv'
<1> USE DEF IndInv, Gone, Finish
<1>0. UNCHANGED <<now, rec, writes>>
  OBVIOUS
<1>1. TypeOK'
  <2>1. LeaseTypeOK'
    BY Values DEF TypeOK, LeaseTypeOK
  <2>2. mine' \in [Candidates -> Tokens] /\ seen' \in [Candidates -> Nat]
    BY Values DEF TypeOK, Unknown
  <2> QED
    BY <2>1, <2>2 DEF TypeOK, Doings
<1>2. \A u \in Candidates \ {t} : Untouched(u)
  BY DEF Untouched, TypeOK, LeaseTypeOK
<1>3. /\ pc'[t] = "idle" /\ tok'[t] = NoToken /\ snap'[t] = NoRecord /\ due'[t] = 0
      /\ phase'[t] = "ended" /\ doing'[t] = "nothing" /\ byTimer'[t] = FALSE /\ began'[t] = 0
      /\ leader'[t] = FALSE /\ mine'[t] = NoToken /\ tick'[t] = 0 /\ shown'[t] = s
  BY DEF TypeOK, LeaseTypeOK
<1>4. now \in Nat /\ writes \in Nat
  BY DEF TypeOK, LeaseTypeOK
<1>5. Local(t)'
  <2>1. NonceInv(t)' /\ StepInv(t)' /\ TaskInv(t)' /\ RequestInv(t)'
    BY <1>0, <1>3, <1>4 DEF NonceInv, StepInv, TaskInv, RequestInv, Claiming, Conditional, NoRecord
  <2>2. TenureInv(t)' /\ ExtendInv(t)' /\ ClaimInv(t)'
    BY <1>0, <1>3 DEF TenureInv, ExtendInv, ClaimInv
  <2>3. TimeInv(t)' /\ LapseInv(t)'
    BY <1>0, <1>3, <1>4, WaitTypes DEF TimeInv, LapseInv, LeftAlone
  <2> QED
    BY <2>1, <2>2, <2>3 DEF Local
<1> QED
  BY <1>0, <1>1, <1>2, <1>5, OneTask

\* The task gives its claim up, if it has one, and ends.
LEMMA LeaveInd ==
    ASSUME IndInv, UNCHANGED deploy, NEW t \in Candidates, phase[t] = "on",
           NEW s \in {"Gone", shown[t]}, Leave(t, s)
    PROVE  IndInv'
<1>1. CASE mine[t] = NoToken
  BY <1>1, GoneInd DEF Leave
<1>2. CASE mine[t] # NoToken
  <2>a. /\ pc' = [pc EXCEPT ![t] = "release"] /\ tok' = [tok EXCEPT ![t] = mine[t]]
        /\ UNCHANGED <<now, rec, writes, snap, due, tries, lapse>>
    BY <1>2 DEF Leave, StartRelease
  <2>b. /\ phase' = [phase EXCEPT ![t] = "leaving"] /\ doing' = [doing EXCEPT ![t] = "leave"]
        /\ began' = [began EXCEPT ![t] = now] /\ shown' = [shown EXCEPT ![t] = s]
        /\ byTimer' = [byTimer EXCEPT ![t] = FALSE]
        /\ feed' = feed \ {t} /\ watching' = watching \ {t}
        /\ UNCHANGED <<leader, mine, armed, missed, tick, seen, shutdown>>
    BY <1>2 DEF Leave
  <2> USE <1>2, <2>a, <2>b DEF IndInv
  <2>0. UNCHANGED <<now, rec, writes>>
    OBVIOUS
  <2>1. TypeOK'
    <3>1. LeaseTypeOK'
      BY DEF TypeOK, LeaseTypeOK
    <3>2. shown[t] \in {"Follower", "Leader", "Lost", "Gone"} /\ now \in Nat
      BY DEF TypeOK, LeaseTypeOK
    <3>3. /\ phase' \in [Candidates -> {"out", "on", "leaving", "ended"}]
          /\ doing' \in [Candidates -> Doings] /\ began' \in [Candidates -> Nat]
          /\ shown' \in [Candidates -> {"Follower", "Leader", "Lost", "Gone"}]
      BY <3>2 DEF TypeOK, Doings
    <3> QED
      BY <3>1, <3>3 DEF TypeOK
  <2>2. \A u \in Candidates \ {t} : Untouched(u)
    BY DEF Untouched, TypeOK, LeaseTypeOK
  <2>3. /\ pc'[t] = "release" /\ tok'[t] = mine[t] /\ snap'[t] = snap[t] /\ due'[t] = due[t]
        /\ phase'[t] = "leaving" /\ doing'[t] = "leave" /\ byTimer'[t] = FALSE /\ began'[t] = now
        /\ leader'[t] = leader[t] /\ mine'[t] = mine[t] /\ tick'[t] = tick[t] /\ shown'[t] = s
    BY DEF TypeOK, LeaseTypeOK
  <2>4. now \in Nat /\ Local(t)
    BY DEF TypeOK, LeaseTypeOK
  <2>5. Local(t)'
    <3>1. NonceInv(t)' /\ StepInv(t)' /\ TaskInv(t)' /\ RequestInv(t)'
      BY <2>0, <2>3, <2>4 DEF Local, NonceInv, StepInv, TaskInv, RequestInv, Claiming, Conditional
    <3>2. TenureInv(t)' /\ ExtendInv(t)' /\ ClaimInv(t)'
      BY <2>0, <2>3, <2>4 DEF Local, TenureInv, SameTenure, ExtendInv, ClaimInv
    <3>3. TimeInv(t)' /\ LapseInv(t)'
      BY <2>0, <2>3, <2>4, WaitTypes DEF Local, TimeInv, LapseInv, LeftAlone
    <3> QED
      BY <3>1, <3>2, <3>3 DEF Local
  <2> QED
    BY <2>0, <2>1, <2>2, <2>5, OneTask
<1> QED
  BY <1>1, <1>2

-----------------------------------------------------------------------------
(* The task's own steps.                                                   *)

\* The state of one task has its types.
LEMMA TaskTypes ==
    ASSUME IndInv, NEW t \in Candidates
    PROVE  /\ deploy \in Deployments /\ now \in Nat /\ writes \in Nat /\ rec \in Records
           /\ pc[t] \in Steps \cup {"idle", "asleep"} /\ tok[t] \in Tokens /\ snap[t] \in Records
           /\ due[t] \in Nat /\ lapse[t] \in Nat
           /\ phase[t] \in {"out", "on", "leaving", "ended"} /\ doing[t] \in Doings
           /\ byTimer[t] \in BOOLEAN /\ leader[t] \in BOOLEAN /\ began[t] \in Nat
           /\ tick[t] \in Nat /\ seen[t] \in Nat /\ missed[t] \in 0 .. MaxMissed
           /\ mine[t] \in Tokens /\ shown[t] \in {"Follower", "Leader", "Lost", "Gone"}
           /\ Local(t)
BY DEF IndInv, TypeOK, LeaseTypeOK

\* Which phase a task is in while it works.
LEMMA Enlisted ==
    ASSUME IndInv, NEW t \in Candidates
    PROVE  /\ Waits(t) => doing[t] = "nothing"
           /\ doing[t] \in {"claim", "reclaim", "renew", "observe"} => phase[t] = "on" /\ pc[t] # "idle"
           /\ doing[t] = "enrol" => phase[t] = "out" /\ pc[t] # "idle"
BY TaskTypes DEF Local, StepInv, Waits

\* A task that is to claim a lapsed record begins to in time.
LEMMA ClaimsInTime ==
    ASSUME IndInv, NEW t \in Candidates, Waits(t) \/ doing[t] \in {"renew", "observe"},
           ~deploy.faults, Stall < Ttl, rec.owner \in Owners
    PROVE  now < rec.deadline + LongestWait + 2 * Stall
<1>1. now \in Nat /\ began[t] \in Nat /\ rec.deadline \in Nat
  BY TaskTypes DEF Records
<1>2. phase[t] = "on" /\ doing[t] \in {"nothing", "renew", "observe"} /\ (doing[t] = "nothing" <=> pc[t] = "idle")
  BY Enlisted, TaskTypes DEF Waits, Local, StepInv
<1>3. Notices(t) /\ (pc[t] # "idle" => now <= began[t] + Stall)
  BY <1>2, TaskTypes DEF Local, LapseInv, TimeInv
<1> QED
  BY <1>1, <1>2, <1>3, WaitTypes DEF Notices

\* A task that does not lead claims.
LEMMA FollowerClaims ==
    ASSUME IndInv, UNCHANGED <<deploy, shutdown>>, NEW t \in Candidates, StartAcquire(t, OwnerOf[t]),
           ~leader[t], NEW what \in Claiming, NEW b \in BOOLEAN,
           doing' = [doing EXCEPT ![t] = what], began' = [began EXCEPT ![t] = now],
           byTimer' = [byTimer EXCEPT ![t] = b],
           UNCHANGED <<phase, leader, mine, armed, missed, tick, seen, shown>>,
           feed' \subseteq watching', watching' \subseteq Candidates,
           \/ phase[t] = "out" /\ what = "enrol"
           \/ phase[t] = "on" /\ what # "enrol" /\ (b \/ ~byTimer[t]),
           ~deploy.faults /\ Stall < Ttl /\ rec.owner \in Owners /\ phase[t] = "on" =>
              now < rec.deadline + LongestWait + 2 * Stall
    PROVE  IndInv'
<1>1. mine' = [mine EXCEPT ![t] = mine[t]] /\ shown' = [shown EXCEPT ![t] = shown[t]]
  BY DEF IndInv, TypeOK
<1>2. leader' = [leader EXCEPT ![t] = FALSE]
  <2>1. leader = [u \in Candidates |-> leader[u]] /\ leader[t] = FALSE
    BY TaskTypes DEF IndInv, TypeOK
  <2> QED
    BY <2>1
<1>3. shown[t] \in {"Follower", "Lost", "Gone"}
  BY TaskTypes DEF Local, TaskInv
<1>4. armed' \in [Candidates -> Nat] /\ missed' \in [Candidates -> 0 .. MaxMissed]
  BY DEF IndInv, TypeOK
<1> QED
  BY <1>1, <1>2, <1>3, <1>4, ClaimInd

\* A leader that has lost its claim shows it and claims again.
LEMMA LoseInd ==
    ASSUME IndInv, UNCHANGED deploy, NEW t \in Candidates, Lose(t), phase[t] = "on",
           NEW b \in BOOLEAN, byTimer' = [byTimer EXCEPT ![t] = b], b \/ ~byTimer[t],
           Waits(t) \/ doing[t] \in {"renew", "observe"}
    PROVE  IndInv'
<1>1. /\ leader' = [leader EXCEPT ![t] = FALSE] /\ mine' = [mine EXCEPT ![t] = NoToken]
      /\ shown' = [shown EXCEPT ![t] = "Lost"] /\ StartAcquire(t, OwnerOf[t])
      /\ doing' = [doing EXCEPT ![t] = "reclaim"] /\ began' = [began EXCEPT ![t] = now]
      /\ UNCHANGED <<phase, tick, seen, feed, watching, shutdown>>
  BY DEF Lose, Begin
<1>2. armed' \in [Candidates -> Nat] /\ missed' \in [Candidates -> 0 .. MaxMissed]
  BY DEF Lose, IndInv, TypeOK
<1>3. feed' \subseteq watching' /\ watching' \subseteq Candidates
  BY <1>1 DEF IndInv, TypeOK
<1> QED
  BY <1>1, <1>2, <1>3, ClaimInd, ClaimsInTime DEF Claiming

\* enrol begins.
LEMMA EnrolInd ==
    ASSUME IndInv, UNCHANGED deploy, NEW t \in Candidates, Enrol(t)
    PROVE  IndInv'
<1>1. ~leader[t]
  BY TaskTypes DEF Enrol, Local, TaskInv
<1>2. feed' \subseteq watching' /\ watching' \subseteq Candidates
  BY DEF Enrol, IndInv, TypeOK
<1>3. StartAcquire(t, OwnerOf[t]) /\ phase[t] = "out"
  BY DEF Enrol
<1> QED
  BY <1>1, <1>2, <1>3, FollowerClaims DEF Enrol, Claiming

\* The timer of a task that does not lead.
LEMMA TickClaimInd ==
    ASSUME IndInv, UNCHANGED deploy, NEW t \in Candidates, TickClaim(t)
    PROVE  IndInv'
<1>1. ~leader[t]
  BY TaskTypes DEF TickClaim, DueToRenew, Local, TaskInv
<1>2. feed' \subseteq watching' /\ watching' \subseteq Candidates
  BY DEF TickClaim, Begin, IndInv, TypeOK
<1>3. StartAcquire(t, OwnerOf[t]) /\ phase[t] = "on" /\ Waits(t)
  BY DEF TickClaim, Waits
<1> QED
  BY <1>1, <1>2, <1>3, FollowerClaims, ClaimsInTime DEF TickClaim, Begin, Claiming

\* Losses: the deadline has passed, the store says so, or too many renewals failed.
LEMMA LossInd ==
    ASSUME IndInv, UNCHANGED deploy, NEW t \in Candidates,
           \/ TickLate(t) \/ RenewRefused(t)
           \/ RenewMissed(t) /\ missed[t] + 1 > MaxMissed
           \/ ObserveVacancy(t) /\ leader[t]
    PROVE  IndInv'
<1>1. Lose(t) /\ (Waits(t) \/ doing[t] \in {"renew", "observe"})
  BY DEF TickLate, RenewRefused, RenewMissed, ObserveVacancy
<1>2. phase[t] = "on"
  BY <1>1, Enlisted DEF Waits
<1>3. byTimer' = [byTimer EXCEPT ![t] = TRUE] \/ byTimer' = byTimer
  BY DEF TickLate, RenewRefused, RenewMissed, ObserveVacancy
<1>4. byTimer = [byTimer EXCEPT ![t] = byTimer[t]] /\ byTimer[t] \in BOOLEAN
  BY DEF IndInv, TypeOK
<1> QED
  BY <1>1, <1>2, <1>3, <1>4, LoseInd

\* A follower saw that there is no live claim.
LEMMA VacancyInd ==
    ASSUME IndInv, UNCHANGED deploy, NEW t \in Candidates, ObserveVacancy(t), ~leader[t]
    PROVE  IndInv'
<1>1. /\ StartAcquire(t, OwnerOf[t]) /\ doing[t] = "observe"
      /\ doing' = [doing EXCEPT ![t] = "claim"] /\ began' = [began EXCEPT ![t] = now]
      /\ UNCHANGED <<phase, leader, mine, armed, missed, tick, seen, shown, shutdown>>
      /\ UNCHANGED <<byTimer, feed, watching>>
  BY DEF ObserveVacancy, Begin
<1>2. byTimer' = [byTimer EXCEPT ![t] = byTimer[t]] /\ byTimer[t] \in BOOLEAN
  BY <1>1 DEF IndInv, TypeOK
<1>3. feed' \subseteq watching' /\ watching' \subseteq Candidates
  BY <1>1 DEF IndInv, TypeOK
<1>4. phase[t] = "on"
  BY <1>1, Enlisted
<1> QED
  BY <1>1, <1>2, <1>3, <1>4, FollowerClaims, ClaimsInTime DEF Claiming

\* A leader begins to renew.
LEMMA TickRenewInd ==
    ASSUME IndInv, UNCHANGED deploy, NEW t \in Candidates, TickRenew(t)
    PROVE  IndInv'
<1>a. /\ pc' = [pc EXCEPT ![t] = "renew"] /\ tok' = [tok EXCEPT ![t] = mine[t]]
      /\ UNCHANGED <<now, rec, writes, snap, due, tries, lapse>>
      /\ doing' = [doing EXCEPT ![t] = "renew"] /\ began' = [began EXCEPT ![t] = now]
      /\ byTimer' = [byTimer EXCEPT ![t] = TRUE]
      /\ UNCHANGED <<phase, leader, mine, armed, missed, tick, seen, shown, feed, shutdown, watching>>
      /\ phase[t] = "on" /\ pc[t] = "idle" /\ leader[t] /\ mine[t] # NoToken
  BY DEF TickRenew, StartRenew, Begin, Waits, DueToRenew
<1>1. TypeOK'
  <2>1. LeaseTypeOK'
    BY <1>a DEF IndInv, TypeOK, LeaseTypeOK
  <2>2. /\ doing' \in [Candidates -> Doings] /\ byTimer' \in [Candidates -> BOOLEAN]
        /\ began' \in [Candidates -> Nat]
    BY <1>a DEF IndInv, TypeOK, LeaseTypeOK, Doings
  <2> QED
    BY <1>a, <2>1, <2>2 DEF IndInv, TypeOK
<1>2. \A u \in Candidates \ {t} : Untouched(u)
  BY <1>a DEF Untouched, IndInv, TypeOK, LeaseTypeOK
<1>3. /\ pc'[t] = "renew" /\ tok'[t] = mine[t] /\ snap'[t] = snap[t] /\ due'[t] = due[t]
      /\ phase'[t] = "on" /\ doing'[t] = "renew" /\ byTimer'[t] = TRUE /\ began'[t] = now
      /\ leader'[t] = leader[t] /\ mine'[t] = mine[t] /\ tick'[t] = tick[t] /\ shown'[t] = shown[t]
  BY <1>a DEF IndInv, TypeOK, LeaseTypeOK
<1>4. now \in Nat /\ Local(t) /\ doing[t] = "nothing"
  BY <1>a, TaskTypes DEF Local, StepInv
<1>5. Local(t)'
  <2>1. NonceInv(t)' /\ StepInv(t)' /\ TaskInv(t)' /\ RequestInv(t)'
    BY <1>a, <1>3, <1>4 DEF Local, NonceInv, StepInv, TaskInv, RequestInv, Claiming, Conditional
  <2>2. TenureInv(t)' /\ ExtendInv(t)' /\ ClaimInv(t)'
    BY <1>a, <1>3, <1>4 DEF Local, TenureInv, SameTenure, ExtendInv, ClaimInv, Claims
  <2>3. TimeInv(t)' /\ LapseInv(t)'
    BY <1>a, <1>3, <1>4, WaitTypes DEF Local, TimeInv, LapseInv, LeftAlone, Notices
  <2> QED
    BY <2>1, <2>2, <2>3 DEF Local
<1> QED
  BY <1>a, <1>1, <1>2, <1>5, OneTask

\* A watch event: the task looks at the record.
LEMMA ObserveInd ==
    ASSUME IndInv, UNCHANGED deploy, NEW t \in Candidates, Observe(t)
    PROVE  IndInv'
<1>a. /\ pc' = [pc EXCEPT ![t] = "measure"] /\ snap' = [snap EXCEPT ![t] = rec]
      /\ UNCHANGED <<now, rec, writes, tok, due, tries, lapse>>
      /\ doing' = [doing EXCEPT ![t] = "observe"] /\ began' = [began EXCEPT ![t] = now]
      /\ feed' = feed \ {t}
      /\ UNCHANGED <<phase, byTimer, leader, mine, armed, missed, tick, seen, shown, shutdown, watching>>
      /\ phase[t] = "on" /\ pc[t] = "idle"
  BY DEF Observe, Begin, Waits
<1>1. TypeOK'
  <2>1. LeaseTypeOK'
    BY <1>a DEF IndInv, TypeOK, LeaseTypeOK
  <2>2. doing' \in [Candidates -> Doings] /\ began' \in [Candidates -> Nat]
    BY <1>a DEF IndInv, TypeOK, LeaseTypeOK, Doings
  <2> QED
    BY <1>a, <2>1, <2>2 DEF IndInv, TypeOK
<1>2. \A u \in Candidates \ {t} : Untouched(u)
  BY <1>a DEF Untouched, IndInv, TypeOK, LeaseTypeOK
<1>3. /\ pc'[t] = "measure" /\ tok'[t] = tok[t] /\ snap'[t] = rec /\ due'[t] = due[t]
      /\ phase'[t] = "on" /\ doing'[t] = "observe" /\ byTimer'[t] = byTimer[t] /\ began'[t] = now
      /\ leader'[t] = leader[t] /\ mine'[t] = mine[t] /\ tick'[t] = tick[t] /\ shown'[t] = shown[t]
  BY <1>a DEF IndInv, TypeOK, LeaseTypeOK
<1>4. now \in Nat /\ Local(t) /\ doing[t] = "nothing" /\ rec.nonce <= writes
  BY <1>a, TaskTypes DEF Local, StepInv, IndInv, RecordInv
<1>5. Local(t)'
  <2>1. NonceInv(t)' /\ StepInv(t)' /\ TaskInv(t)' /\ RequestInv(t)'
    BY <1>a, <1>3, <1>4 DEF Local, NonceInv, StepInv, TaskInv, RequestInv, Claiming, Conditional
  <2>2. TenureInv(t)' /\ ExtendInv(t)' /\ ClaimInv(t)'
    BY <1>a, <1>3, <1>4 DEF Local, TenureInv, SameTenure, ExtendInv, ClaimInv, Claims
  <2>3. TimeInv(t)' /\ LapseInv(t)'
    BY <1>a, <1>3, <1>4, WaitTypes DEF Local, TimeInv, LapseInv, LeftAlone, Notices
  <2> QED
    BY <2>1, <2>2, <2>3 DEF Local
<1> QED
  BY <1>a, <1>1, <1>2, <1>5, OneTask

\* A token that the store has just granted is the task's own, and names the record.
LEMMA Granted ==
    ASSUME IndInv, NEW t \in Candidates, pc[t] \in {"acquired", "renewed"},
           doing[t] \notin {"nothing", "observe"}
    PROVE  /\ tok[t].owner = OwnerOf[t] /\ tok[t] # NoToken
           /\ rec.owner = OwnerOf[t] => SameTenure(rec, tok[t])
           /\ deploy.prompt => Claims(tok[t])
<1>1. tok[t].owner = OwnerOf[t]
  BY TaskTypes DEF Local, TaskInv
<1>2. tok[t] # NoToken
  <2>1. OwnerOf[t] # Nobody /\ NoToken.owner = Nobody
    BY DEF NoToken
  <2> QED
    BY <1>1, <2>1
<1> QED
  BY <1>1, <1>2, TaskTypes DEF Local, TenureInv, ClaimInv

\* What Contended said is a number of ticks.
LEMMA LeftType == ASSUME IndInv, NEW t \in Candidates PROVE Left(t) \in Nat
BY TaskTypes, Values DEF Left, Unknown

\* enrol returns: as the leader, or as a follower.
LEMMA EnrolledInd ==
    ASSUME IndInv, UNCHANGED deploy, NEW t \in Candidates, Enrolled(t)
    PROVE  IndInv'
<1> DEFINE won == pc[t] = "acquired"
<1>1. PICK d \in Delays(won, Left(t)) : tick' = [tick EXCEPT ![t] = now + d]
  BY DEF Enrolled
<1>2. d \in Nat /\ d <= LongestWait
  <2>1. won \in BOOLEAN /\ Left(t) \in Nat
    BY LeftType
  <2> HIDE DEF won
  <2> QED
    BY <1>1, <2>1, DelayBound
<1>3. phase[t] = "out" /\ pc[t] # "idle" /\ doing[t] = "enrol" /\ ~leader[t]
  BY Enlisted, TaskTypes DEF Enrolled, Local, TaskInv, Claiming
<1>4. now \in Nat /\ rec.deadline \in Nat
  BY TaskTypes DEF Records
<1>5. /\ now + d \in Nat /\ now + d <= now + LongestWait
      /\ ~deploy.faults /\ Stall < Ttl /\ rec.owner \in Owners =>
              now < rec.deadline + Stall /\ now + d < rec.deadline + LongestWait + Stall
  <2>1. ~deploy.faults /\ Stall < Ttl /\ rec.owner \in Owners => now < rec.deadline + Stall
    BY <1>3, EndsInTime DEF Enrolled
  <2> QED
    BY <1>2, <1>4, <2>1, WaitTypes
<1>6. /\ Finish(t) /\ phase' = [phase EXCEPT ![t] = "on"] /\ doing' = [doing EXCEPT ![t] = "nothing"]
      /\ byTimer' = [byTimer EXCEPT ![t] = FALSE] /\ began' = [began EXCEPT ![t] = 0]
      /\ UNCHANGED <<feed, watching, shutdown>>
  BY DEF Enrolled
<1>7. seen' \in [Candidates -> Nat]
  <2>1. Left(t) \in Nat
    BY LeftType
  <2> QED
    BY <2>1 DEF Enrolled, IndInv, TypeOK
<1>8. CASE won
  <2>1. /\ leader' = [leader EXCEPT ![t] = TRUE] /\ missed' = [missed EXCEPT ![t] = 0]
        /\ shown' = [shown EXCEPT ![t] = "Leader"]
        /\ mine' = [mine EXCEPT ![t] = tok[t]] /\ armed' = [armed EXCEPT ![t] = now + Ttl]
    BY <1>8 DEF Enrolled, Lead, Armed
  <2>2. armed' \in [Candidates -> Nat] /\ missed' \in [Candidates -> 0 .. MaxMissed]
    BY <1>4, <2>1 DEF IndInv, TypeOK
  <2>3. tok[t] \in Tokens
    BY TaskTypes
  <2>4. /\ tok[t].owner = OwnerOf[t] /\ tok[t] # NoToken
        /\ rec.owner = OwnerOf[t] => SameTenure(rec, tok[t])
        /\ deploy.prompt => Claims(tok[t])
    BY <1>3, <1>8, Granted
  <2> QED
    BY <1>1, <1>3, <1>5, <1>6, <1>7, <2>1, <2>2, <2>3, <2>4, ReturnInd
<1>9. CASE ~won
  <2>1. UNCHANGED <<leader, missed, shown, mine, armed>>
    BY <1>9 DEF Enrolled
  <2>2. armed' \in [Candidates -> Nat] /\ missed' \in [Candidates -> 0 .. MaxMissed]
    BY <2>1 DEF IndInv, TypeOK
  <2>3. /\ mine' = [mine EXCEPT ![t] = mine[t]] /\ leader' = [leader EXCEPT ![t] = leader[t]]
        /\ shown' = [shown EXCEPT ![t] = shown[t]]
    BY <2>1 DEF IndInv, TypeOK
  <2>4. /\ mine[t] \in Tokens
        /\ mine[t] # NoToken => mine[t].owner = OwnerOf[t]
        /\ leader[t] \in BOOLEAN
        /\ shown[t] \in {"Follower", "Leader", "Lost", "Gone"} /\ shown[t] # "Leader"
    BY <1>3, TaskTypes DEF Local, TaskInv
  <2> QED
    BY <1>1, <1>3, <1>5, <1>6, <1>7, <2>2, <2>3, <2>4, ReturnInd
<1> QED
  BY <1>8, <1>9

\* An operation is over and the task believes what it believed.
LEMMA KeepsInd ==
    ASSUME IndInv, UNCHANGED deploy, NEW t \in Candidates,
           NEW left \in Nat, Rest(t, TRUE, left) \/ Rest(t, FALSE, left),
           phase[t] = "on", pc[t] # "idle",
           leader' = [leader EXCEPT ![t] = leader[t]], mine' = [mine EXCEPT ![t] = mine[t]],
           NEW s \in {"Follower", shown[t]}, shown' = [shown EXCEPT ![t] = s],
           armed' \in [Candidates -> Nat], missed' \in [Candidates -> 0 .. MaxMissed],
           ~deploy.faults /\ Stall < Ttl /\ rec.owner \in Owners => now < rec.deadline + Stall
    PROVE  IndInv'
<1>1. mine[t] \in Tokens /\ leader[t] \in BOOLEAN
  BY TaskTypes
<1>2. s \in {"Follower", "Leader", "Lost", "Gone"}
  BY TaskTypes
<1>3. /\ mine[t] # NoToken => mine[t].owner = OwnerOf[t]
      /\ leader[t] => mine[t] # NoToken
      /\ s = "Leader" => leader[t]
      /\ rec.owner = OwnerOf[t] /\ leader[t] => SameTenure(rec, mine[t])
      /\ deploy.prompt /\ leader[t] => Claims(mine[t])
  BY TaskTypes DEF Local, TaskInv, TenureInv, ClaimInv
<1>4. CASE Rest(t, TRUE, left)
  BY <1>1, <1>2, <1>3, <1>4, RestInd
<1>5. CASE Rest(t, FALSE, left)
  BY <1>1, <1>2, <1>3, <1>5, RestInd
<1> QED
  BY <1>4, <1>5

\* A renewal that went through.
LEMMA RenewedInd ==
    ASSUME IndInv, UNCHANGED deploy, NEW t \in Candidates, Renewed(t)
    PROVE  IndInv'
<1>1. /\ mine' = [mine EXCEPT ![t] = tok[t]] /\ armed' = [armed EXCEPT ![t] = now + Ttl]
      /\ missed' = [missed EXCEPT ![t] = 0] /\ UNCHANGED <<leader, shown>>
      /\ Rest(t, TRUE, seen[t]) /\ doing[t] = "renew" /\ pc[t] = "renewed"
  BY DEF Renewed, Armed
<1>2. armed' \in [Candidates -> Nat] /\ missed' \in [Candidates -> 0 .. MaxMissed]
  <2>1. now \in Nat
    BY TaskTypes
  <2> QED
    BY <1>1, <2>1 DEF IndInv, TypeOK
<1>3. leader' = [leader EXCEPT ![t] = leader[t]] /\ shown' = [shown EXCEPT ![t] = shown[t]]
  BY <1>1 DEF IndInv, TypeOK
<1>4. /\ tok[t].owner = OwnerOf[t] /\ tok[t] # NoToken
      /\ rec.owner = OwnerOf[t] => SameTenure(rec, tok[t])
      /\ deploy.prompt => Claims(tok[t])
  BY <1>1, Granted
<1>5. /\ leader[t] \in BOOLEAN /\ seen[t] \in Nat /\ tok[t] \in Tokens
      /\ shown[t] \in {"Follower", "Leader", "Lost", "Gone"}
      /\ shown[t] = "Leader" => leader[t]
  BY TaskTypes DEF Local, TaskInv
<1>6. phase[t] = "on" /\ pc[t] # "idle"
  BY <1>1, Enlisted
<1>7. ~deploy.faults /\ Stall < Ttl /\ rec.owner \in Owners => now < rec.deadline + Stall
  BY <1>1, <1>6, EndsInTime
<1> QED
  BY <1>1, <1>2, <1>3, <1>4, <1>5, <1>6, <1>7, RestInd

\* A renewal that failed, within the budget.
LEMMA MissedInd ==
    ASSUME IndInv, UNCHANGED deploy, NEW t \in Candidates, RenewMissed(t), ~(missed[t] + 1 > MaxMissed)
    PROVE  IndInv'
<1>1. /\ missed' = [missed EXCEPT ![t] = missed[t] + 1] /\ Rest(t, TRUE, seen[t])
      /\ UNCHANGED <<leader, mine, armed, shown>> /\ doing[t] = "renew" /\ pc[t] = "failed"
  BY DEF RenewMissed
<1>2. missed' \in [Candidates -> 0 .. MaxMissed]
  <2>1. missed[t] + 1 \in 0 .. MaxMissed
    BY TaskTypes
  <2> QED
    BY <1>1, <2>1 DEF IndInv, TypeOK
<1>3. /\ leader' = [leader EXCEPT ![t] = leader[t]] /\ mine' = [mine EXCEPT ![t] = mine[t]]
      /\ shown' = [shown EXCEPT ![t] = shown[t]]
      /\ armed' \in [Candidates -> Nat] /\ seen[t] \in Nat
  BY <1>1 DEF IndInv, TypeOK
<1>4. phase[t] = "on" /\ pc[t] # "idle"
  BY <1>1, Enlisted
<1>5. ~deploy.faults /\ Stall < Ttl /\ rec.owner \in Owners => now < rec.deadline + Stall
  BY <1>1, <1>4, EndsInTime
<1>6. Rest(t, TRUE, seen[t])
  BY <1>1
<1> QED
  BY <1>2, <1>3, <1>4, <1>5, <1>6, KeepsInd

\* A claim that went through.
LEMMA ClaimedInd ==
    ASSUME IndInv, UNCHANGED deploy, NEW t \in Candidates, Claimed(t)
    PROVE  IndInv'
<1>1. /\ mine' = [mine EXCEPT ![t] = tok[t]] /\ armed' = [armed EXCEPT ![t] = now + Ttl]
      /\ leader' = [leader EXCEPT ![t] = TRUE] /\ missed' = [missed EXCEPT ![t] = 0]
      /\ shown' = [shown EXCEPT ![t] = "Leader"]
      /\ Rest(t, TRUE, Unknown) /\ doing[t] \in {"claim", "reclaim"} /\ pc[t] = "acquired"
  BY DEF Claimed, Lead, Armed
<1>2. armed' \in [Candidates -> Nat] /\ missed' \in [Candidates -> 0 .. MaxMissed]
  <2>1. now \in Nat
    BY TaskTypes
  <2> QED
    BY <1>1, <2>1 DEF IndInv, TypeOK
<1>3. /\ tok[t].owner = OwnerOf[t] /\ tok[t] # NoToken
      /\ rec.owner = OwnerOf[t] => SameTenure(rec, tok[t])
      /\ deploy.prompt => Claims(tok[t])
  BY <1>1, Granted
<1>4. tok[t] \in Tokens /\ Unknown \in Nat
  BY TaskTypes, Values DEF Unknown
<1>5. phase[t] = "on" /\ pc[t] # "idle"
  BY <1>1, Enlisted
<1>6. ~deploy.faults /\ Stall < Ttl /\ rec.owner \in Owners => now < rec.deadline + Stall
  BY <1>1, <1>5, EndsInTime
<1> QED
  BY <1>1, <1>2, <1>3, <1>4, <1>5, <1>6, RestInd

\* A claim that did not.
LEMMA ClaimFailsInd ==
    ASSUME IndInv, UNCHANGED deploy, NEW t \in Candidates, ClaimFails(t)
    PROVE  IndInv'
<1>1. /\ doing[t] \in {"claim", "reclaim"} /\ pc[t] \in {"contended", "failed"}
      /\ UNCHANGED <<leader, mine, armed, missed>>
      /\ Rest(t, FALSE, IF pc[t] = "contended" THEN Left(t) ELSE seen[t])
  BY DEF ClaimFails
<1>2. PICK s \in {"Follower", shown[t]} : shown' = [shown EXCEPT ![t] = s]
  BY DEF ClaimFails, IndInv, TypeOK
<1>3. (IF pc[t] = "contended" THEN Left(t) ELSE seen[t]) \in Nat
  BY LeftType, TaskTypes
<1>4. phase[t] = "on" /\ pc[t] # "idle"
  BY <1>1, Enlisted
<1>5. ~deploy.faults /\ Stall < Ttl /\ rec.owner \in Owners => now < rec.deadline + Stall
  BY <1>1, <1>4, EndsInTime
<1>6. /\ leader' = [leader EXCEPT ![t] = leader[t]] /\ mine' = [mine EXCEPT ![t] = mine[t]]
      /\ armed' \in [Candidates -> Nat] /\ missed' \in [Candidates -> 0 .. MaxMissed]
  BY <1>1 DEF IndInv, TypeOK
<1>7. Rest(t, FALSE, IF pc[t] = "contended" THEN Left(t) ELSE seen[t])
  BY <1>1
<1> QED
  BY <1>2, <1>3, <1>4, <1>5, <1>6, <1>7, KeepsInd

\* The task saw its own live claim.
LEMMA ReassureInd ==
    ASSUME IndInv, UNCHANGED deploy, NEW t \in Candidates, Reassure(t)
    PROVE  IndInv'
<1> DEFINE k == [mine[t] EXCEPT !.tenure = snap[t].tenure, !.until = snap[t].deadline]
<1>1. /\ leader' = [leader EXCEPT ![t] = TRUE] /\ missed' = [missed EXCEPT ![t] = 0]
      /\ shown' = [shown EXCEPT ![t] = "Leader"] /\ UNCHANGED armed
      /\ Rest(t, TRUE, seen[t]) /\ doing[t] = "observe"
      /\ mine[t] # NoToken /\ Matches(snap[t], mine[t]) /\ now < snap[t].deadline
      /\ mine' = [mine EXCEPT ![t].tenure = snap[t].tenure, ![t].until = snap[t].deadline]
  <2>1. snap[t].deadline \in Nat /\ now \in Nat
    BY TaskTypes DEF Records
  <2> QED
    BY <2>1 DEF Reassure, HoldsSeen, Lead
<1>2. mine' = [mine EXCEPT ![t] = k]
  <2>1. mine \in [Candidates -> Tokens]
    BY DEF IndInv, TypeOK
  <2> QED
    BY <1>1, <2>1 DEF Tokens
<1>3. k \in Tokens /\ k.owner = mine[t].owner /\ k.fence = mine[t].fence
      /\ k.tenure = snap[t].tenure /\ k.until = snap[t].deadline
  <2>1. mine[t] \in Tokens /\ snap[t].tenure \in Nat /\ snap[t].deadline \in Nat
    BY TaskTypes DEF Records
  <2> QED
    BY <2>1 DEF Tokens
<1> HIDE DEF k
<1>4. k.owner = OwnerOf[t] /\ snap[t].owner = OwnerOf[t] /\ snap[t].fence = k.fence
  BY <1>1, <1>3, TaskTypes DEF Local, TaskInv
<1>5. k # NoToken
  <2>1. OwnerOf[t] # Nobody /\ NoToken.owner = Nobody
    BY DEF NoToken
  <2> QED
    BY <1>4, <2>1
<1>6. rec.owner = OwnerOf[t] => SameTenure(rec, k)
  BY <1>1, <1>3, <1>4, TaskTypes DEF Local, TenureInv, SameTenure
<1>7. deploy.prompt => Claims(k)
  <2>1. deploy.prompt => rec = snap[t]
    BY <1>1, <1>4, TaskTypes DEF Local, ClaimInv
  <2>2. snap[t].deadline \in Nat
    BY TaskTypes DEF Records
  <2> QED
    BY <1>3, <1>4, <2>1, <2>2 DEF Claims
<1>8. phase[t] = "on" /\ pc[t] # "idle" /\ seen[t] \in Nat
  BY <1>1, Enlisted, TaskTypes
<1>9. ~deploy.faults /\ Stall < Ttl /\ rec.owner \in Owners => now < rec.deadline + Stall
  BY <1>1, <1>8, EndsInTime
<1>10. armed' \in [Candidates -> Nat] /\ missed' \in [Candidates -> 0 .. MaxMissed]
  BY <1>1 DEF IndInv, TypeOK
<1> QED
  BY <1>1, <1>2, <1>3, <1>4, <1>5, <1>6, <1>7, <1>8, <1>9, <1>10, RestInd, ZenonT(60)

\* The task saw somebody else's.
LEMMA StepDownInd ==
    ASSUME IndInv, UNCHANGED deploy, NEW t \in Candidates, StepDown(t)
    PROVE  IndInv'
<1>1. /\ leader' = [leader EXCEPT ![t] = FALSE] /\ UNCHANGED <<mine, armed>>
      /\ missed' = [missed EXCEPT ![t] = IF leader[t] THEN 0 ELSE missed[t]]
      /\ shown' = [shown EXCEPT ![t] = IF leader[t] THEN "Follower" ELSE shown[t]]
      /\ Rest(t, FALSE, snap[t].deadline - now) /\ doing[t] = "observe" /\ snap[t].deadline > now
  BY DEF StepDown, LiveForeign
<1>2. /\ mine[t] \in Tokens
      /\ mine[t] # NoToken => mine[t].owner = OwnerOf[t]
      /\ shown[t] \in {"Follower", "Leader", "Lost", "Gone"}
      /\ shown[t] = "Leader" => leader[t]
      /\ missed[t] \in 0 .. MaxMissed
      /\ now \in Nat /\ snap[t].deadline \in Nat
  BY TaskTypes DEF Local, TaskInv, Records
<1>3. mine' = [mine EXCEPT ![t] = mine[t]]
  BY <1>1 DEF IndInv, TypeOK
<1>4. armed' \in [Candidates -> Nat] /\ missed' \in [Candidates -> 0 .. MaxMissed]
  BY <1>1, <1>2 DEF IndInv, TypeOK
<1>5. phase[t] = "on" /\ pc[t] # "idle"
  BY <1>1, Enlisted
<1>6. ~deploy.faults /\ Stall < Ttl /\ rec.owner \in Owners => now < rec.deadline + Stall
  <2>1. now < snap[t].deadline
    BY <1>1, <1>2
  <2> QED
    BY <1>1, <1>5, <2>1, EndsInTime
<1>7. snap[t].deadline - now \in Nat
  BY <1>1, <1>2
<1> DEFINE s == IF leader[t] THEN "Follower" ELSE shown[t]
<1>8. s \in {"Follower", "Leader", "Lost", "Gone"} /\ s # "Leader" /\ shown' = [shown EXCEPT ![t] = s]
  BY <1>1, <1>2
<1> HIDE DEF s
<1> QED
  BY <1>1, <1>2, <1>3, <1>4, <1>5, <1>6, <1>7, <1>8, RestInd, ZenonT(60)

\* The look failed.
LEMMA ObserveFailsInd ==
    ASSUME IndInv, UNCHANGED deploy, NEW t \in Candidates, ObserveFails(t)
    PROVE  IndInv'
<1>1. phase[t] = "on" /\ pc[t] # "idle"
  BY Enlisted DEF ObserveFails
<1>2. CASE Rest(t, leader[t], seen[t]) /\ UNCHANGED <<leader, mine, armed, missed, shown>>
  <2>1. /\ leader' = [leader EXCEPT ![t] = leader[t]] /\ mine' = [mine EXCEPT ![t] = mine[t]]
        /\ shown' = [shown EXCEPT ![t] = shown[t]]
        /\ armed' \in [Candidates -> Nat] /\ missed' \in [Candidates -> 0 .. MaxMissed]
    BY <1>2 DEF IndInv, TypeOK
  <2>2. leader[t] \in BOOLEAN /\ seen[t] \in Nat /\ deploy.faults
    BY TaskTypes DEF ObserveFails
  <2>3. Rest(t, TRUE, seen[t]) \/ Rest(t, FALSE, seen[t])
    <3>1. leader[t] = TRUE \/ leader[t] = FALSE
      BY <2>2
    <3> QED
      BY <1>2, <3>1, Zenon
  <2> QED
    BY <1>1, <2>1, <2>2, <2>3, KeepsInd
<1>3. CASE Close(t)
  BY <1>1, <1>3, LeaveInd DEF Close
<1> QED
  BY <1>2, <1>3 DEF ObserveFails

\* The other ways in which a task ends.
LEMMA EndsInd ==
    ASSUME IndInv, UNCHANGED deploy, NEW t \in Candidates,
           \/ EnrolFails(t) \/ Released(t) \/ Revoked(t) \/ Crash(t)
           \/ FailsFatally(t) \/ Resign(t) \/ WatchCloses(t)
    PROVE  IndInv'
<1>1. CASE EnrolFails(t) \/ Released(t) \/ Revoked(t) \/ Crash(t)
  BY <1>1, GoneInd DEF EnrolFails, Released, Revoked, Crash
<1>2. CASE FailsFatally(t) \/ Resign(t) \/ WatchCloses(t)
  <2>1. phase[t] = "on"
    BY <1>2, Enlisted DEF FailsFatally, Resign, WatchCloses, Waits
  <2> QED
    BY <1>2, <2>1, LeaveInd DEF FailsFatally, Resign, WatchCloses, Close
<1> QED
  BY <1>1, <1>2

\* A step of the task.
LEMMA TaskStepInd ==
    ASSUME IndInv, UNCHANGED deploy, NEW t \in Candidates, TaskStep(t)
    PROVE  IndInv'
<1>1. CASE RenewMissed(t)
  BY <1>1, LossInd, MissedInd
<1>2. CASE ObserveVacancy(t)
  BY <1>2, LossInd, VacancyInd
<1> QED
  BY <1>1, <1>2, EnrolledInd, EndsInd, TickClaimInd, LossInd, TickRenewInd, RenewedInd, ClaimedInd,
     ClaimFailsInd, ObserveInd, ReassureInd, StepDownInd, ObserveFailsInd DEF TaskStep

-----------------------------------------------------------------------------
(* The store's steps that leave the record alone.                          *)

\* A call goes on: to p, with what it read and its deadline.
LEMMA CallInd ==
    ASSUME IndInv, UNCHANGED <<deploy, now, rec, writes, tok>>,
           UNCHANGED <<phase, doing, byTimer, began, leader, mine, armed, missed, tick, seen, shown>>,
           UNCHANGED <<watching, shutdown, feed>>, NEW t \in Candidates,
           NEW p \in Steps, NEW e \in Records, NEW d \in Nat,
           pc' = [pc EXCEPT ![t] = p], snap' = [snap EXCEPT ![t] = e], due' = [due EXCEPT ![t] = d],
           tries' \in [Requests -> Nat], lapse' \in [Requests -> Nat],
           pc[t] # "idle", doing[t] \notin {"nothing", "observe"},
           e.nonce <= writes, e.nonce > 0 /\ e.nonce = rec.nonce => e = rec,
           doing[t] \in Claiming =>
              p \in {"put", "read", "measure", "steal", "acquired", "contended", "failed"}
              /\ p # "acquired",
           doing[t] = "renew" => p \in {"extend", "expired", "failed"},
           doing[t] = "leave" => p \in {"delete", "released", "failed"},
           p = "failed" => deploy.faults, p = "extend" => tok[t] = mine[t],
           d <= now + Ttl, p \in Conditional => d = now + Ttl,
           p = "steal" => e = rec /\ rec.deadline <= now,
           p \in {"steal", "extend", "delete"} => e.nonce > 0,
           p = "extend" => rec = e /\ now < e.deadline,
           p \in {"extend", "delete"} => Matches(e, tok[t]),
           ~deploy.faults /\ Stall < Ttl /\ rec.owner \in Owners /\ p \in {"contended", "measure"}
              => began[t] < rec.deadline
    PROVE  IndInv'
<1>1. TypeOK'
  <2>1. LeaseTypeOK'
    BY DEF IndInv, TypeOK, LeaseTypeOK
  <2> QED
    BY <2>1 DEF IndInv, TypeOK
<1>2. \A u \in Candidates \ {t} : Untouched(u)
  BY DEF Untouched, IndInv, TypeOK, LeaseTypeOK
<1>3. /\ pc'[t] = p /\ tok'[t] = tok[t] /\ snap'[t] = e /\ due'[t] = d
      /\ phase'[t] = phase[t] /\ doing'[t] = doing[t] /\ byTimer'[t] = byTimer[t]
      /\ began'[t] = began[t] /\ leader'[t] = leader[t] /\ mine'[t] = mine[t]
      /\ tick'[t] = tick[t] /\ shown'[t] = shown[t]
  BY DEF IndInv, TypeOK, LeaseTypeOK
<1>4. /\ now \in Nat /\ began[t] \in Nat /\ rec.deadline \in Nat /\ Local(t) /\ doing[t] \in Doings
      /\ rec.deadline <= now + Ttl /\ OwnerOf[t] \in Owners
  BY TaskTypes DEF Records, IndInv, RecordInv
<1>5. Local(t)'
  <2>0. doing[t] \in Claiming \cup {"renew", "leave"}
    BY <1>4 DEF Doings, Claiming
  <2>1. NonceInv(t)' /\ StepInv(t)' /\ TaskInv(t)'
    BY <1>3, <1>4, <2>0 DEF Local, NonceInv, StepInv, TaskInv, Claiming
  <2>2. RequestInv(t)'
    BY <1>3, <1>4 DEF Local, RequestInv, Conditional
  <2>3. TenureInv(t)' /\ ExtendInv(t)' /\ ClaimInv(t)'
    <3>1. p \notin {"acquired", "renewed"} /\ (p = "extend" => doing[t] = "renew")
      BY <2>0 DEF Claiming
    <3>2. p = "extend" => SameTenure(rec, mine[t])
      <4>1. p = "extend" => leader[t] /\ rec.owner = OwnerOf[t]
        BY <1>4, <3>1 DEF Local, TaskInv
      <4> QED
        BY <1>4, <4>1 DEF Local, TenureInv
    <3>3. TenureInv(t)'
      BY <1>3, <1>4, <3>1, <3>2 DEF Local, TenureInv, SameTenure
    <3>4. ExtendInv(t)'
      BY <1>3, <1>4 DEF ExtendInv, Conditional
    <3>5. ClaimInv(t)'
      BY <1>3, <1>4, <3>1 DEF Local, ClaimInv, Claims
    <3> QED
      BY <3>3, <3>4, <3>5
  <2>4. TimeInv(t)'
    BY <1>3, <1>4 DEF Local, TimeInv
  <2>5. LapseInv(t)'
    <3> SUFFICES ASSUME ~deploy.faults, Stall < Ttl, rec.owner \in Owners
                 PROVE  LeftAlone(t)' /\ (phase[t] = "on" => Notices(t)')
      BY <1>3 DEF LapseInv
    <3>1. phase[t] = "on" => Notices(t)
      BY <1>4 DEF Local, LapseInv
    <3>2. phase[t] = "on" => Notices(t)'
      BY <1>3, <3>1 DEF Notices
    <3>3. began[t] <= now
      BY <1>4 DEF Local, TimeInv
    <3>4. p \notin {"acquired", "renewed"} /\ (p = "extend" => began[t] < rec.deadline)
      BY <1>4, <2>0, <3>3 DEF Claiming
    <3>5. LeftAlone(t)'
      BY <1>3, <3>4 DEF LeftAlone
    <3> QED
      BY <3>2, <3>5
  <2> QED
    BY <2>1, <2>2, <2>3, <2>4, <2>5 DEF Local
<1> QED
  BY <1>1, <1>2, <1>5, OneTask

\* What a task at the store is doing.
LEMMA AtWork ==
    ASSUME IndInv, NEW t \in Candidates, pc[t] \in AtStore \cup {"measure"}, doing[t] # "observe"
    PROVE  /\ doing[t] \notin {"nothing", "observe"} /\ pc[t] # "idle"
           /\ tok[t].owner = OwnerOf[t] /\ OwnerOf[t] \in Owners
           /\ pc[t] \in {"put", "read", "measure", "steal"} => doing[t] \in Claiming
           /\ pc[t] \in {"renew", "extend"} => doing[t] = "renew" /\ tok[t] = mine[t]
           /\ pc[t] \in {"release", "delete"} => doing[t] = "leave"
<1>1. doing[t] \in Doings /\ Local(t)
  BY TaskTypes
<1>2. doing[t] # "nothing"
  BY <1>1 DEF Local, StepInv
<1>3. doing[t] \in Claiming \cup {"renew", "leave"}
  BY <1>1, <1>2 DEF Doings, Claiming
<1>4. /\ pc[t] \in {"put", "read", "measure", "steal"} => doing[t] \in Claiming
      /\ pc[t] \in {"renew", "extend"} => doing[t] = "renew"
      /\ pc[t] \in {"release", "delete"} => doing[t] = "leave"
  BY <1>1, <1>3 DEF Local, StepInv
<1> QED
  BY <1>1, <1>2, <1>4 DEF Local, TaskInv

\* What the task does not touch while it waits for the store.
LEMMA StoreFrame ==
    ASSUME IndInv, NEW t \in Candidates, AtTheStore(t), UNCHANGED <<rec, writes>>
    PROVE  /\ UNCHANGED <<phase, doing, byTimer, began, leader, mine, armed, missed, tick, seen, shown>>
           /\ UNCHANGED <<watching, shutdown, feed>>
BY DEF AtTheStore, taskVars, Notify

\* The cache answered, or failed, and nothing was read or written.
LEMMA MissInd ==
    ASSUME IndInv, UNCHANGED <<deploy, now, rec, writes, tok, snap, due, tries, lapse>>,
           NEW t \in Candidates, AtTheStore(t), NEW p \in {"read", "contended", "expired", "released", "failed"},
           pc' = [pc EXCEPT ![t] = p], pc[t] \in AtStore,
           p = "read" => pc[t] = "put", p = "contended" => pc[t] = "steal" /\ rec.nonce # snap[t].nonce,
           p = "expired" => pc[t] = "extend", p = "released" => pc[t] = "delete",
           p = "failed" => deploy.faults
    PROVE  IndInv'
<1>1. doing[t] # "observe"
  BY DEF AtTheStore
<1>2. /\ snap' = [snap EXCEPT ![t] = snap[t]] /\ due' = [due EXCEPT ![t] = due[t]]
      /\ tries' \in [Requests -> Nat] /\ lapse' \in [Requests -> Nat]
      /\ snap[t] \in Records /\ due[t] \in Nat /\ p \in Steps
  BY DEF IndInv, TypeOK, LeaseTypeOK
<1>3. /\ snap[t].nonce <= writes
      /\ snap[t].nonce > 0 /\ snap[t].nonce = rec.nonce => snap[t] = rec
      /\ due[t] <= now + Ttl
  BY TaskTypes DEF Local, NonceInv, RequestInv
<1>4. ~deploy.faults /\ Stall < Ttl /\ rec.owner \in Owners /\ p = "contended" => began[t] < rec.deadline
  BY TaskTypes DEF Local, LapseInv, LeftAlone
<1>5. p \notin {"put", "steal", "extend", "delete", "measure"}
  OBVIOUS
<1>6. /\ UNCHANGED <<phase, doing, byTimer, began, leader, mine, armed, missed, tick, seen, shown>>
      /\ UNCHANGED <<watching, shutdown, feed>> /\ UNCHANGED <<deploy, now, rec, writes, tok>>
  BY StoreFrame
<1>7. /\ doing[t] \in Claiming => p \in {"read", "contended", "failed"}
      /\ doing[t] = "renew" => p \in {"expired", "failed"}
      /\ doing[t] = "leave" => p \in {"released", "failed"}
  BY <1>1, AtWork DEF Claiming
<1>8. doing[t] \notin {"nothing", "observe"} /\ pc[t] # "idle"
  BY <1>1, AtWork
<1> QED
  BY <1>2, <1>3, <1>4, <1>5, <1>6, <1>7, <1>8, CallInd DEF Conditional

\* A call that has read the record: it takes note of it, and computes its deadline.
LEMMA NotedInd ==
    ASSUME IndInv, UNCHANGED <<deploy, now, rec, writes, tok, tries, lapse>>,
           NEW t \in Candidates, AtTheStore(t), NEW p \in Steps,
           pc' = [pc EXCEPT ![t] = p], snap' = [snap EXCEPT ![t] = rec],
           due' = [due EXCEPT ![t] = now + Ttl],
           \/ pc[t] = "read" /\ p \in {"measure", "steal"}
           \/ pc[t] = "renew" /\ p \in {"extend", "expired"}
           \/ pc[t] = "release" /\ p \in {"delete", "released"},
           p \in {"measure", "steal"} => rec.owner \in Owners,
           p \in {"measure", "extend"} => now < rec.deadline, p = "steal" => rec.deadline <= now,
           p \in {"extend", "delete"} => Matches(rec, tok[t])
    PROVE  IndInv'
<1>1. doing[t] # "observe"
  BY DEF AtTheStore
<1>2. /\ tries' \in [Requests -> Nat] /\ lapse' \in [Requests -> Nat]
      /\ rec \in Records /\ now + Ttl \in Nat /\ now \in Nat /\ rec.nonce \in Nat /\ rec.deadline \in Nat
      /\ began[t] \in Nat /\ rec.nonce <= writes
      /\ rec.owner \in Owners => rec.nonce > 0
  BY DEF IndInv, TypeOK, LeaseTypeOK, RecordInv, Records
<1>3. /\ doing[t] \notin {"nothing", "observe"} /\ pc[t] # "idle"
      /\ tok[t].owner \in Owners
      /\ pc[t] = "read" => doing[t] \in Claiming
      /\ pc[t] = "renew" => doing[t] = "renew" /\ tok[t] = mine[t]
      /\ pc[t] = "release" => doing[t] = "leave"
  BY <1>1, AtWork
<1>4. began[t] <= now
  BY <1>3, TaskTypes DEF Local, TimeInv
<1>5. /\ UNCHANGED <<phase, doing, byTimer, began, leader, mine, armed, missed, tick, seen, shown>>
      /\ UNCHANGED <<watching, shutdown, feed>> /\ UNCHANGED <<deploy, now, rec, writes, tok>>
  BY StoreFrame
<1>6. p \in {"steal", "extend", "delete"} => rec.nonce > 0
  BY <1>2, <1>3
<1>7. /\ doing[t] \in Claiming => p \in {"measure", "steal"}
      /\ doing[t] = "renew" => p \in {"extend", "expired"}
      /\ doing[t] = "leave" => p \in {"delete", "released"}
      /\ p = "extend" => tok[t] = mine[t]
  BY <1>3 DEF Claiming
<1>8. p \in {"contended", "measure"} => began[t] < rec.deadline
  BY <1>2, <1>4
<1>9. p # "failed" /\ p # "acquired" /\ now + Ttl <= now + Ttl
  BY <1>2
<1> QED
  BY <1>2, <1>3, <1>5, <1>6, <1>7, <1>8, <1>9, CallInd

\* try_acquire reads the record.
LEMMA ReadInd ==
    ASSUME IndInv, UNCHANGED deploy, NEW t \in Candidates, AtTheStore(t), Read(t)
    PROVE  IndInv'
<1>1. /\ pc[t] = "read" /\ UNCHANGED <<now, rec, writes, tok, lapse>> /\ doing[t] # "observe"
      /\ UNCHANGED deploy
  BY DEF Read, AtTheStore
<1>2. /\ doing[t] \in Claiming /\ doing[t] \notin {"nothing", "observe"} /\ pc[t] # "idle"
      /\ doing[t] # "renew" /\ doing[t] # "leave"
  BY <1>1, AtWork DEF Claiming
<1>3. /\ now \in Nat /\ now + Ttl \in Nat /\ rec.deadline \in Nat
      /\ snap[t] \in Records /\ due[t] \in Nat /\ tries[t] \in Nat
      /\ lapse' \in [Requests -> Nat] /\ t \in Requests
      /\ snap = [snap EXCEPT ![t] = snap[t]] /\ due = [due EXCEPT ![t] = due[t]]
      /\ tries \in [Requests -> Nat]
  BY <1>1 DEF IndInv, TypeOK, LeaseTypeOK, Records
<1>4. /\ snap[t].nonce <= writes
      /\ snap[t].nonce > 0 /\ snap[t].nonce = rec.nonce => snap[t] = rec
      /\ due[t] <= now + Ttl
  BY TaskTypes DEF Local, NonceInv, RequestInv
<1>5. /\ UNCHANGED <<phase, doing, byTimer, began, leader, mine, armed, missed, tick, seen, shown>>
      /\ UNCHANGED <<watching, shutdown, feed>> /\ UNCHANGED <<deploy, now, rec, writes, tok>>
  BY <1>1, StoreFrame
<1>6. CASE /\ rec = NoRecord /\ tries[t] < AcquireAttempts
           /\ pc' = [pc EXCEPT ![t] = "put"] /\ tries' = [tries EXCEPT ![t] = tries[t] + 1]
           /\ due' = [due EXCEPT ![t] = now + Ttl] /\ UNCHANGED snap
  <2>1. tries' \in [Requests -> Nat] /\ "put" \in Steps
    BY <1>3, <1>6
  <2>2. snap' = [snap EXCEPT ![t] = snap[t]] /\ now + Ttl <= now + Ttl
    BY <1>3, <1>6
  <2> QED
    BY <1>2, <1>3, <1>4, <1>5, <1>6, <2>1, <2>2, CallInd
<1>7. CASE /\ rec.owner = Foreign \/ (rec = NoRecord /\ tries[t] = AcquireAttempts)
           /\ pc' = [pc EXCEPT ![t] = "contended"] /\ UNCHANGED <<tries, due, snap>>
  <2>1. rec.owner \notin Owners
    BY <1>7 DEF NoRecord
  <2>2. snap' = [snap EXCEPT ![t] = snap[t]] /\ due' = [due EXCEPT ![t] = due[t]]
        /\ tries' \in [Requests -> Nat] /\ "contended" \in Steps
    BY <1>3, <1>7
  <2> QED
    BY <1>2, <1>3, <1>4, <1>5, <1>7, <2>1, <2>2, CallInd DEF Conditional
<1>8. CASE /\ rec.owner \in Owners
           /\ pc' = [pc EXCEPT ![t] = IF Live(rec) THEN "measure" ELSE "steal"]
           /\ snap' = [snap EXCEPT ![t] = rec] /\ due' = [due EXCEPT ![t] = now + Ttl]
           /\ UNCHANGED tries
  <2>1. "measure" \in Steps /\ "steal" \notin {"extend", "delete"}
    OBVIOUS
  <2>2. CASE rec.deadline > now
    <3>1. pc' = [pc EXCEPT ![t] = "measure"] /\ now < rec.deadline
      BY <1>3, <1>8, <2>2
    <3> QED
      BY <1>1, <1>8, <2>1, <3>1, NotedInd
  <2>3. CASE ~(rec.deadline > now)
    <3>1. pc' = [pc EXCEPT ![t] = "steal"]
      BY <1>8, <2>3, Zenon
    <3>2. rec.deadline <= now /\ "steal" \in Steps
      BY <1>3, <2>3
    <3> QED
      BY <1>1, <1>8, <2>1, <3>1, <3>2, NotedInd
  <2> QED
    BY <2>2, <2>3
<1> QED
  BY <1>6, <1>7, <1>8 DEF Read

\* remaining_until reads the clock.
LEMMA MeasureInd ==
    ASSUME IndInv, UNCHANGED deploy, NEW t \in Candidates, AtTheStore(t), Measure(t)
    PROVE  IndInv'
<1>1. /\ pc[t] = "measure" /\ pc' = [pc EXCEPT ![t] = "contended"] /\ doing[t] # "observe"
      /\ UNCHANGED <<now, rec, writes, tok, snap, due, tries>>
  BY DEF Measure, AtTheStore
<1>2. doing[t] \in Claiming /\ doing[t] \notin {"nothing", "observe"} /\ pc[t] # "idle"
      /\ doing[t] # "renew" /\ doing[t] # "leave"
  BY <1>1, AtWork DEF Claiming
<1>3. /\ snap[t] \in Records /\ due[t] \in Nat /\ tries' \in [Requests -> Nat]
      /\ snap' = [snap EXCEPT ![t] = snap[t]] /\ due' = [due EXCEPT ![t] = due[t]]
  BY <1>1 DEF IndInv, TypeOK, LeaseTypeOK
<1>4. lapse' \in [Requests -> Nat]
  <2>1. (IF Live(snap[t]) THEN snap[t].deadline ELSE Never) \in Nat
    BY <1>3, Values DEF Records
  <2> QED
    BY <2>1 DEF Measure, IndInv, TypeOK, LeaseTypeOK
<1>5. /\ snap[t].nonce <= writes
      /\ snap[t].nonce > 0 /\ snap[t].nonce = rec.nonce => snap[t] = rec
      /\ due[t] <= now + Ttl
  BY TaskTypes DEF Local, NonceInv, RequestInv
<1>6. /\ UNCHANGED <<phase, doing, byTimer, began, leader, mine, armed, missed, tick, seen, shown>>
      /\ UNCHANGED <<watching, shutdown, feed>> /\ UNCHANGED <<deploy, now, rec, writes, tok>>
  BY <1>1, StoreFrame
<1>7. ~deploy.faults /\ Stall < Ttl /\ rec.owner \in Owners => began[t] < rec.deadline
  BY <1>1, TaskTypes DEF Local, LapseInv, LeftAlone
<1>8. "contended" \in Steps /\ "contended" \notin Conditional
  BY DEF Conditional
<1> QED
  BY <1>1, <1>2, <1>3, <1>4, <1>5, <1>6, <1>7, <1>8, CallInd

\* renew and release check the token against the record.
LEMMA CheckInd ==
    ASSUME IndInv, UNCHANGED deploy, NEW t \in Candidates, AtTheStore(t),
           CheckRenew(t) \/ CheckRelease(t)
    PROVE  IndInv'
<1>1. now \in Nat /\ rec.deadline \in Nat
  BY TaskTypes DEF Records
<1>2. /\ UNCHANGED <<deploy, now, rec, writes, tok, tries, lapse>>
      /\ snap' = [snap EXCEPT ![t] = rec] /\ due' = [due EXCEPT ![t] = now + Ttl]
  BY DEF CheckRenew, CheckRelease
<1>3. CASE CheckRenew(t)
  <2>1. CASE Matches(rec, tok[t]) /\ Live(rec)
    <3>1. pc[t] = "renew" /\ pc' = [pc EXCEPT ![t] = "extend"] /\ now < rec.deadline /\ "extend" \in Steps
      BY <1>1, <1>3, <2>1 DEF CheckRenew
    <3> QED
      BY <1>2, <2>1, <3>1, NotedInd
  <2>2. CASE ~(Matches(rec, tok[t]) /\ Live(rec))
    <3>1. pc[t] = "renew" /\ pc' = [pc EXCEPT ![t] = "expired"] /\ "expired" \in Steps
      BY <1>3, <2>2 DEF CheckRenew
    <3> QED
      BY <1>2, <3>1, NotedInd
  <2> QED
    BY <2>1, <2>2
<1>4. CASE CheckRelease(t)
  <2>1. CASE Matches(rec, tok[t])
    <3>1. pc[t] = "release" /\ pc' = [pc EXCEPT ![t] = "delete"] /\ "delete" \in Steps
      BY <1>4, <2>1 DEF CheckRelease
    <3> QED
      BY <1>2, <2>1, <3>1, NotedInd
  <2>2. CASE ~Matches(rec, tok[t])
    <3>1. pc[t] = "release" /\ pc' = [pc EXCEPT ![t] = "released"] /\ "released" \in Steps
      BY <1>4, <2>2 DEF CheckRelease
    <3> QED
      BY <1>2, <3>1, NotedInd
  <2> QED
    BY <2>1, <2>2
<1> QED
  BY <1>3, <1>4

-----------------------------------------------------------------------------
(* Writes.                                                                 *)

\* A record stored under another owner: nothing that a task holds or has read is
\* about it, and its deadline is yet to come.
LEMMA OthersAfterWrite ==
    ASSUME IndInv, NEW u \in Candidates, Untouched(u), UNCHANGED <<deploy, now>>,
           rec' \in Records, writes' = writes + 1, rec'.nonce = writes + 1,
           rec'.owner # OwnerOf[u], now + Ttl <= rec'.deadline + Stall,
           deploy.prompt => rec.owner # OwnerOf[u] \/ rec.deadline <= now
    PROVE  Local(u)'
<1>1. /\ now \in Nat /\ writes \in Nat /\ snap[u].nonce \in Nat /\ Local(u)
      /\ rec.deadline \in Nat /\ rec'.deadline \in Nat /\ began[u] \in Nat /\ tick[u] \in Nat
      /\ mine[u].until \in Nat /\ tok[u].until \in Nat /\ snap[u].deadline \in Nat
      /\ pc[u] \in Steps \cup {"idle", "asleep"} /\ deploy.prompt \in BOOLEAN
  BY TaskTypes DEF Records, Tokens
<1> USE DEF Untouched
<1>2. NonceInv(u)' /\ StepInv(u)' /\ TaskInv(u)' /\ RequestInv(u)'
  BY <1>1 DEF Local, NonceInv, StepInv, TaskInv, RequestInv
<1>3. TenureInv(u)'
  BY <1>1 DEF Local, TenureInv, SameTenure
<1>4. ~(deploy.prompt /\ rec.owner = OwnerOf[u] /\ now < rec.deadline)
  BY <1>1
<1>5. ExtendInv(u)'
  <2>1. pc[u] = "extend" => snap[u].owner = OwnerOf[u]
    BY <1>1 DEF Local, RequestInv, StepInv, TaskInv
  <2> QED
    BY <1>1, <1>4, <2>1 DEF Local, ExtendInv
<1>6. ClaimInv(u)'
  <2> SUFFICES ASSUME deploy.prompt PROVE ClaimInv(u)'
    BY DEF ClaimInv
  <2>1. leader[u] /\ phase[u] = "on" => ~(now < mine[u].until)
    <3>1. leader[u] => mine[u].owner = OwnerOf[u]
      BY <1>1 DEF Local, TaskInv
    <3> QED
      BY <1>1, <1>4, <3>1 DEF Local, ClaimInv, Claims
  <2>2. pc[u] \in {"acquired", "renewed"} => ~(now < tok[u].until)
    <3>1. pc[u] \in {"acquired", "renewed"} => tok[u].owner = OwnerOf[u]
      BY <1>1 DEF Local, TaskInv, StepInv
    <3> QED
      BY <1>1, <1>4, <3>1 DEF Local, ClaimInv, Claims
  <2>3. doing[u] = "observe" /\ snap[u].owner = OwnerOf[u] => ~(now < snap[u].deadline)
    BY <1>1, <1>4 DEF Local, ClaimInv
  <2> QED
    BY <2>1, <2>2, <2>3 DEF ClaimInv, Claims
<1>7. TimeInv(u)'
  BY <1>1 DEF Local, TimeInv
<1>8. LapseInv(u)'
  <2> SUFFICES ASSUME Stall < Ttl PROVE LeftAlone(u)' /\ Notices(u)'
    BY DEF LapseInv
  <2>1. now < rec'.deadline
    BY <1>1
  <2>2. /\ pc[u] # "idle" => began[u] <= now
        /\ doing[u] # "nothing" => began[u] <= now
        /\ tick[u] <= now + LongestWait
    BY <1>1 DEF Local, TimeInv, StepInv
  <2>3. LeftAlone(u)'
    BY <1>1, <2>1, <2>2 DEF LeftAlone
  <2>4. Notices(u)'
    BY <1>1, <2>1, <2>2, WaitTypes DEF Notices
  <2> QED
    BY <2>3, <2>4
<1> QED
  BY <1>2, <1>3, <1>5, <1>6, <1>7, <1>8 DEF Local

\* A conditional write took effect: the record is the task's, and so is the token.
LEMMA StoreInd ==
    ASSUME IndInv, UNCHANGED <<deploy, now, snap, due, tries, lapse>>, NEW t \in Candidates, AtTheStore(t),
           pc[t] \in {"put", "steal", "extend"}, NEW e \in Records, NEW k \in Tokens,
           NEW a \in {"acquired", "renewed", "failed"},
           rec' = e, writes' = writes + 1, tok' = [tok EXCEPT ![t] = k], pc' = [pc EXCEPT ![t] = a],
           e.owner = OwnerOf[t], e.deadline = due[t], e.nonce = writes + 1, e.reap = now + Ttl + Retention,
           k.owner = e.owner, SameTenure(e, k), k.until = e.deadline,
           a = "failed" => deploy.faults,
           pc[t] = "extend" <=> a = "renewed" \/ (a = "failed" /\ doing[t] = "renew"),
           pc[t] = "extend" => SameTenure(e, snap[t]),
           deploy.prompt => rec.owner = OwnerOf[t] \/ rec.deadline <= now
    PROVE  IndInv'
<1>a. /\ UNCHANGED <<phase, doing, byTimer, began, leader, mine, armed, missed, tick, seen, shown>>
      /\ UNCHANGED <<watching, shutdown>> /\ feed' \subseteq feed \cup watching
      /\ doing[t] # "observe"
  BY DEF AtTheStore, taskVars, Notify
<1>b. /\ now \in Nat /\ writes \in Nat /\ snap[t].nonce \in Nat /\ Local(t)
      /\ rec.deadline \in Nat /\ e.deadline \in Nat /\ due[t] \in Nat /\ began[t] \in Nat /\ tick[t] \in Nat
      /\ mine[t].until \in Nat /\ snap[t].deadline \in Nat
      /\ doing[t] \in Doings /\ OwnerOf[t] \in Owners /\ deploy \in Deployments
  BY TaskTypes DEF Records, Tokens
<1>1. /\ now + Ttl <= due[t] + Stall /\ due[t] <= now + Ttl
  BY <1>b DEF Local, RequestInv, Conditional
<1>2. TypeOK'
  <2>1. LeaseTypeOK'
    BY DEF IndInv, TypeOK, LeaseTypeOK
  <2> QED
    BY <1>a, <2>1 DEF IndInv, TypeOK
<1>3. RecordInv'
  BY <1>b, <1>1 DEF RecordInv
<1>4. ASSUME NEW u \in Candidates \ {t} PROVE Local(u)'
  <2>1. Untouched(u)
    BY <1>a DEF Untouched, IndInv, TypeOK, LeaseTypeOK
  <2>2. OwnerOf[u] # OwnerOf[t]
    OBVIOUS
  <2> QED
    BY <1>1, <2>1, <2>2, OthersAfterWrite
<1>5. /\ pc'[t] = a /\ tok'[t] = k /\ snap'[t] = snap[t] /\ due'[t] = due[t]
      /\ phase'[t] = phase[t] /\ doing'[t] = doing[t] /\ byTimer'[t] = byTimer[t]
      /\ began'[t] = began[t] /\ leader'[t] = leader[t] /\ mine'[t] = mine[t]
      /\ tick'[t] = tick[t] /\ shown'[t] = shown[t]
  BY <1>a DEF IndInv, TypeOK, LeaseTypeOK
<1>6. /\ pc[t] \in {"put", "steal"} => doing[t] \in Claiming
      /\ pc[t] = "extend" => doing[t] = "renew" /\ tok[t] = mine[t]
      /\ tok[t].owner = OwnerOf[t] /\ doing[t] # "nothing"
  BY <1>a, AtWork
<1>7. Local(t)'
  <2>1. NonceInv(t)'
    BY <1>b, <1>5 DEF Local, NonceInv
  <2>2. StepInv(t)'
    BY <1>b, <1>5, <1>6 DEF Local, StepInv, Claiming
  <2>3. TaskInv(t)' /\ RequestInv(t)'
    BY <1>b, <1>5 DEF Local, TaskInv, RequestInv, Conditional
  <2>4. TenureInv(t)'
    <3>1. leader[t] => pc[t] = "extend"
      BY <1>b, <1>6 DEF Local, TaskInv
    <3>2. pc[t] = "extend" => SameTenure(e, mine[t])
      BY <1>b DEF Local, TenureInv, SameTenure
    <3>3. a = "renewed" => SameTenure(k, mine[t])
      BY <3>2 DEF SameTenure
    <3> QED
      BY <1>a, <1>5, <3>1, <3>2, <3>3 DEF TenureInv, SameTenure
  <2>5. ExtendInv(t)'
    BY <1>5 DEF ExtendInv
  <2>6. ClaimInv(t)'
    <3> SUFFICES ASSUME deploy.prompt PROVE ClaimInv(t)'
      BY DEF ClaimInv
    <3>1. leader[t] => pc[t] = "extend" /\ mine[t].owner = OwnerOf[t]
      BY <1>b, <1>6 DEF Local, TaskInv
    <3>2. pc[t] = "extend" => rec = snap[t] /\ snap[t].deadline <= due[t]
      BY <1>b DEF Local, ExtendInv
    <3>3. leader[t] /\ phase[t] = "on" /\ now < mine[t].until => mine[t].until <= rec.deadline
      BY <1>b DEF Local, ClaimInv, Claims
    <3>4. leader[t] /\ phase[t] = "on" => Claims(mine[t])'
      BY <1>b, <1>5, <3>1, <3>2, <3>3 DEF Claims
    <3>5. Claims(tok[t])'
      BY <1>b, <1>5 DEF Claims
    <3> QED
      BY <1>a, <1>5, <3>4, <3>5 DEF ClaimInv
  <2>7. TimeInv(t)'
    BY <1>b, <1>5 DEF Local, TimeInv
  <2>8. LapseInv(t)'
    <3> SUFFICES ASSUME Stall < Ttl PROVE LeftAlone(t)' /\ Notices(t)'
      BY DEF LapseInv
    <3>1. now < e.deadline
      BY <1>b, <1>1
    <3>2. began[t] <= now /\ tick[t] <= now + LongestWait
      BY <1>b DEF Local, TimeInv
    <3>3. LeftAlone(t)'
      BY <1>a, <1>b, <1>5, <3>1, <3>2 DEF LeftAlone
    <3>4. Notices(t)'
      BY <1>b, <1>5, <3>1, <3>2, WaitTypes DEF Notices
    <3> QED
      BY <3>3, <3>4
  <2> QED
    BY <2>1, <2>2, <2>3, <2>4, <2>5, <2>6, <2>7, <2>8 DEF Local
<1> QED
  BY <1>b, <1>2, <1>3, <1>4, <1>7 DEF IndInv

\* The entry that a write leaves, and the token that it grants.
Grant(e) == [owner |-> e.owner, fence |-> e.fence, tenure |-> e.tenure, until |-> e.deadline]

LEMMA EntryType ==
    ASSUME IndInv, NEW t \in Candidates, NEW e,
           e.owner \in Owners, e.fence \in Nat, e.version \in Nat, e.tenure \in Nat,
           e = Entry(t, e.owner, e.fence, e.version, e.tenure)
    PROVE  /\ e \in Records /\ Grant(e) \in Tokens /\ SameTenure(e, Grant(e))
           /\ e.deadline = due[t] /\ e.nonce = writes + 1 /\ e.reap = now + Ttl + Retention
           /\ Grant(e).owner = e.owner /\ Grant(e).until = e.deadline
<1>1. due[t] \in Nat /\ writes + 1 \in Nat /\ now + Ttl + Retention \in Nat
  BY TaskTypes
<1>2. e \in Records /\ e.deadline = due[t] /\ e.nonce = writes + 1 /\ e.reap = now + Ttl + Retention
  BY <1>1 DEF Entry, Records
<1> QED
  BY <1>1, <1>2 DEF Grant, Tokens, SameTenure

\* put_if_absent.
LEMMA PutInd ==
    ASSUME IndInv, UNCHANGED deploy, NEW t \in Candidates, AtTheStore(t), PutIfAbsent(t)
    PROVE  IndInv'
<1>1. pc[t] = "put" /\ UNCHANGED <<now, snap, due, tries, lapse>> /\ doing[t] # "observe"
  BY DEF PutIfAbsent, AtTheStore
<1>2. CASE rec # NoRecord
  <2>1. pc' = [pc EXCEPT ![t] = "read"] /\ UNCHANGED <<deploy, now, rec, writes, tok, snap, due, tries, lapse>>
    BY <1>1, <1>2 DEF PutIfAbsent
  <2> QED
    BY <1>1, <2>1, MissInd
<1>3. CASE rec = NoRecord
  <2>1. PICK e : e = Entry(t, OwnerOf[t], FirstFence, 1, writes + 1)
    OBVIOUS
  <2>2. tok[t].owner = OwnerOf[t] /\ OwnerOf[t] \in Owners /\ doing[t] \in Claiming
    BY <1>1, AtWork
  <2>3. rec' = e /\ writes' = writes + 1 /\ tok' = [tok EXCEPT ![t] = Grant(e)]
    BY <1>3, <2>1, <2>2 DEF PutIfAbsent, Store, Hold, Grant
  <2>4. PICK a \in {"acquired", "failed"} : pc' = [pc EXCEPT ![t] = a] /\ (a = "failed" => deploy.faults)
    BY <1>3 DEF PutIfAbsent, AnswerTo
  <2>5. /\ e.owner = OwnerOf[t] /\ e.fence \in Nat /\ e.version \in Nat /\ e.tenure \in Nat
        /\ e = Entry(t, e.owner, e.fence, e.version, e.tenure)
    BY <2>1, TaskTypes DEF Entry
  <2>6. /\ e \in Records /\ Grant(e) \in Tokens /\ SameTenure(e, Grant(e))
        /\ e.owner = OwnerOf[t] /\ e.deadline = due[t] /\ e.nonce = writes + 1
        /\ e.reap = now + Ttl + Retention /\ Grant(e).owner = e.owner
        /\ Grant(e).until = e.deadline
    BY <2>2, <2>5, EntryType
  <2>7. rec.deadline <= now /\ doing[t] # "renew"
    BY <1>3, <2>2, TaskTypes DEF NoRecord, Claiming
  <2> QED
    BY <1>1, <2>3, <2>4, <2>6, <2>7, StoreInd
<1> QED
  BY <1>2, <1>3

\* What a conditional write compares: the bytes are the ones that were read.
LEMMA ReadIsStored ==
    ASSUME IndInv, NEW t \in Candidates, pc[t] \in {"steal", "extend", "delete"}, rec.nonce = snap[t].nonce
    PROVE  rec = snap[t]
BY TaskTypes DEF Local, NonceInv, RequestInv

\* compare_and_swap_value over a record that had lapsed.
LEMMA StealInd ==
    ASSUME IndInv, UNCHANGED deploy, NEW t \in Candidates, AtTheStore(t), Steal(t)
    PROVE  IndInv'
<1>1. pc[t] = "steal" /\ UNCHANGED <<now, snap, due, tries, lapse>> /\ doing[t] # "observe"
  BY DEF Steal, AtTheStore
<1>2. CASE rec.nonce # snap[t].nonce
  <2>1. /\ pc' = [pc EXCEPT ![t] = "contended"]
        /\ UNCHANGED <<deploy, now, rec, writes, tok, snap, due, tries, lapse>>
    BY <1>1, <1>2 DEF Steal
  <2> QED
    BY <1>1, <1>2, <2>1, MissInd
<1>3. CASE rec.nonce = snap[t].nonce
  <2>1. PICK e : e = Entry(t, OwnerOf[t], snap[t].fence + 1, rec.version + 1, writes + 1)
    OBVIOUS
  <2>2. tok[t].owner = OwnerOf[t] /\ OwnerOf[t] \in Owners /\ doing[t] \in Claiming
    BY <1>1, AtWork
  <2>3. rec' = e /\ writes' = writes + 1 /\ tok' = [tok EXCEPT ![t] = Grant(e)]
    BY <1>3, <2>1, <2>2 DEF Steal, Store, Hold, Grant
  <2>4. PICK a \in {"acquired", "failed"} : pc' = [pc EXCEPT ![t] = a] /\ (a = "failed" => deploy.faults)
    BY <1>3 DEF Steal, AnswerTo
  <2>5. /\ e.owner = OwnerOf[t] /\ e.fence \in Nat /\ e.version \in Nat /\ e.tenure \in Nat
        /\ e = Entry(t, e.owner, e.fence, e.version, e.tenure)
    BY <2>1, TaskTypes DEF Entry, Records
  <2>6. /\ e \in Records /\ Grant(e) \in Tokens /\ SameTenure(e, Grant(e))
        /\ e.owner = OwnerOf[t] /\ e.deadline = due[t] /\ e.nonce = writes + 1
        /\ e.reap = now + Ttl + Retention /\ Grant(e).owner = e.owner
        /\ Grant(e).until = e.deadline
    BY <2>2, <2>5, EntryType
  <2>7. rec.deadline <= now /\ doing[t] # "renew"
    <3>1. rec = snap[t]
      BY <1>1, <1>3, ReadIsStored
    <3> QED
      BY <1>1, <2>2, <3>1, TaskTypes DEF Local, RequestInv, Claiming
  <2> QED
    BY <1>1, <2>3, <2>4, <2>6, <2>7, StoreInd
<1> QED
  BY <1>2, <1>3

\* The write of a renewal.
LEMMA WriteExtensionInd ==
    ASSUME IndInv, UNCHANGED deploy, NEW t \in Candidates, AtTheStore(t), Extend(t)
    PROVE  IndInv'
<1>1. pc[t] = "extend" /\ UNCHANGED <<now, snap, due, tries, lapse>> /\ doing[t] # "observe"
  BY DEF Extend, AtTheStore
<1>2. CASE rec.version # snap[t].version
  <2>1. /\ pc' = [pc EXCEPT ![t] = "expired"]
        /\ UNCHANGED <<deploy, now, rec, writes, tok, snap, due, tries, lapse>>
    BY <1>1, <1>2 DEF Extend
  <2> QED
    BY <1>1, <2>1, MissInd
<1>3. CASE rec.version = snap[t].version
  <2>1. PICK e : e = Entry(t, OwnerOf[t], snap[t].fence, rec.version + 1, snap[t].tenure)
    OBVIOUS
  <2>2. snap[t].owner = OwnerOf[t] /\ OwnerOf[t] \in Owners /\ doing[t] = "renew"
    <3>1. Matches(snap[t], tok[t])
      BY <1>1, TaskTypes DEF Local, RequestInv
    <3> QED
      BY <1>1, <3>1, AtWork
  <2>3. rec' = e /\ writes' = writes + 1 /\ tok' = [tok EXCEPT ![t] = Grant(e)]
    BY <1>3, <2>1, <2>2 DEF Extend, Store, Hold, Grant
  <2>4. PICK a \in {"renewed", "failed"} : pc' = [pc EXCEPT ![t] = a] /\ (a = "failed" => deploy.faults)
    BY <1>3 DEF Extend, AnswerTo
  <2>5. /\ e.owner = OwnerOf[t] /\ e.fence \in Nat /\ e.version \in Nat /\ e.tenure \in Nat
        /\ e = Entry(t, e.owner, e.fence, e.version, e.tenure)
        /\ e.fence = snap[t].fence /\ e.tenure = snap[t].tenure
    BY <2>1, TaskTypes DEF Entry, Records
  <2>6. /\ e \in Records /\ Grant(e) \in Tokens /\ SameTenure(e, Grant(e))
        /\ e.owner = OwnerOf[t] /\ e.deadline = due[t] /\ e.nonce = writes + 1
        /\ e.reap = now + Ttl + Retention /\ Grant(e).owner = e.owner
        /\ Grant(e).until = e.deadline
    BY <2>2, <2>5, EntryType
  <2>7. SameTenure(e, snap[t])
    BY <2>5 DEF SameTenure
  <2>8. deploy.prompt => rec.owner = OwnerOf[t]
    BY <1>1, <2>2, TaskTypes DEF Local, ExtendInv
  <2> QED
    BY <1>1, <2>3, <2>4, <2>2, <2>6, <2>7, <2>8, StoreInd
<1> QED
  BY <1>2, <1>3

-----------------------------------------------------------------------------
(* Removals.                                                               *)

\* The record is gone, and was not a live one of the task's own.
LEMMA AfterRemoval ==
    ASSUME IndInv, NEW u \in Candidates, Untouched(u), UNCHANGED <<deploy, now, writes>>, rec' = NoRecord,
           rec.owner # OwnerOf[u] \/ rec.deadline <= now
    PROVE  Local(u)'
<1>1. /\ now \in Nat /\ snap[u].nonce \in Nat /\ Local(u)
      /\ rec.deadline \in Nat
      /\ mine[u].until \in Nat /\ tok[u].until \in Nat /\ snap[u].deadline \in Nat
      /\ NoRecord.owner = Nobody /\ NoRecord.nonce = 0 /\ OwnerOf[u] # Nobody
  BY TaskTypes DEF Records, Tokens, NoRecord
<1> USE DEF Untouched
<1>2. NonceInv(u)' /\ StepInv(u)' /\ TaskInv(u)' /\ RequestInv(u)'
  BY <1>1 DEF Local, NonceInv, StepInv, TaskInv, RequestInv
<1>3. TenureInv(u)'
  BY <1>1 DEF Local, TenureInv, SameTenure
<1>4. ~(rec.owner = OwnerOf[u] /\ now < rec.deadline)
  BY <1>1
<1>5. ExtendInv(u)'
  <2>1. pc[u] = "extend" => snap[u].owner = OwnerOf[u]
    BY <1>1 DEF Local, RequestInv, StepInv, TaskInv
  <2> QED
    BY <1>1, <1>4, <2>1 DEF Local, ExtendInv
<1>6. ClaimInv(u)'
  <2> SUFFICES ASSUME deploy.prompt PROVE ClaimInv(u)'
    BY DEF ClaimInv
  <2>1. leader[u] /\ phase[u] = "on" => ~(now < mine[u].until)
    <3>1. leader[u] => mine[u].owner = OwnerOf[u]
      BY <1>1 DEF Local, TaskInv
    <3> QED
      BY <1>1, <1>4, <3>1 DEF Local, ClaimInv, Claims
  <2>2. pc[u] \in {"acquired", "renewed"} => ~(now < tok[u].until)
    <3>1. pc[u] \in {"acquired", "renewed"} => tok[u].owner = OwnerOf[u]
      BY <1>1 DEF Local, TaskInv, StepInv
    <3> QED
      BY <1>1, <1>4, <3>1 DEF Local, ClaimInv, Claims
  <2>3. doing[u] = "observe" /\ snap[u].owner = OwnerOf[u] => ~(now < snap[u].deadline)
    BY <1>1, <1>4 DEF Local, ClaimInv
  <2> QED
    BY <2>1, <2>2, <2>3 DEF ClaimInv, Claims
<1>7. TimeInv(u)' /\ LapseInv(u)'
  BY <1>1 DEF Local, TimeInv, LapseInv
<1> QED
  BY <1>2, <1>3, <1>5, <1>6, <1>7 DEF Local

\* The type of the state and the record's part, after a removal.
LEMMA RemovalTypes ==
    ASSUME IndInv, UNCHANGED <<deploy, now, writes, tok, snap, due, tries, lapse>>, rec' = NoRecord,
           UNCHANGED <<taskVars, watching, shutdown>>, Notify, pc' \in [Requests -> Steps \cup {"idle", "asleep"}]
    PROVE  deploy' \in Deployments /\ TypeOK' /\ RecordInv'
<1>1. LeaseTypeOK'
  BY Values DEF IndInv, TypeOK, LeaseTypeOK
<1>2. feed' \subseteq watching' /\ watching' \subseteq Candidates
  BY DEF IndInv, TypeOK, Notify
<1>3. TypeOK'
  BY <1>1, <1>2 DEF IndInv, TypeOK, taskVars
<1>4. RecordInv'
  BY DEF IndInv, TypeOK, LeaseTypeOK, RecordInv, NoRecord
<1> QED
  BY <1>3, <1>4 DEF IndInv

\* compare_and_delete: a candidate removes its own claim as it leaves.
LEMMA DeleteInd ==
    ASSUME IndInv, UNCHANGED deploy, NEW t \in Candidates, AtTheStore(t), Delete(t)
    PROVE  IndInv'
<1>1. pc[t] = "delete" /\ UNCHANGED <<now, writes, tok, snap, due, tries, lapse>> /\ doing[t] # "observe"
  BY DEF Delete, AtTheStore
<1>2. PICK a \in {"released", "failed"} : pc' = [pc EXCEPT ![t] = a] /\ (a = "failed" => deploy.faults)
  BY DEF Delete, AnswerTo
<1>3. CASE rec.nonce # snap[t].nonce
  <2>1. UNCHANGED <<deploy, now, rec, writes, tok, snap, due, tries, lapse>>
    BY <1>1, <1>3 DEF Delete
  <2> QED
    BY <1>1, <1>2, <2>1, MissInd
<1>4. CASE rec.nonce = snap[t].nonce
  <2>1. rec' = NoRecord
    BY <1>4 DEF Delete
  <2>2. rec.owner = OwnerOf[t] /\ doing[t] = "leave"
    <3>1. rec = snap[t] /\ Matches(snap[t], tok[t])
      BY <1>1, <1>4, ReadIsStored, TaskTypes DEF Local, RequestInv
    <3> QED
      BY <1>1, <3>1, AtWork
  <2>3. deploy' \in Deployments /\ TypeOK' /\ RecordInv'
    <3>1. pc' \in [Requests -> Steps \cup {"idle", "asleep"}]
      BY <1>2 DEF IndInv, TypeOK, LeaseTypeOK
    <3> QED
      BY <1>1, <2>1, <3>1, RemovalTypes DEF AtTheStore
  <2>4. ASSUME NEW u \in Candidates \ {t} PROVE Local(u)'
    <3>1. Untouched(u)
      BY <1>1, <1>2 DEF Untouched, IndInv, TypeOK, LeaseTypeOK, AtTheStore, taskVars
    <3>2. OwnerOf[u] # OwnerOf[t]
      OBVIOUS
    <3> QED
      BY <1>1, <2>1, <2>2, <3>1, <3>2, AfterRemoval
  <2>5. /\ pc'[t] = a /\ tok'[t] = tok[t] /\ snap'[t] = snap[t] /\ due'[t] = due[t]
        /\ phase'[t] = phase[t] /\ doing'[t] = doing[t] /\ byTimer'[t] = byTimer[t]
        /\ began'[t] = began[t] /\ leader'[t] = leader[t] /\ mine'[t] = mine[t]
        /\ tick'[t] = tick[t] /\ shown'[t] = shown[t]
    BY <1>1, <1>2 DEF IndInv, TypeOK, LeaseTypeOK, AtTheStore, taskVars
  <2>6. /\ now \in Nat /\ snap[t].nonce \in Nat /\ Local(t)
        /\ NoRecord.owner = Nobody /\ NoRecord.nonce = 0 /\ OwnerOf[t] # Nobody
    BY TaskTypes DEF Records, NoRecord
  <2>7. phase[t] = "leaving"
    BY <2>2, <2>6 DEF Local, StepInv
  <2>8. Local(t)'
    <3>1. NonceInv(t)' /\ StepInv(t)' /\ TaskInv(t)' /\ RequestInv(t)'
      BY <1>1, <1>2, <2>1, <2>2, <2>5, <2>6 DEF Local, NonceInv, StepInv, TaskInv, RequestInv,
         Claiming, Conditional
    <3>2. TenureInv(t)' /\ ExtendInv(t)' /\ ClaimInv(t)'
      BY <1>2, <2>1, <2>2, <2>5, <2>6, <2>7 DEF TenureInv, ExtendInv, ClaimInv
    <3>3. TimeInv(t)' /\ LapseInv(t)'
      BY <1>1, <1>2, <2>1, <2>5, <2>6 DEF Local, TimeInv, LapseInv
    <3> QED
      BY <3>1, <3>2, <3>3 DEF Local
  <2> QED
    BY <2>3, <2>4, <2>8 DEF IndInv
<1> QED
  BY <1>3, <1>4

\* The cache drops a record, long after its deadline.
LEMMA ExpireInd ==
    ASSUME IndInv, UNCHANGED deploy, Expire
    PROVE  IndInv'
<1>1. /\ rec' = NoRecord /\ UNCHANGED <<now, writes, pc, tok, snap, due, tries, lapse>>
      /\ UNCHANGED <<taskVars, watching, shutdown>> /\ Notify /\ rec.reap <= now
  BY DEF Expire, Reap
<1>2. deploy' \in Deployments /\ TypeOK' /\ RecordInv'
  <2>1. pc' \in [Requests -> Steps \cup {"idle", "asleep"}]
    BY <1>1 DEF IndInv, TypeOK, LeaseTypeOK
  <2> QED
    BY <1>1, <2>1, RemovalTypes
<1>3. rec.owner \in Owners => rec.deadline <= now
  BY <1>1 DEF IndInv, RecordInv, TypeOK, LeaseTypeOK, Records
<1>4. ASSUME NEW u \in Candidates PROVE Local(u)'
  <2>1. Untouched(u)
    BY <1>1 DEF Untouched, taskVars
  <2>2. rec.owner # OwnerOf[u] \/ rec.deadline <= now
    BY <1>3
  <2> QED
    BY <1>1, <2>1, <2>2, AfterRemoval
<1> QED
  BY <1>2, <1>4 DEF IndInv

\* A step of the store.
LEMMA StoreStepInd ==
    ASSUME IndInv, UNCHANGED deploy, NEW t \in Candidates, AtTheStore(t)
    PROVE  IndInv'
<1>1. CASE Fail(t)
  <2>1. /\ UNCHANGED <<deploy, now, rec, writes, tok, snap, due, tries, lapse>>
        /\ pc' = [pc EXCEPT ![t] = "failed"] /\ pc[t] \in AtStore /\ deploy.faults
    BY <1>1 DEF Fail
  <2> QED
    BY <2>1, MissInd
<1> QED
  BY <1>1, PutInd, ReadInd, MeasureInd, StealInd, CheckInd, WriteExtensionInd, DeleteInd
     DEF AtTheStore, StoreStep

-----------------------------------------------------------------------------
(* Time, and the steps that are nobody's.                                  *)

\* A tick of the clock: no timer, answer or call is overdue.
LEMMA PassesInd ==
    ASSUME IndInv, UNCHANGED deploy, Passes
    PROVE  IndInv'
<1>1. /\ now' = now + 1 /\ UNCHANGED <<rec, writes, pc, tok, snap, due, tries, lapse>>
      /\ UNCHANGED <<phase, doing, byTimer, began, leader, mine, armed, missed, tick, seen, shown>>
      /\ UNCHANGED <<feed, watching, shutdown>>
  BY DEF Passes, Tick, storeVars, taskVars
<1>2. now \in Nat /\ now + 1 \in Nat
  BY DEF IndInv, TypeOK, LeaseTypeOK
<1>3. TypeOK'
  <2>1. LeaseTypeOK'
    BY <1>1, <1>2 DEF IndInv, TypeOK, LeaseTypeOK
  <2> QED
    BY <1>1, <2>1 DEF IndInv, TypeOK
<1>4. RecordInv'
  BY <1>1, <1>2 DEF IndInv, TypeOK, LeaseTypeOK, Records, RecordInv
<1>5. ASSUME NEW t \in Candidates PROVE Local(t)'
  <2>1. /\ due[t] \in Nat /\ rec.deadline \in Nat /\ began[t] \in Nat /\ tick[t] \in Nat
        /\ mine[t].until \in Nat /\ tok[t].until \in Nat /\ snap[t].deadline \in Nat /\ Local(t)
    BY TaskTypes DEF Records, Tokens
  <2>2. /\ pc[t] \in Conditional => now + Ttl < due[t] + Stall
        /\ pc[t] = "extend" /\ deploy.prompt => now + 1 < snap[t].deadline
    BY DEF Passes, Tick
  <2>3. /\ Waits(t) => now < tick[t]
        /\ pc[t] # "idle" => now < began[t] + Stall
    BY DEF Passes, OnTime
  <2>4. NonceInv(t)' /\ StepInv(t)' /\ TaskInv(t)'
    BY <1>1, <2>1 DEF Local, NonceInv, StepInv, TaskInv
  <2>5. RequestInv(t)'
    BY <1>1, <1>2, <2>1, <2>2 DEF Local, RequestInv
  <2>6. TenureInv(t)' /\ ExtendInv(t)'
    BY <1>1, <1>2, <2>1, <2>2 DEF Local, TenureInv, SameTenure, ExtendInv
  <2>7. ClaimInv(t)'
    BY <1>1, <1>2, <2>1 DEF Local, ClaimInv, Claims
  <2>8. TimeInv(t)'
    BY <1>1, <1>2, <2>1, <2>3, WaitTypes DEF Local, TimeInv
  <2>9. LapseInv(t)'
    <3> SUFFICES ASSUME ~deploy.faults, Stall < Ttl, rec.owner \in Owners
                 PROVE  LeftAlone(t)' /\ (phase[t] = "on" => Notices(t)')
      BY <1>1 DEF LapseInv
    <3>1. LeftAlone(t) /\ (phase[t] = "on" => Notices(t))
      BY <2>1 DEF Local, LapseInv
    <3>2. phase[t] = "on" /\ doing[t] = "nothing" => Waits(t) /\ ~byTimer[t]
      BY <2>1 DEF Local, StepInv, Waits
    <3>3. phase[t] = "on" => Notices(t)'
      BY <1>1, <1>2, <2>1, <2>3, <3>1, <3>2, WaitTypes DEF Notices
    <3>4. LeftAlone(t)'
      BY <1>1, <3>1 DEF LeftAlone
    <3> QED
      BY <3>3, <3>4
  <2> QED
    BY <2>4, <2>5, <2>6, <2>7, <2>8, <2>9 DEF Local
<1> QED
  BY <1>3, <1>4, <1>5 DEF IndInv

\* What is neither a task's nor the store's changes nothing that matters here.
LEMMA IdleInd ==
    ASSUME IndInv, UNCHANGED deploy, UNCHANGED <<leaseVars, taskVars>>,
           feed' \subseteq watching', watching' \subseteq Candidates, shutdown' \in BOOLEAN
    PROVE  IndInv'
<1>1. /\ UNCHANGED <<now, rec, writes, pc, tok, snap, due, tries, lapse>>
      /\ UNCHANGED <<phase, doing, byTimer, began, leader, mine, armed, missed, tick, seen, shown>>
  BY DEF leaseVars, storeVars, taskVars
<1>2. TypeOK'
  <2>1. LeaseTypeOK'
    BY <1>1 DEF IndInv, TypeOK, LeaseTypeOK
  <2> QED
    BY <1>1, <2>1 DEF IndInv, TypeOK
<1>3. RecordInv'
  BY <1>1 DEF IndInv, RecordInv
<1>4. \A u \in Candidates : Local(u)'
  BY <1>1, OtherTask DEF IndInv, Untouched
<1> QED
  BY <1>2, <1>3, <1>4 DEF IndInv

\* A watch that ends, and the replica's shutdown.
LEMMA BreaksInd ==
    ASSUME IndInv, UNCHANGED deploy, Revoke \/ \E t \in Candidates : WatchBreaks(t)
    PROVE  IndInv'
<1>1. CASE Revoke
  BY <1>1, IdleInd DEF Revoke, IndInv, TypeOK
<1>2. ASSUME NEW t \in Candidates, WatchBreaks(t) PROVE IndInv'
  <2>1. /\ UNCHANGED <<leaseVars, taskVars>> /\ feed' \subseteq watching' /\ watching' \subseteq Candidates
        /\ shutdown' \in BOOLEAN
    BY <1>2 DEF WatchBreaks, IndInv, TypeOK
  <2> QED
    BY <2>1, IdleInd
<1> QED
  BY <1>1, <1>2

\* The invariant is kept by every step.
LEMMA NextInd == IndInv /\ [Next /\ UNCHANGED deploy]_<<vars, deploy>> => IndInv'
<1> SUFFICES ASSUME IndInv, [Next /\ UNCHANGED deploy]_<<vars, deploy>> PROVE IndInv'
  OBVIOUS
<1>1. CASE UNCHANGED <<vars, deploy>>
  <2>1. UNCHANGED <<leaseVars, taskVars>> /\ UNCHANGED deploy /\ UNCHANGED <<feed, watching, shutdown>>
    BY <1>1 DEF vars
  <2> QED
    BY <2>1, IdleInd DEF IndInv, TypeOK
<1>2. CASE Next /\ UNCHANGED deploy
  <2>1. ASSUME NEW t \in Candidates, Enrol(t) \/ AtTheStore(t) \/ TaskStep(t) PROVE IndInv'
    BY <1>2, <2>1, EnrolInd, StoreStepInd, TaskStepInd
  <2>2. ASSUME NEW t \in Candidates, WatchCloses(t) \/ Resign(t) \/ Crash(t) PROVE IndInv'
    BY <1>2, <2>2, EndsInd
  <2> QED
    BY <1>2, <2>1, <2>2, ExpireInd, PassesInd, BreaksInd DEF Next
<1> QED
  BY <1>1, <1>2

\* The strengthened invariant of the election, for any deployment.
THEOREM Inductive == Spec => []IndInv
<1>1. Init => IndInv
  BY InitInd
<1>2. IndInv /\ [Next /\ UNCHANGED deploy]_<<vars, deploy>> => IndInv'
  BY NextInd
<1> QED
  BY <1>1, <1>2, PTL DEF Spec

\* One leader by the lease: where renewals are prompt, a candidate that leads
\* finds its own record of its own tenure under the key until the deadline that
\* take_lease or observe took over from the store has come.
THEOREM LeaderCorrect == Spec => []LeaderIsStored
<1>1. IndInv => LeaderIsStored
  <2> SUFFICES ASSUME IndInv, deploy.prompt, NEW t \in Candidates,
                      phase[t] = "on", leader[t], now < mine[t].until
               PROVE  Matches(rec, mine[t]) /\ rec.tenure = mine[t].tenure
    BY DEF LeaderIsStored, IndInv
  <2>1. rec.owner = mine[t].owner
    BY TaskTypes DEF Local, ClaimInv, Claims
  <2>2. mine[t].owner = OwnerOf[t]
    BY TaskTypes DEF Local, TaskInv
  <2> QED
    BY <2>1, <2>2, TaskTypes DEF Local, TenureInv, SameTenure
<1> QED
  BY <1>1, Inductive, PTL

\* A lapsed claim is taken: over a store that answers within the lease, while an
\* enrolled task runs, next_renewal_delay's timer, the watch or a renewal comes
\* upon a lapsed record, and the claim that follows replaces it, within the
\* longest wait and three calls.
THEOREM VacancyTaken == Spec => []LapsedIsTaken
<1>1. IndInv => LapsedIsTaken
  <2> SUFFICES ASSUME IndInv, ~deploy.faults, Stall < Ttl, NEW t \in Candidates,
                      phase[t] = "on", rec.owner \in Owners
               PROVE  now < rec.deadline + LongestWait + 3 * Stall
    BY DEF LapsedIsTaken
  <2>1. now \in Nat /\ began[t] \in Nat /\ rec.deadline \in Nat /\ Local(t)
    BY TaskTypes DEF Records
  <2>2. Notices(t) /\ doing[t] \in {"nothing", "claim", "reclaim", "renew", "observe"}
    BY <2>1 DEF Local, LapseInv, StepInv
  <2>3. doing[t] # "nothing" => now <= began[t] + Stall
    BY <2>1 DEF Local, StepInv, TimeInv
  <2> QED
    BY <2>1, <2>2, <2>3, WaitTypes DEF Notices
<1> QED
  BY <1>1, Inductive, PTL

-----------------------------------------------------------------------------
(* What a step may do to a tenure.                                         *)

\* A task's token is of another tenure only when it shows that it does not lead,
\* or did not lead before.
LEMMA TokensKept ==
    ASSUME IndInv, NEW t \in Candidates, NEW u \in Candidates,
           \/ UNCHANGED mine
           \/ Lose(t) \/ Gone(t, "Lost") \/ Gone(t, "Gone")
           \/ Enrolled(t) \/ Renewed(t) \/ Claimed(t) \/ Reassure(t),
           shown[u] = "Leader", shown'[u] = "Leader"
    PROVE  mine'[u].tenure = mine[u].tenure
<1>1. mine \in [Candidates -> Tokens] /\ shown \in [Candidates -> {"Follower", "Leader", "Lost", "Gone"}]
  BY DEF IndInv, TypeOK
<1>2. leader[u] /\ Local(u)
  BY TaskTypes DEF Local, TaskInv
<1>3. CASE UNCHANGED mine
  BY <1>3
<1>4. CASE Lose(t) \/ Gone(t, "Lost") \/ Gone(t, "Gone")
  BY <1>1, <1>4 DEF Lose, Gone
<1>5. CASE Enrolled(t) \/ Claimed(t)
  <2>1. t # u
    BY <1>2, <1>5 DEF Enrolled, Claimed, Local, TaskInv, Claiming
  <2> QED
    BY <1>1, <1>5, <2>1 DEF Enrolled, Claimed, Armed
<1>6. CASE Renewed(t)
  BY <1>1, <1>2, <1>6 DEF Renewed, Armed, Local, TenureInv, SameTenure
<1>7. CASE Reassure(t)
  <2>1. CASE t # u
    BY <1>1, <1>7, <2>1 DEF Reassure
  <2>2. CASE t = u
    <3>1. doing[u] = "observe" /\ snap[u].owner = mine[u].owner /\ mine[u] # NoToken
      BY <1>7, <2>2 DEF Reassure, HoldsSeen
    <3>2. mine'[u].tenure = snap[u].tenure
      BY <1>1, <1>7, <2>2 DEF Reassure, Tokens
    <3> QED
      BY <1>2, <3>1, <3>2 DEF Local, TaskInv, TenureInv, SameTenure
  <2> QED
    BY <2>1, <2>2
<1> QED
  BY <1>3, <1>4, <1>5, <1>6, <1>7

\* Every step is of one of these kinds.
LEMMA StepKinds ==
    ASSUME IndInv, Next
    PROVE  \/ UNCHANGED mine
           \/ \E t \in Candidates :
                \/ Lose(t) \/ Gone(t, "Lost") \/ Gone(t, "Gone")
                \/ Enrolled(t) \/ Renewed(t) \/ Claimed(t) \/ Reassure(t)
<1> DEFINE Kinds(t) == \/ UNCHANGED mine
                       \/ Lose(t) \/ Gone(t, "Lost") \/ Gone(t, "Gone")
                       \/ Enrolled(t) \/ Renewed(t) \/ Claimed(t) \/ Reassure(t)
<1>1. ASSUME NEW t \in Candidates, NEW s, Leave(t, s) PROVE Kinds(t)
  BY <1>1 DEF Leave
<1>2. ASSUME NEW t \in Candidates, TaskStep(t) PROVE Kinds(t)
  <2>1. CASE Enrolled(t) \/ Renewed(t) \/ Claimed(t) \/ Reassure(t)
    BY <2>1
  <2>2. CASE TickClaim(t) \/ TickRenew(t) \/ ClaimFails(t) \/ Observe(t) \/ StepDown(t)
    BY <2>2 DEF TickClaim, TickRenew, ClaimFails, Observe, StepDown
  <2>3. CASE TickLate(t) \/ RenewRefused(t) \/ RenewMissed(t) \/ ObserveVacancy(t)
    BY <2>3 DEF TickLate, RenewRefused, RenewMissed, ObserveVacancy
  <2>4. CASE EnrolFails(t) \/ Released(t) \/ Revoked(t)
    BY <2>4 DEF EnrolFails, Released, Revoked
  <2>5. CASE FailsFatally(t) \/ ObserveFails(t)
    BY <1>1, <2>5 DEF FailsFatally, ObserveFails, Close
  <2> QED
    BY <1>2, <2>1, <2>2, <2>3, <2>4, <2>5 DEF TaskStep
<1>3. ASSUME NEW t \in Candidates, Enrol(t) \/ AtTheStore(t) \/ WatchBreaks(t) PROVE UNCHANGED mine
  BY <1>3 DEF Enrol, AtTheStore, WatchBreaks, taskVars
<1>4. ASSUME NEW t \in Candidates, WatchCloses(t) \/ Resign(t) \/ Crash(t) PROVE Kinds(t)
  BY <1>1, <1>4 DEF WatchCloses, Resign, Crash, Close
<1>5. CASE Expire \/ Passes \/ Revoke
  BY <1>5 DEF Expire, Passes, Revoke, taskVars
<1> QED
  BY <1>2, <1>3, <1>4, <1>5 DEF Next

\* A record disappears by its owner's resignation, or when its retention ends.
LEMMA RemovedByOwner == ASSUME IndInv, Next PROVE OnlyOwnResignRemoves
<1> SUFFICES ASSUME rec # NoRecord, rec' = NoRecord
             PROVE  \/ rec.reap <= now
                    \/ \E t \in Candidates :
                         pc[t] = "delete" /\ phase[t] = "leaving" /\ rec.owner = OwnerOf[t]
  BY DEF OnlyOwnResignRemoves
<1>1. CASE Expire
  BY <1>1 DEF Expire, Reap
<1>2. ASSUME NEW t \in Candidates, AtTheStore(t)
      PROVE  pc[t] = "delete" /\ phase[t] = "leaving" /\ rec.owner = OwnerOf[t]
  <2>0. NoRecord.owner = Nobody /\ Local(t) /\ doing[t] # "observe" /\ OwnerOf[t] # Nobody
    BY <1>2, TaskTypes DEF NoRecord, AtTheStore
  <2>1. CASE Delete(t)
    <3>1. pc[t] = "delete" /\ rec.nonce = snap[t].nonce
      BY <2>1 DEF Delete
    <3>2. rec = snap[t] /\ Matches(snap[t], tok[t])
      BY <2>0, <3>1, ReadIsStored DEF Local, RequestInv
    <3> QED
      BY <2>0, <3>1, <3>2, AtWork DEF Local, StepInv
  <2>2. CASE PutIfAbsent(t) \/ Steal(t)
    <3>1. tok[t].owner = OwnerOf[t]
      BY <2>0, <2>2, AtWork DEF PutIfAbsent, Steal
    <3>2. rec' = rec \/ rec'.owner = tok[t].owner
      BY <2>2 DEF PutIfAbsent, Steal, Store, Entry
    <3> QED
      BY <2>0, <3>1, <3>2
  <2>3. CASE Extend(t)
    <3>1. Matches(snap[t], tok[t]) /\ tok[t].owner = OwnerOf[t]
      BY <2>0, <2>3, AtWork DEF Extend, Local, RequestInv
    <3>2. rec' = rec \/ rec'.owner = snap[t].owner
      BY <2>3 DEF Extend, Store, Entry
    <3> QED
      BY <2>0, <3>1, <3>2
  <2>4. CASE Read(t) \/ Measure(t) \/ CheckRenew(t) \/ CheckRelease(t) \/ Fail(t)
    BY <2>4 DEF Read, Measure, CheckRenew, CheckRelease, Fail
  <2> QED
    BY <1>2, <2>1, <2>2, <2>3, <2>4 DEF AtTheStore, StoreStep
<1> USE DEF StartAcquire, StartRenew, StartRelease, Finish, Rest, Lose, Gone, Leave, Close
<1>3. ASSUME NEW t \in Candidates, TaskStep(t) PROVE UNCHANGED rec
  <2>1. CASE Enrolled(t) \/ EnrolFails(t) \/ TickClaim(t) \/ TickLate(t) \/ TickRenew(t)
    BY <2>1 DEF Enrolled, EnrolFails, TickClaim, TickLate, TickRenew
  <2>2. CASE Renewed(t) \/ RenewRefused(t) \/ RenewMissed(t) \/ Claimed(t) \/ ClaimFails(t) \/ FailsFatally(t)
    BY <2>2 DEF Renewed, RenewRefused, RenewMissed, Claimed, ClaimFails, FailsFatally
  <2>3. CASE \/ Observe(t) \/ Reassure(t) \/ StepDown(t) \/ ObserveVacancy(t) \/ ObserveFails(t)
             \/ Released(t) \/ Revoked(t)
    BY <2>3 DEF Observe, Reassure, StepDown, ObserveVacancy, ObserveFails, Released, Revoked
  <2> QED
    BY <1>3, <2>1, <2>2, <2>3 DEF TaskStep
<1>4. ASSUME NEW t \in Candidates,
             Enrol(t) \/ WatchBreaks(t) \/ WatchCloses(t) \/ Resign(t) \/ Crash(t)
      PROVE  UNCHANGED rec
  BY <1>4 DEF Enrol, WatchBreaks, WatchCloses, Resign, Crash, leaseVars, storeVars
<1>5. CASE Passes \/ Revoke
  BY <1>5 DEF Passes, Tick, Revoke, leaseVars, storeVars
<1> QED
  BY <1>1, <1>2, <1>3, <1>4, <1>5 DEF Next

\* A consumer never sees leadership of one tenure run into the next without the
\* loss that lose_then_reclaim shows in between, and nobody but the resigning
\* candidate, or the retention, removes a claim.
THEOREM ElectionTenures == Spec => TenuresKept
<1>1. IndInv /\ [Next /\ UNCHANGED deploy]_<<vars, deploy>>
        => [LossIsShown /\ OnlyOwnResignRemoves]_vars
  <2> SUFFICES ASSUME IndInv, Next PROVE LossIsShown /\ OnlyOwnResignRemoves
    BY DEF vars
  <2>1. LossIsShown
    BY StepKinds, TokensKept DEF LossIsShown
  <2> QED
    BY <2>1, RemovedByOwner
<1> QED
  BY <1>1, Inductive, PTL DEF Spec, TenuresKept
=============================================================================
