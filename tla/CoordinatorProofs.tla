--------------------------- MODULE CoordinatorProofs --------------------------
(***************************************************************************)
(* What two coordinators guarantee: the lease table of CoordLease for any  *)
(* number of guards, any TTL, any drift of the workers' clocks and any     *)
(* bounds, and the group of ConsumerGroup for any number of members,       *)
(* requests, topics and partitions.                                        *)
(***************************************************************************)
EXTENDS CoordLease, ConsumerGroup, FiniteSetTheorems, SequenceTheorems, TLAPS

-----------------------------------------------------------------------------
(***************************************************************************)
(* The lease table.  A transaction that has not been overtaken still sees  *)
(* the current row (SnapInv), and its NOW() lies in the past (ClockInv).   *)
(* So the row a claim replaces had really run out, and the row a fence     *)
(* locks really was its guard's; from then on the lock keeps every other   *)
(* writer away until the commit (FenceInv).                                *)
(***************************************************************************)


\* The copies there are.
LibInv == library \in {"coord", "am"}

\* A slot that was never inserted has no holder and no attempts, and a holder
\* is the last who claimed.
RowInv ==
    /\ ~row.is => row = NoRow
    /\ row.by # None => owner = row.by

\* A transaction that nobody overtook sees the row as it is.
SnapInv == \A g \in Guards : pc[g] \in InTx /\ g \notin stale => snap[g] = row

\* Every NOW() a statement compares with lies in the past.
ClockInv == \A g \in Guards : at[g] <= now /\ hbAt[g] <= now

\* The row is locked by a guard that holds it, and the fence of the shared copy
\* has locked it for as long as its transaction is open.
FenceInv ==
    /\ lock # None => row.by = lock
    /\ \A g \in Guards : library = "coord" /\ pc[g] = "fenced" => lock = g

\* A guard has no heartbeat before it holds the lease.
BeatInv == \A g \in Guards : pc[g] \in {"new", "acq"} => hb[g] = "off"

IndInv ==
    /\ TypeOK /\ LibInv
    /\ RowInv /\ SnapInv /\ ClockInv /\ FenceInv /\ BeatInv
    /\ WithinTtl /\ LostIsFinal /\ FencedInTenure

USE DEF InTx, Working, States, Epoch, WorkInTenure

\* The empty table satisfies the invariant.
LEMMA InitInd == Init => IndInv
BY LeaseAssumption DEF Init, IndInv, TypeOK, LibInv, RowInv, SnapInv, ClockInv, FenceInv,
   BeatInv, WithinTtl, LostIsFinal, FencedInTenure, Rows, NoRow

-----------------------------------------------------------------------------
(* The writers.                                                            *)

\* A claim of a row that nobody has locked, with an expiry within the TTL.
LEMMA ClaimInd ==
    ASSUME IndInv, UNCHANGED library, NEW g \in Guards, pc[g] = "acq", lock = None,
           NEW until \in Int, NEW attempts \in Nat,
           \E d \in {0} \cup (IF library = "coord" THEN {} ELSE Drifts) : until <= now + Ttl + d,
           Claim(g, until, attempts)
    PROVE  IndInv'
<1> USE LeaseAssumption DEF IndInv, TypeOK
<1>1. /\ row' = [is |-> TRUE, by |-> g, until |-> until, attempts |-> attempts]
      /\ stale' = {h \in Guards : pc[h] \in InTx} \ {g}
      /\ owner' = g /\ tries' = [tries EXCEPT ![g] = 0]
      /\ snap' = [snap EXCEPT ![g] = NoRow] /\ at' = [at EXCEPT ![g] = 0]
      /\ UNCHANGED <<lock, now, hbAt, commits, library>>
  BY DEF Claim, Write, End
<1>2. \/ pc' = [pc EXCEPT ![g] = "held"] /\ hb' = [hb EXCEPT ![g] = "on"]
      \/ pc' = [pc EXCEPT ![g] = "done"] /\ UNCHANGED hb
  BY DEF Claim, End, Go
<1>3. hb[g] = "off"
  BY DEF BeatInv
<1>4. TypeOK'
  <2>1. row' \in Rows /\ NoRow \in Rows
    BY <1>1 DEF Rows, NoRow
  <2>2. pc' \in [Guards -> States] /\ hb' \in [Guards -> {"off", "on", "sent", "lost"}]
    BY <1>2
  <2> QED
    BY <1>1, <2>1, <2>2
<1>5. LibInv' /\ RowInv'
  BY <1>1 DEF LibInv, RowInv
<1>6. SnapInv'
  BY <1>1, <1>2 DEF SnapInv
<1>7. ClockInv'
  BY <1>1 DEF ClockInv
<1>8. FenceInv'
  BY <1>1, <1>2 DEF FenceInv
<1>9. BeatInv'
  BY <1>1, <1>2 DEF BeatInv
<1>10. WithinTtl'
  BY <1>1 DEF WithinTtl
<1>11. LostIsFinal'
  <2> SUFFICES ASSUME NEW h \in Guards, hb'[h] = "lost" PROVE row'.by # h
    BY DEF LostIsFinal
  <2> QED
    BY <1>1, <1>2, <1>3
<1>12. FencedInTenure'
  BY <1>1 DEF FencedInTenure
<1> QED
  BY <1>4, <1>5, <1>6, <1>7, <1>8, <1>9, <1>10, <1>11, <1>12

\* A free slot is not locked: it has no holder.
LEMMA FreeIsUnlocked == IndInv /\ ~row.is => lock = None
BY LeaseAssumption DEF IndInv, RowInv, FenceInv, NoRow

\* The shared copy's free slot: the sentinel is replaced on the database's clock.
LEMMA InsertEpochInd ==
    ASSUME IndInv, UNCHANGED library, NEW g \in Guards, InsertEpoch(g)
    PROVE  IndInv'
<1>1. pc[g] = "acq" /\ ~row.is /\ Claim(g, at[g] + Ttl, 1)
  BY DEF InsertEpoch, FreeSlot
<1>2. at[g] \in Nat /\ now \in Nat /\ at[g] <= now /\ Ttl \in Nat
  BY LeaseAssumption DEF IndInv, TypeOK, ClockInv
<1>3. at[g] + Ttl \in Int /\ at[g] + Ttl <= now + Ttl + 0
  BY <1>2
<1> QED
  BY <1>1, <1>3, FreeIsUnlocked, ClaimInd

\* The other copy's free slot, off by the drift of the worker's clock.
LEMMA InsertWorkerClockInd ==
    ASSUME IndInv, UNCHANGED library, NEW g \in Guards, InsertWorkerClock(g)
    PROVE  IndInv'
<1>1. library = "am" /\ pc[g] = "acq" /\ ~row.is
  BY DEF InsertWorkerClock, FreeSlot
<1>2. PICK d \in Drifts : Claim(g, now + d + Ttl, 1)
  BY DEF InsertWorkerClock
<1>3. d \in Int /\ now \in Nat /\ Ttl \in Nat
  BY LeaseAssumption DEF IndInv, TypeOK
<1>4. now + d + Ttl \in Int /\ now + d + Ttl <= now + Ttl + d
  BY <1>3
<1> QED
  BY <1>1, <1>2, <1>4, FreeIsUnlocked, ClaimInd

\* A takeover: the UPDATE met no lock, and its NOW() lies in the past.
LEMMA ClaimExpiredInd ==
    ASSUME IndInv, UNCHANGED library, NEW g \in Guards, ClaimExpired(g)
    PROVE  IndInv'
<1>1. pc[g] = "acq" /\ lock = None /\ Claim(g, at[g] + Ttl, row.attempts + 1)
  BY DEF ClaimExpired, SeenExpired
<1>2. at[g] \in Nat /\ now \in Nat /\ at[g] <= now /\ Ttl \in Nat /\ row.attempts \in Nat
  BY LeaseAssumption DEF IndInv, TypeOK, ClockInv, Rows
<1>3. at[g] + Ttl \in Int /\ at[g] + Ttl <= now + Ttl + 0 /\ row.attempts + 1 \in Nat
  BY <1>2
<1> QED
  BY <1>1, <1>3, ClaimInd

\* A renewal touches a row that is still its guard's and had not run out when
\* the statement started.
LEMMA ApplyRenewInd ==
    ASSUME IndInv, UNCHANGED library, NEW g \in Guards, ApplyRenew(g)
    PROVE  IndInv'
<1> USE LeaseAssumption DEF IndInv, TypeOK, LibInv, Rows, ApplyRenew
<1>1. CASE Renewable(g)
  <2>1. /\ row' = [row EXCEPT !.until = hbAt[g] + Ttl]
        /\ stale' = {h \in Guards : pc[h] \in InTx}
        /\ row.by = g
    BY <1>1 DEF Write, Renewable
  <2>2. row' \in Rows /\ row'.by = g /\ row'.is = row.is /\ row'.until = hbAt[g] + Ttl
    BY <2>1
  <2>3. TypeOK' /\ LibInv'
    BY <1>1, <2>1, <2>2
  <2>4. RowInv'
    <3>1. row.is
      BY <2>1 DEF RowInv, NoRow
    <3> QED
      BY <2>1, <2>2, <3>1 DEF RowInv
  <2>5. SnapInv' /\ ClockInv' /\ FenceInv' /\ BeatInv'
    BY <2>1, <2>2 DEF SnapInv, ClockInv, FenceInv, BeatInv
  <2>6. WithinTtl'
    <3>1. hbAt[g] \in Nat /\ now \in Nat /\ Ttl \in Nat /\ hbAt[g] <= now /\ now' = now
      BY DEF ClockInv
    <3>2. row'.until <= now' + Ttl + 0
      BY <2>2, <3>1
    <3> QED
      BY <3>2 DEF WithinTtl
  <2>7. LostIsFinal'
    BY <1>1, <2>2 DEF LostIsFinal
  <2>8. FencedInTenure'
    BY DEF FencedInTenure
  <2> QED
    BY <2>3, <2>4, <2>5, <2>6, <2>7, <2>8
<1>2. CASE ~Renewable(g)
  BY <1>2 DEF Renewable, RowInv, SnapInv, ClockInv, FenceInv, BeatInv, WithinTtl, LostIsFinal,
     FencedInTenure
<1> QED
  BY <1>1, <1>2

\* The commit of fenced work leaves the row as it is and gives its lock back.
LEMMA CommitInd ==
    ASSUME IndInv, UNCHANGED library, NEW g \in Guards, Commit(g)
    PROVE  IndInv'
<1> USE LeaseAssumption DEF IndInv, TypeOK, Commit
<1>1. /\ row' = row /\ lock' = None /\ snap' = [snap EXCEPT ![g] = NoRow]
      /\ at' = [at EXCEPT ![g] = 0] /\ tries' = [tries EXCEPT ![g] = 0]
      /\ UNCHANGED <<now, hb, hbAt, owner, library>>
      /\ stale' \in SUBSET Guards
      /\ \A h \in Guards : h # g /\ h \notin stale' /\ pc[h] \in InTx => h \notin stale
  BY DEF Write, End
<1>2. \E s \in {"acked", "failed"} : pc' = [pc EXCEPT ![g] = s]
  BY DEF End, Go
<1>3. TypeOK' /\ LibInv'
  BY <1>1, <1>2 DEF LibInv, Rows, NoRow
<1>4. RowInv' /\ SnapInv' /\ ClockInv'
  BY <1>1, <1>2 DEF RowInv, SnapInv, ClockInv
<1>5. FenceInv' /\ BeatInv'
  BY <1>1, <1>2 DEF FenceInv, BeatInv
<1>6. WithinTtl' /\ LostIsFinal'
  BY <1>1 DEF WithinTtl, LostIsFinal
<1>7. FencedInTenure'
  BY <1>1 DEF FencedInTenure, FenceInv, RowInv
<1> QED
  BY <1>3, <1>4, <1>5, <1>6, <1>7

\* A release empties a row that is still its guard's and leaves any other alone.
LEMMA ReleaseInd ==
    ASSUME IndInv, UNCHANGED library, NEW g \in Guards, Release(g)
    PROVE  IndInv'
<1> USE LeaseAssumption DEF IndInv, TypeOK, LibInv, Rows, Release, Go
<1>1. CASE row.by = g
  <2>1. /\ Freed(g) # row
        /\ row' = Freed(g) /\ stale' = {h \in Guards : pc[h] \in InTx}
        /\ row'.is = row.is /\ row'.by = None /\ row'.until = Epoch /\ row' \in Rows
    <3>1. Freed(g) = [row EXCEPT !.by = None, !.until = Epoch,
                                 !.attempts = IF pc[g] = "failed" THEN row.attempts ELSE 0]
      BY <1>1 DEF Freed
    <3> DEFINE n == IF pc[g] = "failed" THEN row.attempts ELSE 0
    <3>2. n \in Nat
      OBVIOUS
    <3> HIDE DEF n
    <3>3. Freed(g) = [is |-> row.is, by |-> None, until |-> Epoch, attempts |-> n]
      BY <3>1 DEF n
    <3>4. /\ Freed(g).is = row.is /\ Freed(g).by = None /\ Freed(g).until = Epoch
          /\ Freed(g) \in Rows
      BY <3>2, <3>3 DEF Epoch
    <3>5. Freed(g) # row
      BY <1>1, <3>4
    <3> QED
      BY <3>4, <3>5 DEF Write
  <2>2. row.is
    BY <1>1 DEF RowInv, NoRow
  <2>3. TypeOK' /\ LibInv'
    BY <2>1
  <2>4. RowInv' /\ SnapInv' /\ ClockInv' /\ FenceInv' /\ BeatInv'
    BY <2>1, <2>2 DEF RowInv, SnapInv, ClockInv, FenceInv, BeatInv
  <2>5. WithinTtl' /\ LostIsFinal' /\ FencedInTenure'
    BY <2>1 DEF WithinTtl, LostIsFinal, FencedInTenure
  <2> QED
    BY <2>3, <2>4, <2>5
<1>2. CASE row.by # g
  BY <1>2 DEF Freed, RowInv, SnapInv, ClockInv, FenceInv, BeatInv, WithinTtl, LostIsFinal,
     FencedInTenure
<1> QED
  BY <1>1, <1>2

-----------------------------------------------------------------------------
(* The invariant is inductive.                                             *)

\* Every step of every guard and of the clock preserves the invariant.
LEMMA StepInd == IndInv /\ [Next /\ UNCHANGED library]_<<vars, library>> => IndInv'
<1> SUFFICES ASSUME IndInv, [Next /\ UNCHANGED library]_<<vars, library>>
             PROVE  IndInv'
  OBVIOUS
<1>1. ASSUME NEW g \in Guards, UNCHANGED library,
             \/ InsertEpoch(g) \/ InsertWorkerClock(g) \/ ClaimExpired(g)
             \/ ApplyRenew(g) \/ Commit(g) \/ Release(g)
      PROVE  IndInv'
  BY <1>1, InsertEpochInd, InsertWorkerClockInd, ClaimExpiredInd, ApplyRenewInd, CommitInd,
     ReleaseInd
<1> USE LeaseAssumption DEF IndInv, TypeOK, LibInv, RowInv, SnapInv, ClockInv, FenceInv, BeatInv,
         WithinTtl, LostIsFinal, FencedInTenure, Rows, NoRow,
         Begin, Rollback, Retry, End, Go
<1>2. ASSUME NEW g \in Guards, UNCHANGED library, BeginAcquire(g) PROVE IndInv'
  BY <1>2 DEF BeginAcquire
<1>3. ASSUME NEW g \in Guards, UNCHANGED library, SeenLive(g) PROVE IndInv'
  BY <1>3 DEF SeenLive
<1>4. ASSUME NEW g \in Guards, UNCHANGED library, InsertTaken(g) PROVE IndInv'
  BY <1>4 DEF InsertTaken
<1>5. ASSUME NEW g \in Guards, UNCHANGED library, ClaimNothing(g) PROVE IndInv'
  BY <1>5 DEF ClaimNothing, SeenExpired
<1>6. ASSUME NEW g \in Guards, UNCHANGED library, AcquireConflict(g) PROVE IndInv'
  BY <1>6 DEF AcquireConflict
<1>7. ASSUME NEW g \in Guards, UNCHANGED library, SendRenew(g) PROVE IndInv'
  BY <1>7 DEF SendRenew
<1>8. ASSUME NEW g \in Guards, UNCHANGED library, FailRenew(g) PROVE IndInv'
  BY <1>8 DEF FailRenew
<1>9. ASSUME NEW g \in Guards, UNCHANGED library, StopHeartbeat(g) PROVE IndInv'
  BY <1>9 DEF StopHeartbeat
<1>10. ASSUME NEW g \in Guards, UNCHANGED library, Checked(g) PROVE IndInv'
  BY <1>10 DEF Checked
<1>11. ASSUME NEW g \in Guards, UNCHANGED library, BeginAck(g) PROVE IndInv'
  BY <1>11 DEF BeginAck
<1>12. ASSUME NEW g \in Guards, UNCHANGED library, WorkFails(g) PROVE IndInv'
  BY <1>12 DEF WorkFails
<1>13. ASSUME NEW g \in Guards, UNCHANGED library, FenceUpdate(g) PROVE IndInv'
  BY <1>13 DEF FenceUpdate, FenceMatches, FenceNow
<1>14. ASSUME NEW g \in Guards, UNCHANGED library, FenceSelect(g) PROVE IndInv'
  BY <1>14 DEF FenceSelect
<1>15. ASSUME NEW g \in Guards, UNCHANGED library, FenceLost(g) PROVE IndInv'
  BY <1>15 DEF FenceLost
<1>16. ASSUME NEW g \in Guards, UNCHANGED library, FenceConflict(g) PROVE IndInv'
  BY <1>16 DEF FenceConflict
<1>17. ASSUME NEW g \in Guards, UNCHANGED library, CommitFails(g) PROVE IndInv'
  BY <1>17 DEF CommitFails
<1>18. ASSUME NEW g \in Guards, UNCHANGED library, Abandon(g) PROVE IndInv'
  BY <1>18 DEF Abandon
<1>19. ASSUME NEW g \in Guards, UNCHANGED library, Crash(g) PROVE IndInv'
  BY <1>19 DEF Crash
<1>20. CASE UNCHANGED library /\ Tick
  BY <1>20 DEF Tick
<1>21. CASE UNCHANGED <<vars, library>>
  BY <1>21 DEF vars
<1> HIDE DEF IndInv, TypeOK, LibInv, RowInv, SnapInv, ClockInv, FenceInv, BeatInv,
          WithinTtl, LostIsFinal, FencedInTenure, Rows, NoRow
<1> QED
  BY <1>1, <1>2, <1>3, <1>4, <1>5, <1>6, <1>7, <1>8, <1>9, <1>10, <1>11, <1>12, <1>13,
     <1>14, <1>15, <1>16, <1>17, <1>18, <1>19, <1>20, <1>21 DEF Next

\* So it holds in every reachable state.
LEMMA Inductive == Spec => []IndInv
<1> QED
  BY InitInd, StepInd, PTL DEF Spec

-----------------------------------------------------------------------------
(* What follows from it.                                                   *)

\* The row's types hold, nobody is blocked for longer than a TTL, and a lease
\* that a heartbeat reported as lost stays lost.
THEOREM LeaseCorrect == Spec => []LeaseSound
<1>1. IndInv => LeaseSound
  BY DEF IndInv, LeaseSound
<1> QED
  BY <1>1, Inductive, PTL

\* In the coord copy no fenced work of an old holder takes effect after a peer's
\* takeover.  The account-management copy promises the same and does not keep it
\* (WorkInTenure).
THEOREM FencedWork == Spec => []FencedInTenure
<1>1. IndInv => FencedInTenure
  BY DEF IndInv
<1> QED
  BY <1>1, Inductive, PTL

\* The fence is passed only while the lease is live on the database's clock.
THEOREM FenceLive == Spec => FenceSeesExpiry
<1>1. IndInv /\ [Next /\ UNCHANGED library]_<<vars, library>>
      => [library = "coord" =>
            \A g \in Guards : pc[g] = "ack" /\ pc'[g] = "fenced" => row.until > now]_vars
  <2> SUFFICES ASSUME IndInv, Next, library = "coord",
                      NEW g \in Guards, pc[g] = "ack", pc'[g] = "fenced"
               PROVE  row.until > now
    BY DEF vars
  <2>1. FenceUpdate(g)
    <3> USE DEF IndInv, TypeOK
    <3>1. ASSUME NEW h \in Guards,
                 \/ BeginAcquire(h) \/ SeenLive(h) \/ InsertTaken(h) \/ ClaimNothing(h)
                 \/ AcquireConflict(h) \/ BeginAck(h) \/ WorkFails(h) \/ FenceLost(h)
                 \/ FenceConflict(h) \/ CommitFails(h)
          PROVE  FALSE
      BY <3>1 DEF BeginAcquire, SeenLive, InsertTaken, ClaimNothing, AcquireConflict, BeginAck,
         WorkFails, FenceLost, FenceConflict, CommitFails, Begin, Rollback, Retry, End, Go
    <3>2. ASSUME NEW h \in Guards,
                 \/ InsertEpoch(h) \/ InsertWorkerClock(h) \/ ClaimExpired(h) \/ Commit(h)
                 \/ Checked(h) \/ Release(h) \/ Abandon(h) \/ Crash(h) \/ FenceSelect(h)
          PROVE  FALSE
      BY <3>2 DEF InsertEpoch, InsertWorkerClock, ClaimExpired, Claim, Commit, Checked, Release,
         Abandon, Crash, FenceSelect, End, Go
    <3>3. ASSUME NEW h \in Guards,
                 \/ SendRenew(h) \/ ApplyRenew(h) \/ FailRenew(h) \/ StopHeartbeat(h)
          PROVE  FALSE
      BY <3>3 DEF SendRenew, ApplyRenew, FailRenew, StopHeartbeat
    <3>4. ASSUME NEW h \in Guards, FenceUpdate(h) PROVE h = g
      BY <3>4 DEF FenceUpdate, Go
    <3>5. ~Tick
      BY DEF Tick
    <3> QED
      BY <3>1, <3>2, <3>3, <3>4, <3>5 DEF Next
  <2> QED
    BY <2>1 DEF IndInv, SnapInv, FenceUpdate, FenceMatches, FenceNow
<1> QED
  BY <1>1, Inductive, PTL DEF Spec, FenceSeesExpiry

\* The row passes to another guard only after it has run out, and is freed, with
\* the streak of attempts, only by its holder.
THEOREM HandoverCorrect == Spec => RowChangesHands
<1>1. IndInv /\ [Next /\ UNCHANGED library]_<<vars, library>>
      => [NoLiveTheft /\ OnlyOwnerFrees]_vars
  <2> SUFFICES ASSUME IndInv, Next PROVE NoLiveTheft /\ OnlyOwnerFrees
    BY DEF vars, IndInv, TypeOK, Rows, NoLiveTheft, OnlyOwnerFrees
  <2> USE LeaseAssumption DEF IndInv, TypeOK, Rows
  <2>1. CASE row' = row
    BY <2>1 DEF NoLiveTheft, OnlyOwnerFrees
  <2>2. ASSUME NEW h \in Guards, InsertEpoch(h) \/ InsertWorkerClock(h)
        PROVE  NoLiveTheft /\ OnlyOwnerFrees
    <3>1. row = NoRow /\ row'.by = h /\ row'.attempts = 1
      BY <2>2 DEF InsertEpoch, InsertWorkerClock, FreeSlot, Claim, Write, RowInv
    <3> QED
      BY <3>1 DEF NoRow, NoLiveTheft, OnlyOwnerFrees
  <2>3. ASSUME NEW h \in Guards, ClaimExpired(h) PROVE NoLiveTheft /\ OnlyOwnerFrees
    <3>1. row'.by = h /\ row'.attempts = row.attempts + 1
      BY <2>3 DEF ClaimExpired, Claim, Write
    <3>2. row.until < now
      BY <2>3 DEF ClaimExpired, SeenExpired, Expired, SnapInv, ClockInv
    <3> QED
      BY <3>1, <3>2 DEF NoLiveTheft, OnlyOwnerFrees
  <2>4. ASSUME NEW h \in Guards, ApplyRenew(h) PROVE NoLiveTheft /\ OnlyOwnerFrees
    BY <2>4 DEF ApplyRenew, Write, NoLiveTheft, OnlyOwnerFrees
  <2>5. ASSUME NEW h \in Guards, Release(h) PROVE NoLiveTheft /\ OnlyOwnerFrees
    <3>1. CASE row.by = h
      <4>1. /\ row' = row \/ row' = Freed(h)
            /\ Freed(h).by = None
            /\ pc[h] = "failed" => Freed(h).attempts = row.attempts
        BY <2>5, <3>1 DEF Release, Freed, Write
      <4>2. pc[h] \in {"clean", "acked", "failed"} /\ pc'[h] = "done"
        BY <2>5 DEF Release, Go
      <4> QED
        BY <2>1, <3>1, <4>1, <4>2 DEF NoLiveTheft, OnlyOwnerFrees
    <3>2. CASE row.by # h
      BY <2>1, <2>5, <3>2 DEF Release, Freed
    <3> QED
      BY <3>1, <3>2
  <2>6. ASSUME NEW h \in Guards,
               \/ BeginAcquire(h) \/ SeenLive(h) \/ InsertTaken(h) \/ ClaimNothing(h)
               \/ AcquireConflict(h) \/ SendRenew(h) \/ FailRenew(h) \/ StopHeartbeat(h)
               \/ Checked(h) \/ BeginAck(h) \/ WorkFails(h) \/ FenceUpdate(h) \/ FenceSelect(h)
               \/ FenceLost(h) \/ FenceConflict(h) \/ Commit(h) \/ CommitFails(h)
               \/ Abandon(h) \/ Crash(h)
        PROVE  row' = row
    BY <2>6 DEF BeginAcquire, SeenLive, InsertTaken, ClaimNothing, AcquireConflict, SendRenew,
       FailRenew, StopHeartbeat, Checked, BeginAck, WorkFails, FenceUpdate, FenceSelect,
       FenceLost, FenceConflict, Commit, CommitFails, Abandon, Crash, Rollback, Retry, Write
  <2>7. Tick => row' = row
    BY DEF Tick
  <2> HIDE DEF IndInv, TypeOK, Rows
  <2> QED
    BY <2>1, <2>2, <2>3, <2>4, <2>5, <2>6, <2>7 DEF Next
<1> QED
  BY <1>1, Inductive, PTL DEF Spec, RowChangesHands

-----------------------------------------------------------------------------
(***************************************************************************)
(* The consumer group.  The entries are at all times what the split of the *)
(* members gives (SplitInv), and the split is exact by arithmetic: the     *)
(* ids in their order fill the positions, and each partition lies in the   *)
(* range of one position.  An id joins once, so whatever is waiting to be  *)
(* cleared is nobody's (Disposable).  A lease has one holder, so the state *)
(* of a member is changed by the call whose stream it is and by no other   *)
(* (RecordInv); a session reads what its last generation says and watches  *)
(* tell the truth (WatchInv).                                              *)
(***************************************************************************)

\* Where a call is: it has an id that is not a member yet; it has looked up a
\* member; it holds that member's stream lease.
Joining == {"join", "marked", "routed"}
Found == {"leave", "stream", "positioned", "seek", "free", "resolved"}
Holding == Open \cup {"leased", "subscribed", "dropping"}

\* Ids given out to a JOIN that has not become a member yet.
Joiners == {call[c].sub : c \in {d \in Calls : call[d].at \in Joining}}

\* The markers that may be cleared at any time: the group's, which every JOIN
\* writes again, and those of ids that have come and gone, which do not return.
Disposable == {GroupMark} \cup (minted \ (members \cup Joiners))

\* The members hold what the split gives them, and no other id holds anything.
SplitInv ==
    /\ members \subseteq minted
    /\ \A s \in members :
          entry[s].assigned = compute_assignments(members, [m \in members |-> entry[m].topics])[s]
    /\ \A s \in Subs \ members : entry[s].assigned = {}

\* Every watch holds its id's partitions.
WatchInv == \A s \in Subs : watch[s].assigned = entry[s].assigned

\* The members can be routed to, and what is to be cleared is nobody's.
RouteInv ==
    /\ members \subseteq marks
    /\ \A i \in 1 .. Len(clearing) : clearing[i] \in Disposable

\* A session reads what it takes for its member's share, but for what had been
\* lost (stale) or gained (unread) when it was opened.
Tracks(r) ==
    /\ r.read \ r.stale = r.current.assigned \ r.unread
    /\ r.stale \cap r.current.assigned = {}

\* What the record r of a call may say.
RecordInv(r) ==
    /\ r.at \in Joining => r.sub \in minted \ members
    /\ r.at \in {"marked", "routed"} => r.sub \in marks
    /\ r.at \in Found \cup Holding => r.sub \in minted \ Joiners
    /\ \A i \in 1 .. Len(r.clear) : r.clear[i] \in Disposable
    /\ r.at \in Open \cup {"subscribed"} /\ r.sub \in members => entry[r.sub].state = "Streaming"
    /\ r.at \in {"positioned", "leased", "subscribed"} => r.seen \subseteq cursors
    /\ r.at \in Open => r.read \subseteq cursors
    /\ r.at \in {"Opening", "Streaming"} => Tracks(r)

\* Two JOINs never have the same id.
JoinInv ==
    \A c, d \in Calls : call[c].at \in Joining /\ call[d].at \in Joining /\ c # d
                            => call[c].sub # call[d].sub

GroupInv ==
    /\ GroupTypeOK
    /\ SplitInv /\ WatchInv /\ RouteInv /\ JoinInv /\ LeasesAreHeld
    /\ \A c \in Calls : RecordInv(call[c])

-----------------------------------------------------------------------------
(* The split.                                                              *)

\* Division rounds down.
LEMMA DivBound ==
    ASSUME NEW a \in Int, NEW k \in Nat \ {0}, NEW p \in Int
    PROVE  a \div k <= p <=> a < (p + 1) * k
<1> DEFINE q == a \div k
<1>1. q \in Int /\ q * k <= a /\ a < (q + 1) * k
  OBVIOUS
<1>2. \A x, y \in Int : x <= y => x * k <= y * k
  OBVIOUS
<1> HIDE DEF q
<1>3. ASSUME q <= p PROVE a < (p + 1) * k
  <2>1. (q + 1) * k <= (p + 1) * k
    BY <1>1, <1>2, <1>3
  <2> QED
    BY <1>1, <2>1
<1>4. ASSUME ~(q <= p) PROVE ~(a < (p + 1) * k)
  <2>1. (p + 1) * k <= q * k
    BY <1>1, <1>2, <1>4
  <2> QED
    BY <1>1, <2>1
<1> QED
  BY <1>3, <1>4 DEF q

\* Which partitions member i of k receives, without division.
LEMMA InSplit ==
    ASSUME NEW n \in Nat, NEW k \in Nat \ {0}, NEW i \in Nat, NEW p \in Int
    PROVE  p \in range_split(n, k, i) <=> i * n < (p + 1) * k /\ (p + 1) * k <= (i + 1) * n
<1> DEFINE a == i * n
           b == (i + 1) * n
           m == (p + 1) * k
<1>1. a \in Int /\ b \in Int /\ m \in Int
  OBVIOUS
<1>2. (a \div k <= p <=> a < m) /\ (b \div k <= p <=> b < m)
  BY <1>1, DivBound
<1>3. p \in range_split(n, k, i) <=> a \div k <= p /\ p <= b \div k - 1
  BY DEF range_split
<1>4. a \div k \in Int /\ b \div k \in Int
  BY <1>1
<1> HIDE DEF a, b, m
<1>5. p <= b \div k - 1 <=> ~(b \div k <= p)
  BY <1>4
<1>6. ~(b < m) <=> m <= b
  BY <1>1
<1> QED
  BY <1>2, <1>3, <1>5, <1>6 DEF a, b, m

\* No partition is given that the topic does not have.
LEMMA SplitWithin ==
    ASSUME NEW n \in Nat, NEW k \in Nat \ {0}, NEW i \in 0 .. k - 1
    PROVE  range_split(n, k, i) \subseteq 0 .. n - 1
<1> SUFFICES ASSUME NEW p \in range_split(n, k, i) PROVE p \in 0 .. n - 1
  OBVIOUS
<1>1. (i * n) \div k \in Int /\ ((i + 1) * n) \div k \in Int
  OBVIOUS
<1>2. p \in Int
  BY <1>1 DEF range_split
<1>3. i * n < (p + 1) * k /\ (p + 1) * k <= (i + 1) * n
  BY <1>2, InSplit
<1>4. 0 <= i * n /\ (i + 1) * n <= k * n
  <2>1. \A x, y \in Int : x <= y => x * n <= y * n
    OBVIOUS
  <2>2. 0 * n <= i * n /\ (i + 1) * n <= k * n
    BY <2>1
  <2> QED
    BY <2>2
<1>5. p + 1 > 0
  <2>1. ASSUME p + 1 <= 0 PROVE FALSE
    <3>1. (p + 1) * k <= 0 * k
      BY <1>2, <2>1
    <3> QED
      BY <1>2, <1>3, <1>4, <3>1
  <2> QED
    BY <1>2, <2>1
<1>6. p + 1 <= n
  <2>1. ASSUME n + 1 <= p + 1 PROVE FALSE
    <3>1. (n + 1) * k <= (p + 1) * k
      BY <1>2, <2>1
    <3>2. (n + 1) * k = k * n + k
      OBVIOUS
    <3> QED
      BY <1>2, <1>3, <1>4, <3>1, <3>2
  <2> QED
    BY <1>2, <2>1
<1> QED
  BY <1>2, <1>5, <1>6

\* Every partition is given to exactly one position.
LEMMA SplitOnce ==
    ASSUME NEW n \in Nat, NEW k \in Nat \ {0}, NEW p \in 0 .. n - 1
    PROVE  \E i \in 0 .. k - 1 :
               \A j \in 0 .. k - 1 : p \in range_split(n, k, j) <=> j = i
<1> DEFINE m == (p + 1) * k
           i == (m - 1) \div n
<1>1. m \in Int /\ 1 <= m /\ m <= n * k
  OBVIOUS
<1>2. n \in Nat \ {0}
  OBVIOUS
<1> HIDE DEF m
<1>3. i \in Int /\ i * n <= m - 1 /\ m - 1 < (i + 1) * n
  BY <1>1, <1>2
<1> HIDE DEF i
<1>4. \A x, y \in Int : x <= y => x * n <= y * n
  OBVIOUS
<1>5. i \in 0 .. k - 1
  <2>1. ASSUME i + 1 <= 0 PROVE FALSE
    <3>1. (i + 1) * n <= 0 * n
      BY <1>3, <1>4, <2>1
    <3> QED
      BY <1>1, <1>3, <3>1
  <2>2. ASSUME k <= i PROVE FALSE
    <3>1. k * n <= i * n
      BY <1>3, <1>4, <2>2
    <3> QED
      BY <1>1, <1>3, <3>1
  <2> QED
    BY <1>3, <2>1, <2>2
<1>6. ASSUME NEW j \in 0 .. k - 1 PROVE p \in range_split(n, k, j) <=> j = i
  <2>1. p \in range_split(n, k, j) <=> j * n < m /\ m <= (j + 1) * n
    BY InSplit DEF m
  <2>2. ASSUME j < i PROVE ~(m <= (j + 1) * n)
    <3>1. (j + 1) * n <= i * n
      BY <1>3, <1>4, <2>2
    <3> QED
      BY <1>1, <1>3, <3>1
  <2>3. ASSUME i < j PROVE ~(j * n < m)
    <3>1. (i + 1) * n <= j * n
      BY <1>3, <1>4, <2>3
    <3> QED
      BY <1>1, <1>3, <3>1
  <2>4. i * n < m /\ m <= (i + 1) * n
    BY <1>1, <1>3
  <2> QED
    BY <1>5, <2>1, <2>2, <2>3, <2>4
<1> QED
  BY <1>5, <1>6

\* The ids of a finite set, in their order, fill the positions 0 .. k - 1.
LEMMA Ranks ==
    ASSUME NEW I \in SUBSET Nat, IsFiniteSet(I), I # {}
    PROVE  /\ Cardinality(I) \in Nat \ {0}
           /\ \A s \in I : Cardinality({m \in I : m < s}) \in 0 .. Cardinality(I) - 1
           /\ \A i \in 0 .. Cardinality(I) - 1 :
                 \E s \in I : \A r \in I : Cardinality({m \in I : m < r}) = i <=> r = s
<1> DEFINE k == Cardinality(I)
           below(s) == {m \in I : m < s}
           rank == [s \in I |-> Cardinality(below(s))]
<1>1. k \in Nat \ {0}
  BY FS_CardinalityType, FS_EmptySet
<1>2. ASSUME NEW s \in I PROVE rank[s] \in 0 .. k - 1
  <2>1. below(s) \subseteq I /\ s \notin below(s)
    OBVIOUS
  <2>2. IsFiniteSet(below(s)) /\ Cardinality(below(s)) <= k /\ Cardinality(below(s)) # k
    BY <2>1, FS_Subset
  <2>3. Cardinality(below(s)) \in Nat
    BY <2>2, FS_CardinalityType
  <2> QED
    BY <1>1, <2>2, <2>3
<1>3. ASSUME NEW r \in I, NEW s \in I, r < s PROVE rank[r] < rank[s]
  <2>1. \A m \in I : m < r => m < s
    BY <1>3
  <2>2. below(r) \subseteq below(s) /\ r \in below(s) /\ r \notin below(r)
    <3>1. \A m : m \in below(r) <=> m \in I /\ m < r
      OBVIOUS
    <3>2. \A m : m \in below(s) <=> m \in I /\ m < s
      OBVIOUS
    <3> HIDE DEF below
    <3>3. ~(r < r)
      OBVIOUS
    <3> QED
      BY <1>3, <2>1, <3>1, <3>2, <3>3
  <2>3. IsFiniteSet(below(s)) /\ below(r) \in SUBSET below(s) /\ below(r) # below(s)
    BY <2>2, FS_Subset
  <2>4. Cardinality(below(r)) <= Cardinality(below(s)) /\ Cardinality(below(r)) # Cardinality(below(s))
    BY <2>3, FS_Subset
  <2> QED
    BY <1>2, <2>4
<1> HIDE DEF below
<1>4. rank \in [I -> 0 .. k - 1]
  BY <1>2
<1>5. \A r, s \in I : rank[r] = rank[s] => r = s
  <2> SUFFICES ASSUME NEW r \in I, NEW s \in I, r # s PROVE rank[r] # rank[s]
    OBVIOUS
  <2>1. r < s \/ s < r
    OBVIOUS
  <2> HIDE DEF rank
  <2>2. rank[r] \in Int /\ rank[s] \in Int
    BY <1>2
  <2> QED
    BY <1>3, <2>1, <2>2
<1> HIDE DEF rank
<1>6. rank \in Injection(I, 0 .. k - 1)
  BY <1>4, <1>5 DEF Injection, IsInjective
<1>7. IsFiniteSet(0 .. k - 1) /\ Cardinality(0 .. k - 1) = k
  BY <1>1, FS_Interval
<1>8. rank \in Surjection(I, 0 .. k - 1)
  BY <1>6, <1>7, FS_Injection
<1>9. \A i \in 0 .. k - 1 : \E s \in I : rank[s] = i
  BY <1>8 DEF Surjection
<1>10. \A s \in I : rank[s] = Cardinality({m \in I : m < s})
  BY DEF rank, below
<1>11. \A s \in I : Cardinality({m \in I : m < s}) \in 0 .. k - 1
  BY <1>2, <1>10
<1>12. ASSUME NEW i \in 0 .. k - 1
       PROVE  \E s \in I : \A r \in I : Cardinality({m \in I : m < r}) = i <=> r = s
  <2>1. PICK s \in I : rank[s] = i
    BY <1>9
  <2>2. \A r \in I : rank[r] = i <=> r = s
    BY <1>5, <2>1
  <2>3. \A r \in I : Cardinality({m \in I : m < r}) = i <=> r = s
    BY <1>10, <2>2
  <2> QED
    BY <2>3
<1> QED
  BY <1>1, <1>11, <1>12

\* compute_assignments gives a member partitions of its own topics only, and each
\* partition of a topic that somebody wants to one member (compute_assignments).
LEMMA AssignExactly ==
    ASSUME NEW ms \in SUBSET Subs, NEW topics \in [ms -> SUBSET Topics], deploy \in Deployments
    PROVE  LET split == compute_assignments(ms, topics)
           IN  /\ split \in [ms -> SUBSET Keys]
               /\ \A s \in ms : \A t \in topics[s] : \A p \in 0 .. Partitions[t] - 1 :
                     \E o \in ms : {m \in ms : <<t, p>> \in split[m] /\ t \in topics[m]} = {o}
<1> DEFINE split == compute_assignments(ms, topics)
           wants(t) == {m \in ms : t \in topics[m]}
           k(t) == Cardinality(wants(t))
           rank(t, s) == Cardinality({m \in wants(t) : m < s})
           part(t, s) == range_split(Partitions[t], k(t), rank(t, s))
<1>1. \A t \in Topics : Partitions[t] \in Nat
  BY GroupAssumption DEF Topics, Partitions
<1>2. ASSUME NEW t \in Topics, wants(t) # {}
      PROVE  /\ k(t) \in Nat \ {0}
             /\ \A s \in wants(t) : rank(t, s) \in 0 .. k(t) - 1
             /\ \A i \in 0 .. k(t) - 1 :
                   \E s \in wants(t) : \A r \in wants(t) : rank(t, r) = i <=> r = s
  <2>1. wants(t) \in SUBSET Nat /\ IsFiniteSet(wants(t))
    BY GroupAssumption, FS_Subset
  <2> QED
    BY <1>2, <2>1, Ranks
<1>3. split = [s \in ms |-> UNION {{<<t, p>> : p \in part(t, s)} : t \in topics[s]}]
  BY DEF compute_assignments
<1> HIDE DEF split, k, rank
<1>4. ASSUME NEW s \in ms, NEW t \in Topics, NEW p, t \in topics[s]
      PROVE  <<t, p>> \in split[s] <=> p \in part(t, s)
  BY <1>3, <1>4
<1>5. split \in [ms -> SUBSET Keys]
  <2> SUFFICES ASSUME NEW s \in ms, NEW x \in split[s] PROVE x \in Keys
    BY <1>3
  <2>1. PICK t \in topics[s] : x \in {<<t, p>> : p \in part(t, s)}
    BY <1>3
  <2>2. PICK p \in part(t, s) : x = <<t, p>>
    BY <2>1
  <2>3. t \in Topics /\ s \in wants(t)
    OBVIOUS
  <2>4. p \in 0 .. Partitions[t] - 1
    BY <1>1, <1>2, <2>3, SplitWithin
  <2> QED
    BY <2>2, <2>3, <2>4 DEF Keys
<1>6. ASSUME NEW s \in ms, NEW t \in topics[s], NEW p \in 0 .. Partitions[t] - 1
      PROVE  \E o \in ms : {m \in ms : <<t, p>> \in split[m] /\ t \in topics[m]} = {o}
  <2>1. t \in Topics /\ wants(t) # {}
    OBVIOUS
  <2> DEFINE n == Partitions[t]
  <2>7. n \in Nat /\ k(t) \in Nat \ {0} /\ p \in 0 .. n - 1
    BY <1>1, <1>2, <2>1
  <2> HIDE DEF n
  <2>8. \E i \in 0 .. k(t) - 1 : \A j \in 0 .. k(t) - 1 : p \in range_split(n, k(t), j) <=> j = i
    BY <2>7, SplitOnce
  <2>2. PICK i \in 0 .. k(t) - 1 :
            \A j \in 0 .. k(t) - 1 : p \in range_split(Partitions[t], k(t), j) <=> j = i
    BY <2>8 DEF n
  <2>3. PICK o \in wants(t) : \A r \in wants(t) : rank(t, r) = i <=> r = o
    BY <1>2, <2>1, <2>2
  <2>4. \A m \in wants(t) : p \in part(t, m) <=> m = o
    BY <1>2, <2>1, <2>2, <2>3
  <2>5. \A m \in wants(t) : <<t, p>> \in split[m] <=> m = o
    BY <1>4, <2>1, <2>4
  <2> QED
    BY <2>5
<1> QED
  BY <1>5, <1>6 DEF split

-----------------------------------------------------------------------------
(* Regrouping.                                                             *)

\* The group at hand stays what it is.
LEMMA SameGroup ==
    ASSUME UNCHANGED deploy
    PROVE  /\ Partitions' = Partitions /\ Topics' = Topics /\ Keys' = Keys
           /\ Generations' = Generations /\ Entries' = Entries /\ CallRecords' = CallRecords
<1>1. Partitions' = Partitions
  BY DEF Partitions
<1>2. Topics' = Topics
  BY <1>1 DEF Topics
<1>3. Keys' = Keys
  BY <1>1, <1>2 DEF Keys
<1>4. Generations' = Generations
  BY <1>3 DEF Generations
<1>5. Entries' = Entries
  BY <1>2, <1>3 DEF Entries
<1>6. CallRecords' = CallRecords
  BY <1>2, <1>3, <1>4 DEF CallRecords
<1> QED
  BY <1>1, <1>2, <1>3, <1>4, <1>5, <1>6

\* A critical section that regroups leaves every partition split over those who
\* stay, tells them so and tells those taken out that they have none (join,
\* leave, sweep).
LEMMA RegroupInd ==
    ASSUME GroupTypeOK, SplitInv, WatchInv, UNCHANGED deploy, minted' = minted,
           NEW ms \in SUBSET minted, NEW fresh, Regroup(ms, fresh),
           ms \ members \subseteq DOMAIN fresh, DOMAIN fresh \subseteq ms \ members,
           \A s \in DOMAIN fresh : fresh[s] \in Entries
    PROVE  /\ members' = ms /\ version' \in Nat
           /\ entry' \in [Subs -> Entries] /\ watch' \in [Subs -> Generations]
           /\ SplitInv' /\ WatchInv'
           /\ \A s \in ms \cap members : entry'[s].state = entry[s].state
<1> USE DEF GroupTypeOK
<1> DEFINE base == [s \in Subs |-> IF s \in DOMAIN fresh THEN fresh[s] ELSE entry[s]]
           topics == [s \in ms |-> base[s].topics]
           split == compute_assignments(ms, topics)
           v == version + 1
<1>1. /\ members' = ms
      /\ version' = IF ms = {} THEN 0 ELSE v
      /\ publish_generations(ms, split, v)
      /\ entry' = [s \in Subs |->
            IF s \in ms THEN [base[s] EXCEPT !.assigned = split[s], !.version = v] ELSE NoEntry]
  BY DEF Regroup
<1>2. ms \in SUBSET Subs /\ v \in Nat
  OBVIOUS
<1>3. base \in [Subs -> Entries]
  OBVIOUS
<1> HIDE DEF base
<1>4. topics \in [ms -> SUBSET Topics]
  BY <1>2, <1>3 DEF Entries
<1> HIDE DEF topics
<1>5. split \in [ms -> SUBSET Keys]
  BY <1>2, <1>4, AssignExactly
<1> HIDE DEF split, v
<1>6. NoEntry \in Entries /\ NoEntry.assigned = {}
  BY DEF NoEntry, Entries
<1>7. entry' \in [Subs -> Entries]
  <2>1. \A s \in ms : [base[s] EXCEPT !.assigned = split[s], !.version = v] \in Entries
    BY <1>2, <1>3, <1>5 DEF Entries
  <2> QED
    BY <1>1, <1>6, <2>1
<1>8. /\ \A s \in ms : /\ entry'[s].assigned = split[s] /\ entry'[s].topics = topics[s]
                        /\ entry'[s].state = base[s].state
      /\ \A s \in Subs \ ms : entry'[s].assigned = {}
  BY <1>1, <1>2, <1>3, <1>6 DEF Entries, topics
<1>9. version \in Nat /\ version' \in Nat
  BY <1>1, <1>2
<1>10. \A u \in Nat, ks \in SUBSET Keys :
          Generation(u, ks) \in Generations /\ Generation(u, ks).assigned = ks
  BY DEF Generation, Generations
<1>11. watch' = [s \in Subs |->
          CASE s \in ms /\ split[s] # entry[s].assigned -> Generation(v, split[s])
            [] s \in ms \ members /\ split[s] = entry[s].assigned -> Generation(version, {})
            [] s \in members \ ms -> Generation(version, {})
            [] OTHER -> watch[s]]
  BY <1>1 DEF publish_generations
<1>12. watch' \in [Subs -> Generations]
  <2>1. ASSUME NEW s \in Subs PROVE watch'[s] \in Generations
    <3>1. watch[s] \in Generations /\ {} \in SUBSET Keys
      OBVIOUS
    <3> QED
      BY <1>2, <1>5, <1>9, <1>10, <1>11, <3>1
  <2> QED
    BY <1>11, <2>1
<1>13. WatchInv'
  <2> SUFFICES ASSUME NEW s \in Subs PROVE watch'[s].assigned = entry'[s].assigned
    BY DEF WatchInv
  <2>1. s \notin members => entry[s].assigned = {}
    BY DEF SplitInv
  <2>2. watch[s].assigned = entry[s].assigned
    BY DEF WatchInv
  <2>3. {} \in SUBSET Keys
    OBVIOUS
  <2>4. CASE s \in ms /\ split[s] # entry[s].assigned
    <3>1. watch'[s] = Generation(v, split[s])
      BY <1>11, <2>4
    <3> QED
      BY <1>2, <1>5, <1>8, <1>10, <2>4, <3>1
  <2>5. CASE s \in ms /\ split[s] = entry[s].assigned /\ s \notin members
    BY <1>8, <1>9, <1>10, <1>11, <2>1, <2>3, <2>5
  <2>6. CASE s \in ms /\ split[s] = entry[s].assigned /\ s \in members
    BY <1>8, <1>11, <2>2, <2>6
  <2>7. CASE s \notin ms /\ s \in members
    BY <1>8, <1>9, <1>10, <1>11, <2>3, <2>7
  <2>8. CASE s \notin ms /\ s \notin members
    BY <1>8, <1>11, <2>1, <2>2, <2>8
  <2> QED
    BY <2>4, <2>5, <2>6, <2>7, <2>8
<1>14. SplitInv'
  <2>1. [m \in members' |-> entry'[m].topics] = topics
    BY <1>1, <1>4, <1>8
  <2>2. \A s \in members' : entry'[s].assigned
            = compute_assignments(members', [m \in members' |-> entry'[m].topics])[s]
    BY <1>1, <1>8, <2>1 DEF split
  <2>3. compute_assignments(members, [m \in members |-> entry[m].topics])'
            = compute_assignments(members', [m \in members' |-> entry'[m].topics])
    BY DEF compute_assignments, Partitions
  <2> QED
    BY <1>1, <1>8, <2>2, <2>3 DEF SplitInv
<1>15. \A s \in ms \cap members : entry'[s].state = entry[s].state
  BY <1>2, <1>8 DEF base
<1> QED
  BY <1>1, <1>7, <1>9, <1>12, <1>13, <1>14, <1>15

-----------------------------------------------------------------------------
(* Steps that touch one call.                                              *)

USE DEF Joining, Found, Holding, Open

\* The call that takes a step; the others keep their records.
StepOf(c) == call' = [call EXCEPT ![c] = call'[c]] /\ call'[c] \in CallRecords

\* The record of a call that is not there has its type.
LEMMA IdleRecord == Idle \in CallRecords
<1>1. << >> \in Seq(Markers)
  OBVIOUS
<1> QED
  BY <1>1 DEF Idle, CallRecords, Steps, Generation, Generations

\* A record stays right when the others' steps neither bring back its id, nor
\* take its marker or its cursors, nor end its member's stream.
LEMMA RecordKept ==
    ASSUME GroupTypeOK, NEW d \in Calls, RecordInv(call[d]), call'[d] = call[d],
           minted \subseteq minted', Joiners' \cap minted \subseteq Joiners,
           members' \subseteq members \cup Joiners, cursors \subseteq cursors',
           call[d].at \in Joining => call[d].sub \notin members',
           call[d].at \in {"marked", "routed"} => call[d].sub \in marks',
           call[d].at \in Open \cup {"subscribed"} /\ call[d].sub \in members \cap members'
               /\ entry[call[d].sub].state = "Streaming" => entry'[call[d].sub].state = "Streaming"
    PROVE  RecordInv(call[d])'
<1> DEFINE r == call[d]
<1>1. r \in CallRecords
  BY DEF GroupTypeOK
<1>2. \A i \in 1 .. Len(r.clear) : r.clear[i] \in Disposable'
  <2> SUFFICES ASSUME NEW i \in 1 .. Len(r.clear) PROVE r.clear[i] \in Disposable'
    OBVIOUS
  <2>1. r.clear[i] \in Disposable
    BY DEF RecordInv
  <2> QED
    BY <2>1 DEF Disposable
<1>3. r.at \in Found \cup Holding => r.sub \in minted' \ Joiners' /\ r.sub \notin Joiners
  BY DEF RecordInv
<1>4. r.at \in Joining => r.sub \in minted' \ members'
  BY DEF RecordInv
<1>5. r.at \in Open \cup {"subscribed"} /\ r.sub \in members' => entry'[r.sub].state = "Streaming"
  BY <1>3 DEF RecordInv
<1>6. r.at \in {"positioned", "leased", "subscribed"} => r.seen \subseteq cursors'
  BY DEF RecordInv
<1>7. r.at \in Open => r.read \subseteq cursors'
  BY DEF RecordInv
<1>8. r.at \in {"Opening", "Streaming"} => Tracks(r)
  BY DEF RecordInv
<1>9. r.at \in {"marked", "routed"} => r.sub \in marks'
  OBVIOUS
<1> QED
  BY <1>2, <1>3, <1>4, <1>5, <1>6, <1>7, <1>8, <1>9 DEF RecordInv

\* The ids of JOINs under way, when one call takes a step.
LEMMA JoinersStep ==
    ASSUME GroupTypeOK, NEW c \in Calls, StepOf(c), JoinInv
    PROVE  /\ Joiners' \subseteq Joiners \cup {call'[c].sub}
           /\ call'[c].at \notin Joining \/ call'[c].sub \in Joiners => Joiners' \subseteq Joiners
           /\ call[c].at \in Joining /\ call'[c].at \notin Joining => Joiners' = Joiners \ {call[c].sub}
<1>1. DOMAIN call = Calls /\ \A d \in Calls : d # c => call'[d] = call[d]
  BY DEF GroupTypeOK, StepOf
<1> QED
  BY <1>1 DEF Joiners, JoinInv

\* The leases, when one call takes a step and none is taken or given back.
LEMMA LeasesKept ==
    ASSUME GroupTypeOK, NEW c \in Calls, StepOf(c), LeasesAreHeld, leases' = leases,
           call'[c].at \in Holding <=> call[c].at \in Holding,
           call'[c].at \in Holding => call'[c].sub = call[c].sub
    PROVE  LeasesAreHeld'
<1>1. DOMAIN call = Calls /\ \A d \in Calls : d # c => call'[d] = call[d]
  BY DEF GroupTypeOK, StepOf
<1>2. \A d \in Calls : /\ call'[d].at \in Holding <=> call[d].at \in Holding
                       /\ call'[d].at \in Holding => call'[d].sub = call[d].sub
  BY <1>1
<1> QED
  BY <1>2 DEF LeasesAreHeld

\* What waits to be cleared stays nobody's.
LEMMA ClearingKept ==
    ASSUME RouteInv, clearing' = clearing, minted \subseteq minted',
           Joiners' \cap minted \subseteq Joiners, members' \subseteq members \cup Joiners
    PROVE  \A i \in 1 .. Len(clearing') : clearing'[i] \in Disposable'
BY DEF RouteInv, Disposable

\* A step that leaves the coordinator, the leases and the sweeper alone.
Quiet(c) ==
    /\ StepOf(c)
    /\ UNCHANGED <<deploy, coordinator, minted, leases, clearing>>
    /\ registered' \in BOOLEAN
    /\ cursors \subseteq cursors' /\ cursors' \subseteq Keys
    /\ marks \subseteq marks' /\ marks' \subseteq Markers

\* A quiet step keeps the invariant if the record it leaves is right.
LEMMA QuietInd ==
    ASSUME GroupInv, NEW c \in Calls, Quiet(c),
           call'[c].at \in Joining => call[c].at \in Joining /\ call'[c].sub = call[c].sub,
           call'[c].at \in {"marked", "routed"} => call'[c].sub \in marks',
           call'[c].at \in Holding <=> call[c].at \in Holding,
           call'[c].at \in Holding => call'[c].sub = call[c].sub,
           call'[c].at \in Found => \/ call[c].at \in Found /\ call'[c].sub = call[c].sub
                                   \/ call'[c].sub \in members,
           call'[c].clear \in {call[c].clear, << >>},
           call'[c].at \in Open \cup {"subscribed"} => call[c].at \in Open \cup {"subscribed"},
           call'[c].at \in {"positioned", "leased", "subscribed"} => call'[c].seen \subseteq cursors',
           call'[c].at \in Open => call'[c].read \subseteq cursors',
           call'[c].at \in {"Opening", "Streaming"} => Tracks(call'[c])
    PROVE  GroupInv'
<1> USE DEF GroupInv
<1>1. DOMAIN call = Calls /\ \A d \in Calls : d # c => call'[d] = call[d]
  BY DEF GroupTypeOK, Quiet, StepOf
<1>2. UNCHANGED <<deploy, members, version, entry, watch, minted, leases, clearing>>
  BY DEF Quiet, coordinator
<1>3. StepOf(c)
  BY DEF Quiet
<1>4. Joiners' \subseteq Joiners
  <2>1. call'[c].at \in Joining => call'[c].sub \in Joiners
    BY DEF Joiners
  <2> QED
    BY <1>3, <2>1, JoinersStep
<1>5. GroupTypeOK'
  BY <1>2, <1>3, SameGroup DEF GroupTypeOK, Quiet, StepOf, Markers
<1>6. SplitInv'
  <2>1. compute_assignments(members, [m \in members |-> entry[m].topics])'
            = compute_assignments(members, [m \in members |-> entry[m].topics])
    BY <1>2 DEF compute_assignments, Partitions
  <2> QED
    BY <1>2, <2>1 DEF SplitInv
<1>7. WatchInv'
  BY <1>2 DEF WatchInv
<1>8. RouteInv'
  <2>1. members' \subseteq marks'
    BY <1>2 DEF RouteInv, Quiet
  <2>2. \A i \in 1 .. Len(clearing') : clearing'[i] \in Disposable'
    BY <1>2, <1>4, ClearingKept
  <2> QED
    BY <2>1, <2>2 DEF RouteInv
<1>9. JoinInv'
  BY <1>1 DEF JoinInv
<1>10. LeasesAreHeld'
  BY <1>2, <1>3, LeasesKept
<1>11. ASSUME NEW d \in Calls, d # c PROVE RecordInv(call[d])'
  <2>1. call'[d] = call[d] /\ RecordInv(call[d])
    BY <1>1, <1>11
  <2>2. call[d].at \in Joining => call[d].sub \notin members
    BY <2>1 DEF RecordInv
  <2>3. call[d].at \in {"marked", "routed"} => call[d].sub \in marks'
    BY <2>1 DEF RecordInv, Quiet
  <2> QED
    BY <1>2, <1>4, <2>1, <2>2, <2>3, RecordKept DEF Quiet
<1>12. RecordInv(call[c])'
  <2>1. RecordInv(call[c])
    OBVIOUS
  <2>2. members \subseteq minted /\ members \cap Joiners = {}
    BY DEF SplitInv, Joiners, RecordInv
  <2>3. call'[c].at \in Joining => call'[c].sub \in minted \ members
    BY <2>1 DEF RecordInv
  <2>4. call'[c].at \in Found \cup Holding => call'[c].sub \in minted \ Joiners'
    BY <1>4, <2>1, <2>2 DEF RecordInv
  <2>5. \A i \in 1 .. Len(call'[c].clear) : call'[c].clear[i] \in Disposable'
    <3>1. CASE call'[c].clear = << >>
      BY <3>1
    <3>2. CASE call'[c].clear = call[c].clear
      BY <1>2, <1>4, <2>1, <3>2 DEF RecordInv, Disposable
    <3> QED
      BY <3>1, <3>2
  <2>6. call'[c].at \in Open \cup {"subscribed"} /\ call'[c].sub \in members
            => entry[call'[c].sub].state = "Streaming"
    BY <2>1 DEF RecordInv
  <2> QED
    BY <1>2, <2>3, <2>4, <2>5, <2>6 DEF RecordInv
<1> QED
  BY <1>5, <1>6, <1>7, <1>8, <1>9, <1>10, <1>11, <1>12

\* A request that holds no lease is answered.
LEMMA ReturnInd ==
    ASSUME GroupInv, NEW c \in Calls, Return(c), call[c].at \notin Holding,
           registered' \in BOOLEAN,
           UNCHANGED <<deploy, coordinator, minted, leases, cursors, marks, clearing>>
    PROVE  GroupInv'
<1>1. GroupTypeOK /\ DOMAIN call = Calls
  BY DEF GroupInv, GroupTypeOK
<1>2. call'[c] = Idle /\ call' = [call EXCEPT ![c] = Idle]
  BY <1>1 DEF Return
<1>3. Quiet(c)
  BY <1>1, <1>2, IdleRecord DEF Quiet, StepOf, GroupTypeOK
<1>4. Idle.at = "idle" /\ Idle.clear = << >>
  BY DEF Idle
<1> QED
  BY <1>2, <1>3, <1>4, QuietInd

\* A call moves on with what it has.
LEMMA MoveInd ==
    ASSUME GroupInv, NEW c \in Calls, NEW x \in Steps \ Joining, MoveTo(c, x),
           UNCHANGED <<registered, deploy, coordinator, minted, leases, cursors, marks, clearing>>,
           x \in Holding <=> call[c].at \in Holding,
           x \in Found => call[c].at \in Found,
           x \in Open \cup {"subscribed"} => call[c].at \in Open,
           x \in {"positioned", "leased", "subscribed"} => call[c].seen \subseteq cursors,
           x \in {"Opening", "Streaming"} => call[c].at \in {"Opening", "Streaming"}
    PROVE  GroupInv'
<1>1. GroupTypeOK /\ DOMAIN call = Calls /\ call[c] \in CallRecords /\ RecordInv(call[c])
  BY DEF GroupInv, GroupTypeOK
<1> DEFINE r == call[c]
<1>2. call'[c] = [r EXCEPT !.at = x] /\ call' = [call EXCEPT ![c] = [r EXCEPT !.at = x]]
  BY <1>1 DEF MoveTo
<1>3. [r EXCEPT !.at = x] \in CallRecords
  BY <1>1 DEF CallRecords
<1>4. /\ call'[c].at = x /\ call'[c].sub = r.sub /\ call'[c].clear = r.clear /\ call'[c].seen = r.seen
      /\ call'[c].read = r.read /\ call'[c].current = r.current
      /\ call'[c].stale = r.stale /\ call'[c].unread = r.unread
  BY <1>1, <1>2 DEF CallRecords
<1>5. Quiet(c)
  BY <1>1, <1>2, <1>3 DEF Quiet, StepOf, GroupTypeOK
<1>6. x \in Open => r.read \subseteq cursors
  BY <1>1 DEF RecordInv
<1>7. x \in {"Opening", "Streaming"} => Tracks(call'[c])
  BY <1>1, <1>4 DEF RecordInv, Tracks
<1> HIDE DEF r
<1>8. cursors' = cursors
  OBVIOUS
<1> QED
  BY <1>4, <1>5, <1>6, <1>7, <1>8, QuietInd DEF r

\* DELETE of the group, and every request that is answered without a change.
LEMMA AnswerInd ==
    ASSUME GroupInv, UNCHANGED deploy, NEW c \in Calls,
           \/ LeaveGone(c) \/ Cleared(c) \/ DeleteFind(c) \/ DeleteCheck(c) \/ DeleteRow(c)
           \/ StreamCursors(c) \/ SeekCheckLease(c) \/ SeekFence(c)
           \/ SeekDone(c) \/ SeekFailed(c) \/ AbandonRequest(c)
           \/ SessionBaseline(c) \/ SessionTeardown(c)
    PROVE  GroupInv'
<1>1. registered \in BOOLEAN
  BY DEF GroupInv, GroupTypeOK
<1>2. CASE LeaveGone(c)
  BY <1>1, <1>2, ReturnInd DEF LeaveGone
<1>3. CASE Cleared(c)
  BY <1>1, <1>3, ReturnInd DEF Cleared
<1>4. CASE DeleteFind(c)
  BY <1>4, MoveInd DEF DeleteFind, Steps
<1>5. CASE DeleteCheck(c)
  <2>1. CASE members # {}
    BY <1>1, <1>5, <2>1, ReturnInd DEF DeleteCheck
  <2>2. CASE members = {}
    BY <1>5, <2>2, MoveInd DEF DeleteCheck, Steps
  <2> QED
    BY <2>1, <2>2
<1>6. CASE DeleteRow(c)
  BY <1>6, ReturnInd DEF DeleteRow
<1>7. CASE StreamCursors(c)
  <2>1. CASE call[c].seen \subseteq cursors
    BY <1>7, <2>1, MoveInd DEF StreamCursors, Steps
  <2>2. CASE ~(call[c].seen \subseteq cursors)
    BY <1>1, <1>7, <2>2, ReturnInd DEF StreamCursors
  <2> QED
    BY <2>1, <2>2
<1>8. CASE SeekCheckLease(c)
  <2>1. CASE call[c].sub \in leases
    BY <1>1, <1>8, <2>1, ReturnInd DEF SeekCheckLease
  <2>2. CASE call[c].sub \notin leases
    BY <1>8, <2>2, MoveInd DEF SeekCheckLease, Steps
  <2> QED
    BY <2>1, <2>2
<1>9. CASE SeekFence(c)
  <2>1. CASE MoveTo(c, "resolved")
    BY <1>9, <2>1, MoveInd DEF SeekFence, Steps
  <2>2. CASE Return(c)
    BY <1>1, <1>9, <2>2, ReturnInd DEF SeekFence
  <2> QED
    BY <1>9, <2>1, <2>2 DEF SeekFence
<1>10. CASE SeekDone(c)
  BY <1>1, <1>10, ReturnInd DEF SeekDone
<1>11. CASE SeekFailed(c)
  BY <1>1, <1>11, ReturnInd DEF SeekFailed
<1>12. CASE AbandonRequest(c)
  BY <1>1, <1>12, ReturnInd DEF AbandonRequest
<1>13. CASE SessionBaseline(c)
  BY <1>13, MoveInd DEF SessionBaseline, Steps
<1>14. CASE SessionTeardown(c)
  BY <1>14, MoveInd DEF SessionTeardown, Steps
<1> QED
  BY <1>2, <1>3, <1>4, <1>5, <1>6, <1>7, <1>8, <1>9, <1>10, <1>11, <1>12, <1>13, <1>14

\* A subscription is looked up for LEAVE, :stream or :seek.
LEMMA FindInd ==
    ASSUME GroupInv, UNCHANGED deploy, NEW c \in Calls, NEW s \in Subs,
           \/ LeaveFind(c, s) \/ StreamFind(c, s)
           \/ \E behind \in 0 .. 1, targets \in SUBSET Keys : SeekFind(c, s, behind, targets)
    PROVE  GroupInv'
<1>1. GroupTypeOK /\ DOMAIN call = Calls /\ entry[s] \in Entries
  BY DEF GroupInv, GroupTypeOK
<1>2. /\ call[c].at = "idle" /\ s \in members
      /\ UNCHANGED <<registered, coordinator, minted, leases, cursors, marks, clearing>>
  BY DEF LeaveFind, StreamFind, SeekFind, Find
<1>3. /\ call' = [call EXCEPT ![c] = call'[c]] /\ call'[c] \in CallRecords
      /\ call'[c].at \in {"leave", "stream", "seek"} /\ call'[c].sub = s /\ call'[c].clear = << >>
  <2>1. ASSUME NEW x \in {"leave", "stream"}, Find(c, s, x)
        PROVE  /\ call' = [call EXCEPT ![c] = call'[c]] /\ call'[c] \in CallRecords
               /\ call'[c].at = x /\ call'[c].sub = s /\ call'[c].clear = << >>
    <3> DEFINE r == [Idle EXCEPT !.at = x, !.sub = s, !.seen = entry[s].assigned,
                                 !.ver = entry[s].version]
    <3>1. r \in CallRecords
      BY <1>1, IdleRecord DEF CallRecords, Entries, Steps
    <3>2. r.at = x /\ r.sub = s /\ r.clear = << >>
      BY DEF Idle
    <3>3. call' = [call EXCEPT ![c] = r]
      BY <2>1 DEF Find
    <3> HIDE DEF r
    <3> QED
      BY <1>1, <3>1, <3>2, <3>3
  <2>2. ASSUME NEW behind \in 0 .. 1, NEW targets \in SUBSET Keys, SeekFind(c, s, behind, targets)
        PROVE  /\ call' = [call EXCEPT ![c] = call'[c]] /\ call'[c] \in CallRecords
               /\ call'[c].at = "seek" /\ call'[c].sub = s /\ call'[c].clear = << >>
    <3> DEFINE r == [Idle EXCEPT !.at = "seek", !.sub = s, !.seen = entry[s].assigned,
                                 !.ver = entry[s].version, !.topology = entry[s].version - behind,
                                 !.todo = targets]
    <3>4. /\ entry[s].assigned \in SUBSET Keys /\ entry[s].version \in Nat
          /\ entry[s].version - behind \in Int /\ "seek" \in Steps
      BY <1>1 DEF Entries, Steps
    <3>5. ASSUME NEW ks \in SUBSET Keys, NEW v \in Nat, NEW u \in Int
          PROVE  [Idle EXCEPT !.at = "seek", !.sub = s, !.seen = ks, !.ver = v, !.topology = u,
                              !.todo = targets] \in CallRecords
      BY <3>4, IdleRecord DEF CallRecords
    <3>1. r \in CallRecords
      BY <3>4, <3>5
    <3>2. r.at = "seek" /\ r.sub = s /\ r.clear = << >>
      BY DEF Idle
    <3>3. call' = [call EXCEPT ![c] = r]
      BY <2>2 DEF SeekFind
    <3> HIDE DEF r
    <3> QED
      BY <1>1, <3>1, <3>2, <3>3
  <2> QED
    BY <2>1, <2>2 DEF LeaveFind, StreamFind
<1>4. Quiet(c)
  BY <1>1, <1>2, <1>3 DEF Quiet, StepOf, GroupTypeOK
<1> QED
  BY <1>2, <1>3, <1>4, QuietInd

\* The markers of a JOIN are written.
LEMMA MarkInd ==
    ASSUME GroupInv, UNCHANGED deploy, NEW c \in Calls,
           JoinMarkSubscription(c) \/ JoinMarkGroup(c)
    PROVE  GroupInv'
<1>1. GroupTypeOK /\ DOMAIN call = Calls /\ call[c] \in CallRecords /\ RecordInv(call[c])
  BY DEF GroupInv, GroupTypeOK
<1>2. /\ call[c].at \in {"join", "marked"}
      /\ \E x \in {"marked", "routed"} : call' = [call EXCEPT ![c].at = x]
      /\ marks \subseteq marks' /\ call[c].sub \in marks' /\ marks' \subseteq marks \cup {call[c].sub, GroupMark}
      /\ UNCHANGED <<registered, coordinator, minted, leases, cursors, clearing>>
  BY <1>1 DEF JoinMarkSubscription, JoinMarkGroup, MoveTo, RecordInv
<1>3. /\ call' = [call EXCEPT ![c] = call'[c]] /\ call'[c] \in CallRecords
      /\ call'[c].at \in {"marked", "routed"} /\ call'[c].sub = call[c].sub
      /\ call'[c].clear = call[c].clear
  BY <1>1, <1>2 DEF CallRecords, Steps
<1>4. call[c].sub \in Subs
  BY <1>1, <1>2 DEF RecordInv, GroupTypeOK
<1>5. Quiet(c)
  BY <1>1, <1>2, <1>3, <1>4 DEF Quiet, StepOf, GroupTypeOK, Markers
<1> QED
  BY <1>2, <1>3, <1>5, QuietInd

\* A cursor is written.
LEMMA PutInd ==
    ASSUME GroupInv, UNCHANGED deploy, NEW c \in Calls, NEW k \in Keys, SeekPut(c, k)
    PROVE  GroupInv'
<1>1. GroupTypeOK /\ DOMAIN call = Calls /\ call[c] \in CallRecords /\ RecordInv(call[c])
  BY DEF GroupInv, GroupTypeOK
<1>2. /\ call[c].at = "resolved" /\ cursors' = cursors \cup {k}
      /\ call' = [call EXCEPT ![c] = [call[c] EXCEPT !.todo = call[c].todo \ {k}]]
      /\ UNCHANGED <<registered, coordinator, minted, leases, marks, clearing>>
  BY <1>1 DEF SeekPut
<1>3. /\ call' = [call EXCEPT ![c] = call'[c]] /\ call'[c] \in CallRecords
      /\ call'[c].at = "resolved" /\ call'[c].sub = call[c].sub /\ call'[c].clear = call[c].clear
  BY <1>1, <1>2 DEF CallRecords
<1>4. Quiet(c)
  BY <1>1, <1>2, <1>3 DEF Quiet, StepOf, GroupTypeOK
<1> QED
  BY <1>2, <1>3, <1>4, QuietInd

\* A stream takes the generation published now as the one it reads against.
LEMMA OpenInd ==
    ASSUME GroupInv, UNCHANGED deploy, NEW c \in Calls, StreamOpen(c)
    PROVE  GroupInv'
<1>1. GroupTypeOK /\ DOMAIN call = Calls /\ call[c] \in CallRecords /\ RecordInv(call[c])
  BY DEF GroupInv, GroupTypeOK
<1> DEFINE w == watch[call[c].sub]
           r == [call[c] EXCEPT !.at = "Opening", !.read = call[c].seen, !.current = w,
                    !.topology = call[c].ver, !.stale = call[c].seen \ w.assigned,
                    !.unread = w.assigned \ call[c].seen, !.seen = {}, !.ver = 0]
<1>2. /\ call[c].at = "subscribed" /\ call' = [call EXCEPT ![c] = r]
      /\ UNCHANGED <<registered, coordinator, minted, leases, cursors, marks, clearing>>
  BY <1>1 DEF StreamOpen, Attached
<1>3. call[c].sub \in Subs /\ w \in Generations
  BY <1>1, <1>2 DEF RecordInv, GroupTypeOK
<1>4. r \in CallRecords
  <2>1. ASSUME NEW ks \in SUBSET Keys, NEW ls \in SUBSET Keys, NEW us \in SUBSET Keys, NEW v \in Int
        PROVE  [call[c] EXCEPT !.at = "Opening", !.read = ks, !.current = w, !.topology = v,
                    !.stale = ls, !.unread = us, !.seen = {}, !.ver = 0] \in CallRecords
    BY <1>1, <1>3 DEF CallRecords, Steps
  <2>2. /\ call[c].seen \in SUBSET Keys /\ call[c].seen \ w.assigned \in SUBSET Keys
        /\ w.assigned \ call[c].seen \in SUBSET Keys /\ call[c].ver \in Int
    BY <1>1, <1>3 DEF CallRecords, Generations
  <2> QED
    BY <2>1, <2>2
<1>5. /\ r.at = "Opening" /\ r.sub = call[c].sub /\ r.clear = call[c].clear
      /\ r.read = call[c].seen /\ r.current = w
      /\ r.stale = call[c].seen \ w.assigned /\ r.unread = w.assigned \ call[c].seen
  BY <1>1 DEF CallRecords
<1>6. call[c].seen \subseteq cursors
  BY <1>1, <1>2 DEF RecordInv
<1> HIDE DEF r
<1>7. call'[c] = r /\ call' = [call EXCEPT ![c] = call'[c]]
  BY <1>1, <1>2
<1>8. Quiet(c)
  BY <1>1, <1>2, <1>4, <1>7 DEF Quiet, StepOf, GroupTypeOK
<1>9. Tracks(r)
  BY <1>5 DEF Tracks
<1> QED
  BY <1>2, <1>5, <1>6, <1>7, <1>8, <1>9, QuietInd

\* A session applies the newest generation: what it keeps reading is what it
\* has, for gains and the loss of everything end it (classify, apply).
LEMMA ObserveInd ==
    ASSUME GroupInv, UNCHANGED deploy, NEW c \in Calls, SessionObserve(c)
    PROVE  GroupInv'
<1>1. GroupTypeOK /\ DOMAIN call = Calls /\ call[c] \in CallRecords /\ RecordInv(call[c])
  BY DEF GroupInv, GroupTypeOK
<1> DEFINE r == call[c]
           g == watch[r.sub]
           delta == classify(r.current, g)
           q == [r EXCEPT !.current = g]
           loss == [q EXCEPT !.topology = g.version, !.read = r.read \cap g.assigned]
           bump == [q EXCEPT !.topology = g.version]
<1>2. /\ r.at = "Streaming"
      /\ UNCHANGED <<registered, coordinator, minted, leases, cursors, marks, clearing>>
  BY <1>1 DEF SessionObserve
<1>3. r.sub \in Subs /\ g \in Generations /\ g.version \in Nat
      /\ g.assigned \in SUBSET Keys /\ r.current.assigned \in SUBSET Keys
  BY <1>1, <1>2 DEF RecordInv, GroupTypeOK, Generations, CallRecords
<1>4. /\ q \in CallRecords /\ q.at = "Streaming" /\ q.sub = r.sub /\ q.clear = r.clear
      /\ q.read = r.read /\ q.stale = r.stale /\ q.unread = r.unread /\ q.current = g
  BY <1>1, <1>2, <1>3 DEF CallRecords
<1>5. \/ call' = [call EXCEPT ![c] = [q EXCEPT !.at = "Closing"]]
      \/ call' = [call EXCEPT ![c] = loss] /\ g.assigned \subseteq r.current.assigned
      \/ call' = [call EXCEPT ![c] = bump] /\ g.assigned = r.current.assigned
      \/ call' = [call EXCEPT ![c] = q] /\ g.assigned = r.current.assigned
  <2>1. call' = [call EXCEPT ![c] =
              CASE delta \in {"Gain", "LoseAll"} -> [q EXCEPT !.at = "Closing"]
                [] delta = "Loss" -> loss
                [] delta = "VersionOnly" -> bump
                [] OTHER -> q]
    BY <1>1, <1>4 DEF SessionObserve
  <2>2. /\ delta \in {"Gain", "LoseAll", "Loss", "VersionOnly", "Unchanged"}
        /\ delta = "Loss" => g.assigned \subseteq r.current.assigned
        /\ delta \in {"VersionOnly", "Unchanged"} => g.assigned = r.current.assigned
    BY <1>3 DEF classify
  <2> HIDE DEF delta, loss, bump, q, g
  <2>3. CASE delta \in {"Gain", "LoseAll"}
    BY <2>1, <2>3
  <2>4. CASE delta = "Loss"
    BY <2>1, <2>2, <2>4
  <2>5. CASE delta = "VersionOnly"
    BY <2>1, <2>2, <2>5
  <2>6. CASE delta = "Unchanged"
    BY <2>1, <2>2, <2>6
  <2> QED
    BY <2>2, <2>3, <2>4, <2>5, <2>6
<1>6. /\ call' = [call EXCEPT ![c] = call'[c]] /\ call'[c] \in CallRecords
      /\ call'[c].at \in {"Streaming", "Closing"} /\ call'[c].sub = r.sub /\ call'[c].clear = r.clear
      /\ call'[c].read \subseteq r.read
      /\ call'[c].at = "Streaming" => Tracks(call'[c])
  <2>1. Tracks(r)
    BY <1>1, <1>2 DEF RecordInv
  <2> HIDE DEF q, g
  <2>2. CASE call' = [call EXCEPT ![c] = [q EXCEPT !.at = "Closing"]]
    BY <1>1, <1>4, <2>2 DEF CallRecords, Steps
  <2>3. CASE call' = [call EXCEPT ![c] = loss] /\ g.assigned \subseteq r.current.assigned
    <3>1. /\ loss \in CallRecords /\ loss.at = "Streaming" /\ loss.sub = r.sub /\ loss.clear = r.clear
          /\ loss.read = r.read \cap g.assigned /\ loss.current = g
          /\ loss.stale = r.stale /\ loss.unread = r.unread
      <4> DEFINE t(ks, v) == [q EXCEPT !.topology = v, !.read = ks]
      <4>1. ASSUME NEW ks \in SUBSET Keys, NEW v \in Int
            PROVE  /\ t(ks, v) \in CallRecords /\ t(ks, v).at = q.at /\ t(ks, v).sub = q.sub
                   /\ t(ks, v).clear = q.clear /\ t(ks, v).read = ks /\ t(ks, v).stale = q.stale
                   /\ t(ks, v).unread = q.unread /\ t(ks, v).current = q.current
        BY <1>4 DEF CallRecords
      <4>2. r.read \cap g.assigned \in SUBSET Keys /\ g.version \in Int
        BY <1>3
      <4>3. loss = t(r.read \cap g.assigned, g.version)
        OBVIOUS
      <4> QED
        BY <1>4, <4>1, <4>2, <4>3
    <3> HIDE DEF loss
    <3>2. Tracks(loss)
      BY <2>1, <2>3, <3>1 DEF Tracks
    <3> QED
      BY <1>1, <2>3, <3>1, <3>2
  <2>4. CASE call' = [call EXCEPT ![c] = bump] /\ g.assigned = r.current.assigned
    <3>1. /\ bump \in CallRecords /\ bump.at = "Streaming" /\ bump.sub = r.sub /\ bump.clear = r.clear
          /\ bump.read = r.read /\ bump.current = g /\ bump.stale = r.stale /\ bump.unread = r.unread
      BY <1>3, <1>4 DEF CallRecords
    <3> HIDE DEF bump
    <3>2. Tracks(bump)
      BY <2>1, <2>4, <3>1 DEF Tracks
    <3> QED
      BY <1>1, <2>4, <3>1, <3>2
  <2>5. CASE call' = [call EXCEPT ![c] = q] /\ g.assigned = r.current.assigned
    <3>1. Tracks(q)
      BY <1>4, <2>1, <2>5 DEF Tracks
    <3> QED
      BY <1>1, <1>4, <2>5, <3>1
  <2> QED
    BY <1>5, <2>2, <2>3, <2>4, <2>5
<1>7. r.read \subseteq cursors
  BY <1>1, <1>2 DEF RecordInv
<1>8. Quiet(c)
  BY <1>1, <1>2, <1>6 DEF Quiet, StepOf, GroupTypeOK
<1> QED
  BY <1>2, <1>6, <1>7, <1>8, QuietInd

-----------------------------------------------------------------------------
(* Steps that touch the coordinator, the leases or the markers.            *)

\* Entries whose topics and partitions stay are still split and told.
LEMMA EntryKept ==
    ASSUME SplitInv, WatchInv, UNCHANGED <<deploy, members, watch>>, minted \subseteq minted',
           \A s \in Subs : entry'[s].topics = entry[s].topics /\ entry'[s].assigned = entry[s].assigned,
           members \subseteq Subs
    PROVE  SplitInv' /\ WatchInv'
<1>1. [m \in members' |-> entry'[m].topics] = [m \in members |-> entry[m].topics]
  OBVIOUS
<1>2. compute_assignments(members, [m \in members |-> entry[m].topics])'
          = compute_assignments(members', [m \in members' |-> entry'[m].topics])
  BY DEF compute_assignments, Partitions
<1>3. \A s \in members' : entry'[s].assigned
          = compute_assignments(members', [m \in members' |-> entry'[m].topics])[s]
  BY <1>1 DEF SplitInv
<1>4. SplitInv'
  BY <1>2, <1>3 DEF SplitInv
<1> QED
  BY <1>4 DEF WatchInv

\* The step of one call, from what it does to the other calls.
LEMMA CallInd ==
    ASSUME GroupInv, NEW c \in Calls, StepOf(c),
           GroupTypeOK', SplitInv', WatchInv', LeasesAreHeld', RecordInv(call[c])',
           clearing' = clearing, minted \subseteq minted', cursors \subseteq cursors',
           members' \subseteq members \cup Joiners, members' \subseteq marks',
           call'[c].at \in Joining => call'[c].sub \notin minted,
           \A d \in Calls \ {c} :
              /\ call[d].at \in Joining => call[d].sub \notin members'
              /\ call[d].at \in {"marked", "routed"} => call[d].sub \in marks'
              /\ call[d].at \in Open \cup {"subscribed"} /\ call[d].sub \in members \cap members'
                   /\ entry[call[d].sub].state = "Streaming" => entry'[call[d].sub].state = "Streaming"
    PROVE  GroupInv'
<1> USE DEF GroupInv
<1>1. DOMAIN call = Calls /\ \A d \in Calls : d # c => call'[d] = call[d]
  BY DEF GroupTypeOK, StepOf
<1>2. Joiners' \cap minted \subseteq Joiners
  BY JoinersStep
<1>3. RouteInv'
  <2>1. \A i \in 1 .. Len(clearing') : clearing'[i] \in Disposable'
    BY <1>2, ClearingKept
  <2> QED
    BY <2>1 DEF RouteInv
<1>4. JoinInv'
  <2>1. \A d \in Calls : call[d].at \in Joining => call[d].sub \in minted
    BY DEF RecordInv
  <2> QED
    BY <1>1, <2>1 DEF JoinInv
<1>5. ASSUME NEW d \in Calls, d # c PROVE RecordInv(call[d])'
  <2>1. call'[d] = call[d] /\ RecordInv(call[d])
    BY <1>1, <1>5
  <2>2. d \in Calls \ {c}
    BY <1>5
  <2> QED
    BY <1>2, <2>1, <2>2, RecordKept
<1> QED
  BY <1>3, <1>4, <1>5

\* JOIN takes a fresh id.
LEMMA JoinFindInd ==
    ASSUME GroupInv, UNCHANGED deploy, NEW c \in Calls, NEW s \in Subs,
           NEW ts \in SUBSET Topics, JoinFind(c, s, ts)
    PROVE  GroupInv'
<1> USE DEF GroupInv
<1>1. /\ call[c].at = "idle" /\ s \notin minted /\ minted' = minted \cup {s}
      /\ call' = [call EXCEPT ![c] = [Idle EXCEPT !.at = "join", !.sub = s, !.topics = ts]]
      /\ UNCHANGED <<registered, members, version, entry, watch, leases, cursors, marks, clearing>>
  BY DEF JoinFind, coordinator
<1> DEFINE r == [Idle EXCEPT !.at = "join", !.sub = s, !.topics = ts]
<1>2. r \in CallRecords /\ r.at = "join" /\ r.sub = s /\ r.clear = << >>
  BY IdleRecord DEF CallRecords, Steps, Idle
<1> HIDE DEF r
<1>3. DOMAIN call = Calls /\ call'[c] = r /\ StepOf(c)
  BY <1>1, <1>2 DEF GroupTypeOK, StepOf, r
<1>4. GroupTypeOK'
  BY <1>1, <1>3, SameGroup DEF GroupTypeOK, StepOf
<1>5. SplitInv' /\ WatchInv'
  BY <1>1, EntryKept DEF GroupTypeOK
<1>6. LeasesAreHeld'
  BY <1>1, <1>2, <1>3, LeasesKept
<1>7. RecordInv(call[c])'
  <2>1. s \in minted' \ members'
    BY <1>1 DEF SplitInv
  <2>2. Len(r.clear) = 0
    BY <1>2
  <2>3. call'[c].at = "join" /\ call'[c].sub = s /\ 1 .. Len(call'[c].clear) = {}
    BY <1>2, <1>3, <2>2
  <2> QED
    BY <2>1, <2>3 DEF RecordInv
<1>8. \A d \in Calls : RecordInv(call[d])
  OBVIOUS
<1>9. members' \subseteq marks'
  BY <1>1 DEF RouteInv
<1> QED
  BY <1>1, <1>2, <1>3, <1>4, <1>5, <1>6, <1>7, <1>8, <1>9, CallInd DEF RecordInv

\* A disposable marker is taken away: nobody's routing depends on it.
LEMMA DisposeMark ==
    ASSUME GroupInv, NEW m \in Disposable, marks' \in {marks, marks \ {m}}
    PROVE  /\ members \subseteq marks'
           /\ \A d \in Calls : call[d].at \in {"marked", "routed"} => call[d].sub \in marks'
<1> USE DEF GroupInv
<1>1. m \notin members /\ m \notin Joiners
  <2>1. GroupMark \notin Subs
    BY GroupAssumption DEF GroupMark
  <2>2. members \subseteq Subs /\ Joiners \subseteq Subs
    BY DEF GroupTypeOK, Joiners, RecordInv
  <2> QED
    BY <2>1, <2>2 DEF Disposable
<1>2. \A d \in Calls : call[d].at \in {"marked", "routed"} => call[d].sub \in marks /\ call[d].sub \in Joiners
  BY DEF RecordInv, Joiners
<1> QED
  BY <1>1, <1>2 DEF RouteInv

\* A request clears a marker.
LEMMA ClearInd ==
    ASSUME GroupInv, UNCHANGED deploy, NEW c \in Calls, ClearMarker(c)
    PROVE  GroupInv'
<1> USE DEF GroupInv
<1> DEFINE r == call[c]
<1>0. r \in CallRecords /\ DOMAIN call = Calls /\ RecordInv(call[c])
  BY DEF GroupTypeOK
<1>1. /\ r.at = "clear" /\ r.clear # << >>
      /\ call' = [call EXCEPT ![c] = [r EXCEPT !.clear = Tail(r.clear)]]
      /\ marks' \in {marks, marks \ {Head(r.clear)}}
      /\ UNCHANGED <<registered, members, version, entry, watch, minted, leases, cursors, clearing>>
  BY <1>0 DEF ClearMarker, coordinator
<1>2. r.clear \in Seq(Markers)
  BY <1>0 DEF CallRecords
<1>3. /\ Tail(r.clear) \in Seq(Markers) /\ Head(r.clear) = r.clear[1] /\ 1 \in 1 .. Len(r.clear)
      /\ \A i \in 1 .. Len(Tail(r.clear)) : Tail(r.clear)[i] = r.clear[i + 1] /\ i + 1 \in 1 .. Len(r.clear)
  BY <1>1, <1>2
<1>4. Head(r.clear) \in Disposable
  BY <1>0, <1>3 DEF RecordInv
<1>5. /\ members \subseteq marks'
      /\ \A d \in Calls : call[d].at \in {"marked", "routed"} => call[d].sub \in marks'
  BY <1>1, <1>4, DisposeMark
<1>6. /\ call'[c] = [r EXCEPT !.clear = Tail(r.clear)] /\ call'[c] \in CallRecords
      /\ call'[c].at = "clear" /\ call'[c].clear = Tail(r.clear) /\ StepOf(c)
  BY <1>0, <1>1, <1>3 DEF CallRecords, StepOf
<1>7. Joiners' \subseteq Joiners
  BY <1>6, JoinersStep
<1>8. GroupTypeOK'
  BY <1>1, <1>6, SameGroup DEF GroupTypeOK, StepOf
<1>9. SplitInv' /\ WatchInv'
  BY <1>1, EntryKept DEF GroupTypeOK
<1>10. LeasesAreHeld'
  BY <1>1, <1>6, LeasesKept
<1>11. RecordInv(call[c])'
  <2>1. \A i \in 1 .. Len(Tail(r.clear)) : Tail(r.clear)[i] \in Disposable
    BY <1>0, <1>3 DEF RecordInv
  <2>2. Disposable \subseteq Disposable'
    BY <1>1, <1>7 DEF Disposable
  <2> HIDE DEF r
  <2> QED
    BY <1>6, <2>1, <2>2 DEF RecordInv
<1>12. \A d \in Calls : call[d].at \in Joining => call[d].sub \notin members
  BY DEF RecordInv
<1> QED
  BY <1>1, <1>5, <1>6, <1>8, <1>9, <1>10, <1>11, <1>12, CallInd

\* The lease of a call, taken or given back by itself alone.
LEMMA LeaseChange ==
    ASSUME GroupTypeOK, LeasesAreHeld, NEW c \in Calls, StepOf(c),
           \/ /\ call[c].at \notin Holding /\ call'[c].at \in Holding
              /\ call'[c].sub \notin leases /\ leases' = leases \cup {call'[c].sub}
           \/ /\ call[c].at \in Holding /\ call'[c].at \notin Holding
              /\ leases' = leases \ {call[c].sub}
    PROVE  LeasesAreHeld'
<1>1. DOMAIN call = Calls /\ \A d \in Calls : d # c => call'[d] = call[d]
  BY DEF GroupTypeOK, StepOf
<1> DEFINE H == {d \in Calls : call[d].at \in Holding}
<1>2. leases = {call[d].sub : d \in H} /\ \A d, e \in H : call[d].sub = call[e].sub => d = e
  BY DEF LeasesAreHeld
<1>3. CASE call[c].at \notin Holding /\ call'[c].at \in Holding
           /\ call'[c].sub \notin leases /\ leases' = leases \cup {call'[c].sub}
  <2>1. H' = H \cup {c} /\ c \notin H
    BY <1>1, <1>3
  <2>2. \A d \in H : call'[d] = call[d] /\ call[d].sub \in leases
    BY <1>1, <1>2, <2>1
  <2>3. leases' = {call'[d].sub : d \in H'}
    BY <1>2, <1>3, <2>1, <2>2
  <2>4. \A d, e \in H' : call'[d].sub = call'[e].sub => d = e
    BY <1>2, <1>3, <2>1, <2>2
  <2> QED
    BY <2>3, <2>4 DEF LeasesAreHeld
<1>4. CASE call[c].at \in Holding /\ call'[c].at \notin Holding /\ leases' = leases \ {call[c].sub}
  <2>1. H' = H \ {c} /\ c \in H
    BY <1>1, <1>4
  <2>2. \A d \in H' : call'[d] = call[d] /\ call[d].sub # call[c].sub
    BY <1>1, <1>2, <2>1
  <2>3. leases' = {call'[d].sub : d \in H'}
    BY <1>2, <1>4, <2>1, <2>2
  <2>4. \A d, e \in H' : call'[d].sub = call'[e].sub => d = e
    BY <1>2, <2>1, <2>2
  <2> QED
    BY <2>3, <2>4 DEF LeasesAreHeld
<1> QED
  BY <1>3, <1>4

\* A stream takes its lease or is refused one; a stream whose member is gone, and
\* a session whose membership handle is dropped, give theirs back.
LEMMA LeaseInd ==
    ASSUME GroupInv, UNCHANGED deploy, NEW c \in Calls,
           StreamLease(c) \/ StreamRefused(c) \/ SessionDropped(c)
    PROVE  GroupInv'
<1> USE DEF GroupInv
<1> DEFINE r == call[c]
<1>0. r \in CallRecords /\ DOMAIN call = Calls /\ RecordInv(call[c]) /\ registered \in BOOLEAN
  BY DEF GroupTypeOK
<1>1. CASE StreamLease(c) /\ r.sub \in leases
  BY <1>0, <1>1, ReturnInd DEF StreamLease
<1>2. CASE \/ StreamLease(c) /\ r.sub \notin leases
           \/ StreamRefused(c) \/ SessionDropped(c)
  <2>1. /\ UNCHANGED <<registered, members, version, entry, watch, minted, cursors, marks, clearing>>
        /\ \/ /\ r.at = "positioned" /\ r.sub \notin leases
              /\ call' = [call EXCEPT ![c] = [r EXCEPT !.at = "leased"]]
              /\ leases' = leases \cup {r.sub}
           \/ /\ r.at \in {"leased", "dropping"}
              /\ call' = [call EXCEPT ![c] = Idle] /\ leases' = leases \ {r.sub}
    <3>1. CASE StreamLease(c) /\ r.sub \notin leases
      BY <1>0, <3>1 DEF StreamLease, coordinator, MoveTo
    <3>2. CASE StreamRefused(c)
      BY <3>2 DEF StreamRefused, coordinator, Return
    <3>3. CASE SessionDropped(c)
      BY <3>3 DEF SessionDropped, DropField, FieldOrder, Return
    <3> QED
      BY <1>2, <3>1, <3>2, <3>3
  <2>2. /\ StepOf(c) /\ call'[c].clear \in {r.clear, << >>}
        /\ \/ /\ r.at = "positioned" /\ r.sub \notin leases /\ leases' = leases \cup {r.sub}
              /\ call'[c].at = "leased" /\ call'[c].sub = r.sub /\ call'[c].seen = r.seen
           \/ /\ r.at \in {"leased", "dropping"} /\ leases' = leases \ {r.sub}
              /\ call'[c].at = "idle"
    <3>1. [r EXCEPT !.at = "leased"] \in CallRecords
      BY <1>0 DEF CallRecords, Steps
    <3>2. Idle.at = "idle" /\ Idle.clear = << >>
      BY DEF Idle
    <3>3. CASE /\ r.at = "positioned" /\ r.sub \notin leases /\ leases' = leases \cup {r.sub}
               /\ call' = [call EXCEPT ![c] = [r EXCEPT !.at = "leased"]]
      BY <1>0, <3>1, <3>3 DEF StepOf, CallRecords
    <3>4. CASE /\ r.at \in {"leased", "dropping"} /\ leases' = leases \ {r.sub}
               /\ call' = [call EXCEPT ![c] = Idle]
      BY <1>0, <3>2, <3>4, IdleRecord DEF StepOf
    <3> QED
      BY <2>1, <3>3, <3>4
  <2> HIDE DEF r
  <2>3. r.at \in {"positioned", "leased", "dropping"} /\ r.sub \in Subs /\ r.sub \in minted \ Joiners
    BY <1>0, <2>1 DEF RecordInv, GroupTypeOK, r
  <2>4. GroupTypeOK'
    BY <2>1, <2>2, <2>3, SameGroup DEF GroupTypeOK, StepOf
  <2>5. SplitInv' /\ WatchInv'
    BY <2>1, EntryKept DEF GroupTypeOK
  <2>6. LeasesAreHeld'
    BY <2>2, LeaseChange DEF r
  <2>7. Joiners' \subseteq Joiners
    BY <2>2, JoinersStep
  <2>8. RecordInv(call[c])'
    <3>1. Disposable \subseteq Disposable'
      BY <2>1, <2>7 DEF Disposable
    <3>2. \A i \in 1 .. Len(r.clear) : r.clear[i] \in Disposable
      BY <1>0 DEF RecordInv, r
    <3>3. \A i \in 1 .. Len(call'[c].clear) : call'[c].clear[i] \in Disposable'
      <4>1. CASE call'[c].clear = << >>
        BY <4>1
      <4>2. CASE call'[c].clear = r.clear
        BY <3>1, <3>2, <4>2
      <4> QED
        BY <2>2, <4>1, <4>2
    <3>4. r.at = "positioned" => r.seen \subseteq cursors
      BY <1>0 DEF RecordInv, r
    <3> QED
      BY <2>1, <2>2, <2>3, <2>7, <3>3, <3>4 DEF RecordInv
  <2>9. \A d \in Calls : /\ call[d].at \in Joining => call[d].sub \notin members
                         /\ call[d].at \in {"marked", "routed"} => call[d].sub \in marks
    BY DEF RecordInv
  <2>10. members \subseteq marks
    BY DEF RouteInv
  <2> QED
    BY <2>1, <2>2, <2>4, <2>5, <2>6, <2>8, <2>9, <2>10, CallInd
<1> QED
  BY <1>1, <1>2

\* subscribe and on_stream_closed change the state of the caller's member alone: no
\* other call with an open stream has that member, as it holds another lease.
LEMMA MemberInd ==
    ASSUME GroupInv, UNCHANGED deploy, NEW c \in Calls,
           StreamSubscribe(c) \/ SessionEnd(c) \/ Disconnect(c)
    PROVE  GroupInv'
<1> USE DEF GroupInv
<1> DEFINE r == call[c]
           r2 == [Idle EXCEPT !.at = "dropping", !.sub = r.sub]
<1>0. r \in CallRecords /\ DOMAIN call = Calls /\ RecordInv(call[c])
  BY DEF GroupTypeOK
<1>1. /\ UNCHANGED <<registered, members, version, watch, minted, leases, cursors, marks, clearing>>
      /\ \/ /\ r.at = "leased" /\ r.sub \in members
            /\ entry' = [entry EXCEPT ![r.sub] = [entry[r.sub] EXCEPT !.state = "Streaming", !.late = FALSE]]
            /\ call' = [call EXCEPT ![c] = [r EXCEPT !.at = "subscribed"]]
         \/ /\ r.at \in Open
            /\ \/ entry' = [entry EXCEPT ![r.sub] = [entry[r.sub] EXCEPT !.state = "Disconnected"]]
                    /\ r.sub \in members
               \/ entry' = entry
            /\ call' = [call EXCEPT ![c] = r2]
  <2>1. CASE StreamSubscribe(c)
    <3>1. r.sub \in Subs
      BY <2>1 DEF GroupTypeOK, StreamSubscribe
    <3>2. DOMAIN entry = Subs
      BY DEF GroupTypeOK
    <3>3. entry' = [entry EXCEPT ![r.sub] = [entry[r.sub] EXCEPT !.state = "Streaming", !.late = FALSE]]
      BY <2>1, <3>1, <3>2 DEF StreamSubscribe, SubscribeMember
    <3> QED
      BY <1>0, <2>1, <3>3 DEF StreamSubscribe
  <2>2. CASE SessionEnd(c) \/ Disconnect(c)
    <3>1. r.at \in Open /\ Drop(c)
      BY <2>2 DEF SessionEnd, Disconnect
    <3>2. CloseMember(r.sub) /\ UNCHANGED leases
      BY <3>1 DEF Drop, DropField, FieldOrder
    <3>3. \/ entry' = [entry EXCEPT ![r.sub] = [entry[r.sub] EXCEPT !.state = "Disconnected"]]
                /\ r.sub \in members
          \/ entry' = entry
      BY <3>2 DEF CloseMember, GroupTypeOK
    <3> QED
      BY <3>1, <3>2, <3>3 DEF Drop
  <2> QED
    BY <2>1, <2>2
<1>2. r.at \in Holding /\ r.sub \in Subs /\ r.sub \in minted \ Joiners
  BY <1>0, <1>1 DEF RecordInv, GroupTypeOK
<1>3. /\ StepOf(c) /\ call'[c].clear \in {r.clear, << >>} /\ call'[c].sub = r.sub
      /\ \/ r.at = "leased" /\ call'[c].at = "subscribed" /\ call'[c].seen = r.seen
         \/ r.at \in Open /\ call'[c].at = "dropping"
  <2>1. [r EXCEPT !.at = "subscribed"] \in CallRecords
    BY <1>0 DEF CallRecords, Steps
  <2>2. r2 \in CallRecords /\ r2.at = "dropping" /\ r2.sub = r.sub /\ r2.clear = << >>
    BY <1>2, IdleRecord DEF CallRecords, Steps, Idle
  <2> HIDE DEF r2
  <2>3. CASE r.at = "leased" /\ call' = [call EXCEPT ![c] = [r EXCEPT !.at = "subscribed"]]
    BY <1>0, <2>1, <2>3 DEF StepOf, CallRecords
  <2>4. CASE r.at \in Open /\ call' = [call EXCEPT ![c] = r2]
    BY <1>0, <2>2, <2>4 DEF StepOf
  <2> QED
    BY <1>1, <2>3, <2>4
<1>4. /\ entry' \in [Subs -> Entries]
      /\ \A s \in Subs : /\ entry'[s].topics = entry[s].topics /\ entry'[s].assigned = entry[s].assigned
                         /\ s # r.sub => entry'[s] = entry[s]
      /\ r.at = "leased" => entry'[r.sub].state = "Streaming"
  <2>1. entry \in [Subs -> Entries] /\ entry[r.sub] \in Entries
    BY <1>2 DEF GroupTypeOK
  <2> HIDE DEF r, r2
  <2>2. CASE r.at = "leased" /\ entry' = [entry EXCEPT ![r.sub] =
                 [entry[r.sub] EXCEPT !.state = "Streaming", !.late = FALSE]]
    BY <1>2, <2>1, <2>2 DEF Entries
  <2>3. CASE r.at \in Open /\ entry' = [entry EXCEPT ![r.sub] =
                 [entry[r.sub] EXCEPT !.state = "Disconnected"]]
    BY <1>2, <2>1, <2>3 DEF Entries
  <2>4. CASE r.at \in Open /\ entry' = entry
    BY <2>1, <2>4
  <2> QED
    BY <1>1, <2>2, <2>3, <2>4
<1> HIDE DEF r, r2
<1>5. GroupTypeOK'
  BY <1>1, <1>3, <1>4, SameGroup DEF GroupTypeOK, StepOf
<1>6. SplitInv' /\ WatchInv'
  BY <1>1, <1>4, EntryKept DEF GroupTypeOK
<1>7. LeasesAreHeld'
  BY <1>1, <1>2, <1>3, LeasesKept DEF r
<1>8. Joiners' \subseteq Joiners
  BY <1>3, JoinersStep
<1>9. RecordInv(call[c])'
  <2>1. Disposable \subseteq Disposable'
    BY <1>1, <1>8 DEF Disposable
  <2>2. \A i \in 1 .. Len(r.clear) : r.clear[i] \in Disposable
    BY <1>0 DEF RecordInv, r
  <2>3. \A i \in 1 .. Len(call'[c].clear) : call'[c].clear[i] \in Disposable'
    <3>1. CASE call'[c].clear = << >>
      BY <3>1
    <3>2. CASE call'[c].clear = r.clear
      BY <2>1, <2>2, <3>2
    <3> QED
      BY <1>3, <3>1, <3>2
  <2>4. r.at = "leased" => r.seen \subseteq cursors
    BY <1>0 DEF RecordInv, r
  <2> QED
    BY <1>1, <1>2, <1>3, <1>4, <1>8, <2>3, <2>4 DEF RecordInv
<1>10. \A d \in Calls \ {c} : call[d].at \in Open \cup {"subscribed"} /\ call[d].sub \in members
            => entry'[call[d].sub] = entry[call[d].sub]
  <2>1. \A d \in Calls \ {c} : call[d].at \in Open \cup {"subscribed"} => call[d].sub # r.sub
    BY <1>2 DEF LeasesAreHeld, r
  <2> QED
    BY <1>4, <2>1 DEF GroupTypeOK
<1>11. \A d \in Calls : /\ call[d].at \in Joining => call[d].sub \notin members
                        /\ call[d].at \in {"marked", "routed"} => call[d].sub \in marks
  BY DEF RecordInv
<1>12. members \subseteq marks
  BY DEF RouteInv
<1> QED
  BY <1>1, <1>3, <1>5, <1>6, <1>7, <1>9, <1>10, <1>11, <1>12, CallInd

\* What is to be cleared are the markers of those gone and the group's.
LEMMA RemovalsAre ==
    ASSUME NEW gone \in SUBSET Subs, NEW ms, NEW clear \in Removals(gone, ms)
    PROVE  /\ clear \in Seq(Markers)
           /\ \A i \in 1 .. Len(clear) : clear[i] \in gone \cup {GroupMark}
<1> DEFINE n == Cardinality(gone)
<1>1. IsFiniteSet(gone) /\ n \in Nat
  BY GroupAssumption, FS_Subset, FS_CardinalityType
<1>2. ASSUME NEW order \in SetToSeqs(gone)
      PROVE  order \in [1 .. n -> gone] /\ Len(order) = n
  <2>1. order \in [1 .. n -> gone]
    BY DEF SetToSeqs
  <2>2. order \in Seq(gone)
    BY <1>1, <2>1
  <2> QED
    BY <1>1, <2>1, <2>2
<1> HIDE DEF n
<1>3. \E k \in Nat : clear \in [1 .. k -> gone \cup {GroupMark}]
  <2>1. CASE ms # {}
    <3>1. clear \in [1 .. n -> gone]
      BY <1>2, <2>1 DEF Removals
    <3>2. clear \in [1 .. n -> gone \cup {GroupMark}]
      BY <3>1
    <3> QED
      BY <1>1, <3>2
  <2>2. CASE ms = {}
    <3>1. PICK order \in SetToSeqs(gone) :
              clear = [i \in 1 .. 2 * Len(order) |->
                          IF i % 2 = 1 THEN order[(i + 1) \div 2] ELSE GroupMark]
      BY <2>2 DEF Removals
    <3>2. order \in [1 .. n -> gone] /\ Len(order) = n
      BY <1>2
    <3>3. \A i \in 1 .. 2 * n : (i + 1) \div 2 \in 1 .. n
      BY <1>1
    <3>4. clear \in [1 .. 2 * n -> gone \cup {GroupMark}]
      BY <3>1, <3>2, <3>3
    <3>5. 2 * n \in Nat
      BY <1>1
    <3> QED
      BY <3>4, <3>5
  <2> QED
    BY <2>1, <2>2
<1>4. PICK k \in Nat : clear \in [1 .. k -> gone \cup {GroupMark}]
  BY <1>3
<1>5. clear \in Seq(gone \cup {GroupMark}) /\ gone \cup {GroupMark} \subseteq Markers
  BY <1>4 DEF Markers
<1>6. Len(clear) = k
  BY <1>4, <1>5
<1>7. clear \in Seq(Markers)
  BY <1>4, <1>5
<1> QED
  BY <1>4, <1>6, <1>7

\* JOIN: the disconnected are evicted and the new member is let in.
LEMMA JoinInd ==
    ASSUME GroupInv, UNCHANGED deploy, NEW c \in Calls, Join(c)
    PROVE  GroupInv'
<1> USE DEF GroupInv
<1> DEFINE s == call[c].sub
           ms == (members \ Evicted) \cup {s}
           fresh == [x \in {s} |-> [NoEntry EXCEPT !.state = "Joined", !.topics = call[c].topics]]
<1>0. call[c] \in CallRecords /\ DOMAIN call = Calls /\ RecordInv(call[c])
  BY DEF GroupTypeOK
<1>1. /\ call[c].at = "routed" /\ Regroup(ms, fresh)
      /\ \E clear \in Removals(Evicted, ms) :
            call' = [call EXCEPT ![c] = [Idle EXCEPT !.at = "clear", !.clear = clear]]
      /\ UNCHANGED <<registered, minted, leases, cursors, marks, clearing>>
  BY DEF Join, Joinable
<1>2. s \in Subs /\ s \in minted \ members /\ s \in marks /\ s \in Joiners
  BY <1>0, <1>1 DEF RecordInv, GroupTypeOK, Joiners
<1>3. Evicted \subseteq members /\ ms \in SUBSET minted
  BY <1>2 DEF Evicted, SplitInv
<1>4. /\ members' = ms /\ version' \in Nat
      /\ entry' \in [Subs -> Entries] /\ watch' \in [Subs -> Generations]
      /\ SplitInv' /\ WatchInv'
      /\ \A m \in ms \cap members : entry'[m].state = entry[m].state
  <2>1. DOMAIN fresh = {s} /\ \A x \in {s} : fresh[x] \in Entries
    BY <1>0 DEF Entries, NoEntry, CallRecords
  <2>2. ms \ members \subseteq DOMAIN fresh /\ DOMAIN fresh \subseteq ms \ members
    BY <1>2, <2>1
  <2> HIDE DEF fresh, ms
  <2> QED
    BY <1>1, <1>3, <2>1, <2>2, RegroupInd
<1>5. PICK clear \in Removals(Evicted, ms) :
          call' = [call EXCEPT ![c] = [Idle EXCEPT !.at = "clear", !.clear = clear]]
  BY <1>1
<1>6. /\ clear \in Seq(Markers)
      /\ \A i \in 1 .. Len(clear) : clear[i] \in Evicted \cup {GroupMark}
  BY <1>3, RemovalsAre DEF GroupTypeOK
<1>7. /\ StepOf(c) /\ call'[c].at = "clear" /\ call'[c].clear = clear
  <2>1. [Idle EXCEPT !.at = "clear", !.clear = clear] \in CallRecords
    BY <1>6, IdleRecord DEF CallRecords, Steps
  <2>2. /\ [Idle EXCEPT !.at = "clear", !.clear = clear].at = "clear"
        /\ [Idle EXCEPT !.at = "clear", !.clear = clear].clear = clear
    BY DEF Idle
  <2> QED
    BY <1>0, <1>5, <2>1, <2>2 DEF StepOf
<1> HIDE DEF s, fresh
<1>8. GroupTypeOK'
  BY <1>1, <1>3, <1>4, <1>7, SameGroup DEF GroupTypeOK, StepOf
<1>9. LeasesAreHeld'
  BY <1>1, <1>7, LeasesKept
<1>10. members \cap Joiners = {} /\ Joiners' \subseteq Joiners
  BY <1>7, JoinersStep DEF Joiners, RecordInv
<1>11. RecordInv(call[c])'
  <2>1. Evicted \subseteq minted' \ (members' \cup Joiners')
    BY <1>1, <1>2, <1>3, <1>4, <1>10 DEF SplitInv
  <2>2. \A i \in 1 .. Len(clear) : clear[i] \in Disposable'
    BY <1>6, <2>1 DEF Disposable
  <2> QED
    BY <1>7, <2>2 DEF RecordInv
<1>12. members' \subseteq members \cup Joiners /\ members' \subseteq marks'
  BY <1>1, <1>2, <1>4 DEF RouteInv
<1>13. ASSUME NEW d \in Calls \ {c}
       PROVE  /\ call[d].at \in Joining => call[d].sub \notin members'
              /\ call[d].at \in {"marked", "routed"} => call[d].sub \in marks'
              /\ call[d].at \in Open \cup {"subscribed"} /\ call[d].sub \in members \cap members'
                   /\ entry[call[d].sub].state = "Streaming" => entry'[call[d].sub].state = "Streaming"
  <2>1. RecordInv(call[d])
    OBVIOUS
  <2>2. call[d].at \in Joining => call[d].sub # s /\ call[d].sub \notin members
    BY <1>1, <2>1 DEF JoinInv, RecordInv, s
  <2> QED
    BY <1>1, <1>4, <2>1, <2>2 DEF RecordInv
<1> QED
  BY <1>1, <1>4, <1>7, <1>8, <1>9, <1>11, <1>12, <1>13, CallInd

\* LEAVE takes its member out, whether or not it has a stream.
LEMMA LeaveInd ==
    ASSUME GroupInv, UNCHANGED deploy, NEW c \in Calls, Leave(c)
    PROVE  GroupInv'
<1> USE DEF GroupInv
<1> DEFINE s == call[c].sub
           ms == members \ {s}
<1>0. call[c] \in CallRecords /\ DOMAIN call = Calls
  BY DEF GroupTypeOK
<1>1. /\ call[c].at = "leave" /\ s \in members /\ Regroup(ms, << >>)
      /\ \E clear \in Removals({s}, ms) :
            call' = [call EXCEPT ![c] = [Idle EXCEPT !.at = "clear", !.clear = clear]]
      /\ UNCHANGED <<registered, minted, leases, cursors, marks, clearing>>
  BY DEF Leave
<1>2. s \in Subs /\ members \subseteq minted /\ ms \in SUBSET minted
  BY <1>1 DEF GroupTypeOK, SplitInv
<1>3. DOMAIN << >> = {}
  OBVIOUS
<1>4. /\ members' = ms /\ version' \in Nat
      /\ entry' \in [Subs -> Entries] /\ watch' \in [Subs -> Generations]
      /\ SplitInv' /\ WatchInv'
      /\ \A m \in ms \cap members : entry'[m].state = entry[m].state
  <2>1. ms \ members = {}
    OBVIOUS
  <2> HIDE DEF ms
  <2> QED
    BY <1>1, <1>2, <1>3, <2>1, RegroupInd
<1>5. PICK clear \in Removals({s}, ms) :
          call' = [call EXCEPT ![c] = [Idle EXCEPT !.at = "clear", !.clear = clear]]
  BY <1>1
<1>6. /\ clear \in Seq(Markers)
      /\ \A i \in 1 .. Len(clear) : clear[i] \in {s} \cup {GroupMark}
  BY <1>2, RemovalsAre
<1>7. /\ StepOf(c) /\ call'[c].at = "clear" /\ call'[c].clear = clear
  <2>1. [Idle EXCEPT !.at = "clear", !.clear = clear] \in CallRecords
    BY <1>6, IdleRecord DEF CallRecords, Steps
  <2>2. /\ [Idle EXCEPT !.at = "clear", !.clear = clear].at = "clear"
        /\ [Idle EXCEPT !.at = "clear", !.clear = clear].clear = clear
    BY DEF Idle
  <2> QED
    BY <1>0, <1>5, <2>1, <2>2 DEF StepOf
<1> HIDE DEF s
<1>8. GroupTypeOK'
  BY <1>1, <1>4, <1>7, SameGroup DEF GroupTypeOK, StepOf
<1>9. LeasesAreHeld'
  BY <1>1, <1>7, LeasesKept
<1>10. members \cap Joiners = {} /\ Joiners' \subseteq Joiners
  BY <1>7, JoinersStep DEF Joiners, RecordInv
<1>11. RecordInv(call[c])'
  <2>1. s \in minted' \ (members' \cup Joiners')
    BY <1>1, <1>2, <1>4, <1>10
  <2>2. \A i \in 1 .. Len(clear) : clear[i] \in Disposable'
    BY <1>6, <2>1 DEF Disposable
  <2> QED
    BY <1>7, <2>2 DEF RecordInv
<1>12. members' \subseteq members /\ members' \subseteq marks'
  BY <1>1, <1>4 DEF RouteInv
<1>13. ASSUME NEW d \in Calls \ {c}
       PROVE  /\ call[d].at \in Joining => call[d].sub \notin members'
              /\ call[d].at \in {"marked", "routed"} => call[d].sub \in marks'
              /\ call[d].at \in Open \cup {"subscribed"} /\ call[d].sub \in members \cap members'
                   /\ entry[call[d].sub].state = "Streaming" => entry'[call[d].sub].state = "Streaming"
  <2>1. RecordInv(call[d])
    OBVIOUS
  <2> QED
    BY <1>1, <1>4, <1>12, <2>1 DEF RecordInv
<1> QED
  BY <1>1, <1>7, <1>8, <1>4, <1>9, <1>11, <1>12, <1>13, CallInd

\* A step of the sweeper or of time touches no call.
LEMMA SweeperInd ==
    ASSUME GroupInv, call' = call, GroupTypeOK', SplitInv', WatchInv',
           UNCHANGED <<minted, leases, cursors>>,
           members' \subseteq members, members' \subseteq marks',
           \A i \in 1 .. Len(clearing') : clearing'[i] \in Disposable',
           \A d \in Calls :
              /\ call[d].at \in {"marked", "routed"} => call[d].sub \in marks'
              /\ call[d].sub \in members \cap members' =>
                   entry'[call[d].sub].state = entry[call[d].sub].state
    PROVE  GroupInv'
<1> USE DEF GroupInv
<1>1. Joiners' = Joiners
  BY DEF Joiners
<1>2. RouteInv'
  BY DEF RouteInv
<1>3. JoinInv'
  BY DEF JoinInv
<1>4. LeasesAreHeld'
  BY DEF LeasesAreHeld
<1>5. ASSUME NEW d \in Calls PROVE RecordInv(call[d])'
  <2>1. RecordInv(call[d]) /\ call'[d] = call[d]
    OBVIOUS
  <2>2. call[d].at \in Joining => call[d].sub \notin members'
    BY <2>1 DEF RecordInv
  <2> QED
    BY <1>1, <2>1, <2>2, RecordKept
<1> QED
  BY <1>2, <1>3, <1>4, <1>5

\* The sweep takes the overdue out.
LEMMA SweepInd ==
    ASSUME GroupInv, UNCHANGED deploy, Sweep
    PROVE  GroupInv'
<1> USE DEF GroupInv
<1> DEFINE ms == members \ Overdue
<1>1. /\ Regroup(ms, << >>) /\ clearing' \in Removals(Overdue, ms)
      /\ UNCHANGED <<registered, minted, leases, cursors, marks, call>>
  BY DEF Sweep
<1>2. Overdue \subseteq members /\ members \subseteq minted /\ members \subseteq Subs
      /\ ms \in SUBSET minted
  BY DEF Overdue, SplitInv, GroupTypeOK
<1>3. DOMAIN << >> = {}
  OBVIOUS
<1>4. /\ members' = ms /\ version' \in Nat
      /\ entry' \in [Subs -> Entries] /\ watch' \in [Subs -> Generations]
      /\ SplitInv' /\ WatchInv'
      /\ \A m \in ms \cap members : entry'[m].state = entry[m].state
  <2>1. ms \ members = {}
    OBVIOUS
  <2> HIDE DEF ms
  <2> QED
    BY <1>1, <1>2, <1>3, <2>1, RegroupInd
<1>5. PICK clear \in Removals(Overdue, ms) : clearing' = clear
  BY <1>1
<1>6. /\ clear \in Seq(Markers)
      /\ \A i \in 1 .. Len(clear) : clear[i] \in Overdue \cup {GroupMark}
  BY <1>2, RemovalsAre
<1>7. GroupTypeOK'
  BY <1>1, <1>4, <1>5, <1>6, SameGroup DEF GroupTypeOK
<1>8. \A i \in 1 .. Len(clearing') : clearing'[i] \in Disposable'
  <2>1. members \cap Joiners = {} /\ Joiners' = Joiners
    BY <1>1 DEF Joiners, RecordInv
  <2>2. Overdue \subseteq minted' \ (members' \cup Joiners')
    BY <1>1, <1>2, <1>4, <2>1
  <2> QED
    BY <1>5, <1>6, <2>2 DEF Disposable
<1>9. members' \subseteq members /\ members' \subseteq marks'
  BY <1>1, <1>4 DEF RouteInv
<1>10. \A d \in Calls :
              /\ call[d].at \in {"marked", "routed"} => call[d].sub \in marks'
              /\ call[d].sub \in members \cap members' =>
                   entry'[call[d].sub].state = entry[call[d].sub].state
  BY <1>1, <1>4 DEF RecordInv
<1> QED
  BY <1>1, <1>4, <1>7, <1>8, <1>9, <1>10, SweeperInd

\* The sweeper clears a marker; a member outlives its state.
LEMMA TickInd ==
    ASSUME GroupInv, UNCHANGED deploy, SweeperClear \/ \E s \in Subs : Expire(s)
    PROVE  GroupInv'
<1> USE DEF GroupInv
<1>1. CASE SweeperClear
  <2>1. /\ clearing # << >> /\ clearing' = Tail(clearing)
        /\ marks' \in {marks, marks \ {Head(clearing)}}
        /\ UNCHANGED <<registered, members, version, entry, watch, minted, leases, cursors, call>>
    BY <1>1 DEF SweeperClear, coordinator
  <2>2. clearing \in Seq(Markers)
    BY DEF GroupTypeOK
  <2>3. /\ Tail(clearing) \in Seq(Markers) /\ Head(clearing) = clearing[1] /\ 1 \in 1 .. Len(clearing)
        /\ \A i \in 1 .. Len(Tail(clearing)) :
              Tail(clearing)[i] = clearing[i + 1] /\ i + 1 \in 1 .. Len(clearing)
    BY <2>1, <2>2
  <2>4. Head(clearing) \in Disposable
    BY <2>3 DEF RouteInv
  <2>5. /\ members \subseteq marks'
        /\ \A d \in Calls : call[d].at \in {"marked", "routed"} => call[d].sub \in marks'
    BY <2>1, <2>4, DisposeMark
  <2>6. GroupTypeOK'
    BY <2>1, <2>3, SameGroup DEF GroupTypeOK
  <2>7. SplitInv' /\ WatchInv'
    BY <2>1, EntryKept DEF GroupTypeOK
  <2>8. \A i \in 1 .. Len(clearing') : clearing'[i] \in Disposable'
    <3>1. Disposable' = Disposable
      BY <2>1 DEF Disposable, Joiners
    <3> QED
      BY <2>1, <2>3, <3>1 DEF RouteInv
  <2> QED
    BY <2>1, <2>5, <2>6, <2>7, <2>8, SweeperInd
<1>2. ASSUME NEW s \in Subs, Expire(s) PROVE GroupInv'
  <2>1. /\ entry' = [entry EXCEPT ![s] = [entry[s] EXCEPT !.late = TRUE]]
        /\ UNCHANGED <<registered, members, version, watch, minted, leases, cursors, marks,
                       clearing, call>>
    BY <1>2 DEF Expire, GroupTypeOK
  <2>2. /\ entry' \in [Subs -> Entries]
        /\ \A m \in Subs : /\ entry'[m].topics = entry[m].topics /\ entry'[m].assigned = entry[m].assigned
                           /\ entry'[m].state = entry[m].state
    BY <2>1 DEF GroupTypeOK, Entries
  <2>3. GroupTypeOK'
    BY <2>1, <2>2, SameGroup DEF GroupTypeOK
  <2>4. SplitInv' /\ WatchInv'
    BY <2>1, <2>2, EntryKept DEF GroupTypeOK
  <2>5. \A i \in 1 .. Len(clearing') : clearing'[i] \in Disposable'
    BY <2>1 DEF RouteInv, Disposable, Joiners
  <2>6. \A d \in Calls :
              /\ call[d].at \in {"marked", "routed"} => call[d].sub \in marks'
              /\ call[d].sub \in members \cap members' =>
                   entry'[call[d].sub].state = entry[call[d].sub].state
    BY <2>1, <2>2 DEF RecordInv, GroupTypeOK
  <2>7. members' \subseteq members /\ members' \subseteq marks'
    BY <2>1 DEF RouteInv
  <2> QED
    BY <2>1, <2>3, <2>4, <2>5, <2>6, <2>7, SweeperInd
<1> QED
  BY <1>1, <1>2

-----------------------------------------------------------------------------
(* The theorems.                                                           *)

\* A group without members satisfies the invariant.
LEMMA GroupInitInd == GroupInit => GroupInv
<1> SUFFICES ASSUME GroupInit PROVE GroupInv
  OBVIOUS
<1> USE DEF GroupInit
<1>1. NoEntry \in Entries /\ NoEntry.assigned = {}
  BY DEF NoEntry, Entries
<1>2. Generation(0, {}) \in Generations /\ Generation(0, {}).assigned = {}
  BY DEF Generation, Generations
<1>3. Idle.at = "idle" /\ Idle.clear = << >> /\ 1 .. Len(Idle.clear) = {}
  BY DEF Idle
<1>4. GroupTypeOK
  BY <1>1, <1>2, IdleRecord DEF GroupTypeOK
<1>5. SplitInv /\ WatchInv
  BY <1>1, <1>2 DEF SplitInv, WatchInv
<1>6. RouteInv /\ JoinInv
  BY <1>3 DEF RouteInv, JoinInv
<1>7. LeasesAreHeld
  BY <1>3 DEF LeasesAreHeld
<1>8. \A c \in Calls : RecordInv(call[c])
  BY <1>3 DEF RecordInv
<1> QED
  BY <1>4, <1>5, <1>6, <1>7, <1>8 DEF GroupInv

\* Every step of every call, of the sweeper and of time keeps the invariant.
LEMMA GroupNextInd ==
    ASSUME GroupInv, [GroupNext /\ UNCHANGED deploy]_<<groupVars, deploy>>
    PROVE  GroupInv'
<1>1. CASE UNCHANGED <<groupVars, deploy>>
  <2>1. UNCHANGED <<deploy, registered, members, version, entry, watch, minted, leases, cursors,
                    marks, clearing, call>>
    BY <1>1 DEF groupVars, coordinator
  <2>2. GroupTypeOK'
    BY <2>1, SameGroup DEF GroupInv, GroupTypeOK
  <2>3. SplitInv' /\ WatchInv'
    BY <2>1, EntryKept DEF GroupInv, GroupTypeOK
  <2>4. Disposable' = Disposable
    BY <2>1 DEF Disposable, Joiners
  <2> QED
    BY <2>1, <2>2, <2>3, <2>4, SweeperInd DEF GroupInv, RouteInv, RecordInv
<1>2. CASE GroupNext /\ UNCHANGED deploy
  <2>1. ASSUME NEW c \in Calls, Request(c) PROVE GroupInv'
    <3>1. ASSUME NEW s \in Subs, NEW ts \in SUBSET Topics, JoinFind(c, s, ts) PROVE GroupInv'
      BY <1>2, <3>1, JoinFindInd
    <3>2. ASSUME NEW s \in Subs, LeaveFind(c, s) \/ StreamFind(c, s) PROVE GroupInv'
      BY <1>2, <3>2, FindInd
    <3>3. ASSUME NEW s \in Subs, NEW behind \in 0 .. 1, NEW targets \in SUBSET Keys,
                 SeekFind(c, s, behind, targets)
          PROVE  GroupInv'
      BY <1>2, <3>3, FindInd
    <3>4. CASE DeleteFind(c)
      BY <1>2, <3>4, AnswerInd
    <3> QED
      BY <2>1, <3>1, <3>2, <3>3, <3>4 DEF Request
  <2>2. ASSUME NEW c \in Calls, Handle(c) PROVE GroupInv'
    <3>1. CASE JoinMarkSubscription(c) \/ JoinMarkGroup(c)
      BY <1>2, <3>1, MarkInd
    <3>2. CASE Join(c)
      BY <1>2, <3>2, JoinInd
    <3>3. CASE Leave(c)
      BY <1>2, <3>3, LeaveInd
    <3>4. CASE ClearMarker(c)
      BY <1>2, <3>4, ClearInd
    <3>5. CASE \/ LeaveGone(c) \/ Cleared(c) \/ DeleteCheck(c) \/ DeleteRow(c)
               \/ StreamCursors(c) \/ SeekCheckLease(c) \/ SeekFence(c)
               \/ SeekDone(c) \/ SeekFailed(c)
      BY <1>2, <3>5, AnswerInd
    <3>6. CASE StreamLease(c) \/ StreamRefused(c)
      BY <1>2, <3>6, LeaseInd
    <3>7. CASE StreamSubscribe(c)
      BY <1>2, <3>7, MemberInd
    <3>8. CASE StreamOpen(c)
      BY <1>2, <3>8, OpenInd
    <3>9. CASE \E k \in Keys : SeekPut(c, k)
      BY <1>2, <3>9, PutInd
    <3> QED
      BY <2>2, <3>1, <3>2, <3>3, <3>4, <3>5, <3>6, <3>7, <3>8, <3>9 DEF Handle
  <2>3. ASSUME NEW c \in Calls,
               Session(c) \/ SessionTeardown(c) \/ Disconnect(c) \/ AbandonRequest(c)
        PROVE  GroupInv'
    <3>1. CASE SessionBaseline(c) \/ SessionTeardown(c) \/ AbandonRequest(c)
      BY <1>2, <3>1, AnswerInd
    <3>2. CASE SessionObserve(c)
      BY <1>2, <3>2, ObserveInd
    <3>3. CASE SessionEnd(c) \/ Disconnect(c)
      BY <1>2, <3>3, MemberInd
    <3>4. CASE SessionDropped(c)
      BY <1>2, <3>4, LeaseInd
    <3> QED
      BY <2>3, <3>1, <3>2, <3>3, <3>4 DEF Session
  <2>4. CASE Sweep
    BY <1>2, <2>4, SweepInd
  <2>5. CASE SweeperClear \/ \E s \in Subs : Expire(s)
    BY <1>2, <2>5, TickInd
  <2> QED
    BY <1>2, <2>1, <2>2, <2>3, <2>4, <2>5 DEF GroupNext
<1> QED
  BY <1>1, <1>2

\* The invariant holds in every state the group reaches.
THEOREM GroupInductive == GroupSpec => []GroupInv
<1>1. GroupInit => GroupInv
  BY GroupInitInd
<1>2. GroupInv /\ [GroupNext /\ UNCHANGED deploy]_<<groupVars, deploy>> => GroupInv'
  BY GroupNextInd
<1> QED
  BY <1>1, <1>2, PTL DEF GroupSpec

\* After every join, leave, eviction and sweep, for any number of members, topics and
\* partitions: each partition that somebody wants is held by exactly one member, its
\* watch says so, and every member has the subscription marker that leads to its group.
\* The group's own marker, which leads on to the instance, is not part of it
\* (GroupSound; range_split, compute_assignments, publish_generations, the markers).
THEOREM GroupCorrect == GroupSpec => []GroupSound
<1>1. ASSUME GroupInv PROVE GroupSound
  <2> USE <1>1 DEF GroupInv
  <2>1. SplitIsExact
    <3> SUFFICES ASSUME NEW s \in members, NEW t \in entry[s].topics, NEW p \in 0 .. Partitions[t] - 1
                 PROVE  Cardinality({m \in members : <<t, p>> \in entry[m].assigned
                                                        /\ t \in entry[m].topics}) = 1
      BY DEF SplitIsExact
    <3> DEFINE topics == [m \in members |-> entry[m].topics]
               split == compute_assignments(members, topics)
    <3>1. members \in SUBSET Subs /\ topics \in [members -> SUBSET Topics] /\ deploy \in Deployments
      BY DEF GroupTypeOK, Entries
    <3>2. \A m \in members : entry[m].assigned = split[m]
      BY DEF SplitInv
    <3>3. \A m \in members : entry[m].topics = topics[m]
      OBVIOUS
    <3> HIDE DEF topics
    <3>4. \E o \in members : {m \in members : <<t, p>> \in split[m] /\ t \in topics[m]} = {o}
      BY <3>1, <3>3, AssignExactly
    <3> HIDE DEF split
    <3>5. {m \in members : <<t, p>> \in entry[m].assigned /\ t \in entry[m].topics}
            = {m \in members : <<t, p>> \in split[m] /\ t \in topics[m]}
      BY <3>2, <3>3
    <3> QED
      BY <3>4, <3>5, FS_Singleton
  <2>2. WatchIsCurrent
    BY DEF WatchIsCurrent, WatchInv, GroupTypeOK
  <2>3. SubscriptionsRoutable
    BY DEF SubscriptionsRoutable, RouteInv
  <2> QED
    BY <2>1, <2>2, <2>3 DEF GroupSound
<1> QED
  BY <1>1, GroupInductive, PTL

\* For any number of requests at once: a member has at most one stream, its lease is
\* neither leaked nor released twice, it counts as Streaming while the stream is open,
\* and the stream reads from stored cursors.  Once it has nothing left to observe it
\* reads its member's partitions and no other, except those that a rebalance took from
\* or gave to the member between the read of the subscription and the opening of the
\* stream, which it goes on reading, or leaves unread (delivery.rs:650, session.rs:101)
\* (SessionsSound; InProcessStreamLeases, subscribe, on_stream_closed, apply).
THEOREM SessionsCorrect == GroupSpec => []SessionsSound
<1>1. ASSUME GroupInv PROVE SessionsSound
  <2> USE <1>1 DEF GroupInv
  <2>1. StreamingWhileOpen
    BY DEF StreamingWhileOpen, RecordInv
  <2>2. SettledReads
    <3> SUFFICES ASSUME NEW c \in Calls, call[c].at = "Streaming",
                        call[c].current = watch[call[c].sub]
                 PROVE  call[c].read \ call[c].stale = entry[call[c].sub].assigned \ call[c].unread
      BY DEF SettledReads
    <3>1. call[c].sub \in Subs /\ Tracks(call[c])
      BY DEF RecordInv, GroupTypeOK
    <3> QED
      BY <3>1 DEF WatchInv, Tracks
  <2>3. ReadsAreSeeded
    BY DEF ReadsAreSeeded, RecordInv
  <2> QED
    BY <2>1, <2>2, <2>3 DEF SessionsSound
<1> QED
  BY <1>1, GroupInductive, PTL

\* Neither a sweep nor another member's JOIN takes out a member whose stream is open:
\* only its own LEAVE does (OnlyLeaveEndsStreams; join, sweep, leave).
THEOREM StreamsEndByLeave == GroupSpec => OnlyLeaveEndsStreams
<1> DEFINE Ends(s) ==
        (\E c \in Calls : call[c].at \in Open /\ call[c].sub = s)
        => \E c \in Calls : call[c].at = "leave" /\ call[c].sub = s /\ call'[c].at = "clear"
<1>1. ASSUME GroupInv, [GroupNext /\ UNCHANGED deploy]_<<groupVars, deploy>>
      PROVE  [\A s \in members \ members' : Ends(s)]_groupVars
  <2> USE <1>1 DEF GroupInv
  <2>0. SUFFICES ASSUME GroupNext, NEW s \in members \ members' PROVE Ends(s)
    BY DEF groupVars
  <2>1. \A c \in Calls : call[c].at \in Open /\ call[c].sub = s => entry[s].state = "Streaming"
    BY DEF RecordInv
  <2>2. ASSUME NEW c \in Calls, Join(c) PROVE Ends(s)
    <3>1. members' = (members \ Evicted) \cup {call[c].sub}
      BY <2>2 DEF Join, Regroup
    <3>2. entry[s].state # "Streaming"
      BY <3>1 DEF Evicted
    <3> QED
      BY <2>1, <3>2
  <2>3. ASSUME NEW c \in Calls, Leave(c) PROVE Ends(s)
    <3>1. members' = members \ {call[c].sub} /\ call[c].at = "leave"
      BY <2>3 DEF Leave, Regroup
    <3>2. call'[c].at = "clear"
      BY <2>3 DEF Leave, Idle, GroupTypeOK
    <3> QED
      BY <3>1, <3>2
  <2>4. CASE Sweep
    <3>1. members' = members \ Overdue
      BY <2>4 DEF Sweep, Regroup
    <3>2. entry[s].state # "Streaming"
      BY <3>1 DEF Overdue
    <3> QED
      BY <2>1, <3>2
  <2>5. CASE SweeperClear \/ \E m \in Subs : Expire(m)
    BY <2>5 DEF SweeperClear, Expire, coordinator
  <2>6. ASSUME NEW c \in Calls, Request(c) PROVE members' = members
    BY <2>6 DEF Request, JoinFind, LeaveFind, StreamFind, SeekFind, DeleteFind, coordinator
  <2>7. ASSUME NEW c \in Calls, Handle(c), ~Join(c), ~Leave(c) PROVE members' = members
    BY <2>7 DEF Handle, JoinMarkSubscription, JoinMarkGroup, LeaveGone, ClearMarker, Cleared,
       DeleteCheck, DeleteRow, StreamCursors, StreamLease, StreamSubscribe, StreamRefused,
       StreamOpen, SeekCheckLease, SeekFence, SeekDone, SeekFailed, SeekPut, coordinator
  <2>8. ASSUME NEW c \in Calls,
               Session(c) \/ SessionTeardown(c) \/ Disconnect(c) \/ AbandonRequest(c)
        PROVE  members' = members
    BY <2>8 DEF Session, SessionBaseline, SessionObserve, SessionEnd, SessionDropped,
       SessionTeardown, Disconnect, AbandonRequest, Drop, coordinator
  <2> QED
    BY <2>0, <2>2, <2>3, <2>4, <2>5, <2>6, <2>7, <2>8 DEF GroupNext
<1>2. OnlyLeaveEndsStreams <=> [][\A s \in members \ members' : Ends(s)]_groupVars
  BY DEF OnlyLeaveEndsStreams
<1> HIDE DEF Ends
<1> QED
  BY <1>1, <1>2, GroupInductive, PTL DEF GroupSpec
=============================================================================
