----------------------------- MODULE CoordLease -----------------------------
(***************************************************************************)
(* The lease that lets one replica at a time run a job: one row of a table *)
(* with a holder, an expiry and a forensic count of attempts.              *)
(*                                                                         *)
(* The repository has it twice.  library = "coord" is the shared crate of  *)
(* the billing gears; library = "am" is the original in the account        *)
(* management gear, whose only user is the hierarchy-integrity tick.  They *)
(* differ in the free slot's INSERT and in the fence of with_ack_in_tx,    *)
(* and each difference is an action of its own.  No step changes library.  *)
(*                                                                         *)
(* A guard is one acquire with its fresh UUID, so it lives once: acquire,  *)
(* read-only check, fenced work or not, release.  Its heartbeat runs       *)
(* beside it.  Transactions are SERIALIZABLE: they read a snapshot, and    *)
(* the first to update a row wins (the other fails with 40001 and the      *)
(* retry helper runs it again).  Single statements read the current row    *)
(* and wait for a lock on it, with NOW() fixed when they start.            *)
(***************************************************************************)
EXTENDS Integers, FiniteSets

CONSTANTS
    Guards,     \* acquire calls, each with a UUID of its own
    None,       \* locked_by IS NULL
    Ttl,        \* the lease's time to live
    Drifts,     \* how far a worker's clock may be off the database's
    MaxTries,   \* DEFAULT_TX_RETRY_ATTEMPTS
    MaxClock,   \* bound: the database clock
    Libraries   \* the copies in use

ASSUME LeaseAssumption ==
    /\ None \notin Guards
    /\ Ttl \in Nat \ {0}
    /\ Drifts \subseteq Int
    /\ MaxTries \in Nat \ {0}
    /\ MaxClock \in Nat \ {0}
    /\ Libraries \subseteq {"coord", "am"}

VARIABLES
    library,    \* which of the two copies
    row,        \* [is, by, until, attempts]
    lock,       \* the guard whose open transaction has updated the row
    now,        \* the database's clock
    pc,         \* where each guard is
    tries,      \* attempts of its transaction
    snap,       \* the row as its transaction sees it
    at,         \* NOW() of its transaction
    stale,      \* guards whose snapshot of the row is no longer current
    hb,         \* its heartbeat task
    hbAt,       \* NOW() of the heartbeat's statement
    owner,      \* history: the guard that claimed the row last
    commits     \* history: fenced commits, <<by, owner at that moment>>

vars == <<row, lock, now, pc, tries, snap, at, stale, hb, hbAt, owner, commits>>

Epoch == 0
NoRow == [is |-> FALSE, by |-> None, until |-> Epoch, attempts |-> 0]
Rows == [is : BOOLEAN, by : Guards \cup {None}, until : Int, attempts : Nat]

InTx == {"acq", "ack", "fenced"}
Working == {"new", "acq", "held", "reack", "ack", "fenced", "clean", "acked", "failed", "lost"}
States == Working \cup {"refused", "done", "dead"}

Init ==
    /\ library \in Libraries
    /\ row = NoRow
    /\ lock = None
    /\ now = 1
    /\ pc = [g \in Guards |-> "new"]
    /\ tries = [g \in Guards |-> 0]
    /\ snap = [g \in Guards |-> NoRow]
    /\ at = [g \in Guards |-> 0]
    /\ stale = {}
    /\ hb = [g \in Guards |-> "off"]
    /\ hbAt = [g \in Guards |-> 0]
    /\ owner = None
    /\ commits = {}

\* A committed write of the row by g: the snapshots of the others are old.
Write(g, r) ==
    /\ row' = r
    /\ stale' = {h \in Guards : pc[h] \in InTx} \ {g}

Go(g, s) == pc' = [pc EXCEPT ![g] = s]

\* BEGIN and the first statement, which fixes the snapshot.
Begin(g, s) ==
    /\ Go(g, s)
    /\ tries' = [tries EXCEPT ![g] = @ + 1]
    /\ snap' = [snap EXCEPT ![g] = row]
    /\ at' = [at EXCEPT ![g] = now]
    /\ stale' = stale \ {g}

\* The end of a transaction, by COMMIT or ROLLBACK.
End(g, s) ==
    /\ Go(g, s)
    /\ snap' = [snap EXCEPT ![g] = NoRow]
    /\ at' = [at EXCEPT ![g] = 0]

Rollback(g, s) ==
    /\ End(g, s)
    /\ stale' = stale \ {g}
    /\ lock' = IF lock = g THEN None ELSE lock
    /\ tries' = [tries EXCEPT ![g] = 0]
    /\ UNCHANGED <<row, now, hb, hbAt, owner, commits>>

\* 40001: transaction_with_retry runs the body again or gives up.
Retry(g, again, giveUp) ==
    /\ End(g, IF tries[g] < MaxTries THEN again ELSE giveUp)
    /\ tries' = [tries EXCEPT ![g] = IF @ < MaxTries THEN @ ELSE 0]
    /\ stale' = stale \ {g}
    /\ UNCHANGED <<row, lock, now, hb, hbAt, owner, commits>>

(***************************************************************************)
(* LeaseManager::acquire                                                   *)
(***************************************************************************)
BeginAcquire(g) ==
    /\ pc[g] = "new"
    /\ Begin(g, "acq")
    /\ UNCHANGED <<row, lock, now, hb, hbAt, owner, commits>>

\* The row reads as live on the worker's clock: LeaseHeld.
SeenLive(g) ==
    /\ pc[g] = "acq" /\ snap[g].is
    /\ \E d \in Drifts : snap[g].until > now + d
    /\ Rollback(g, "refused")

\* The commit of a claim.  Its reply may be lost: then nobody knows of the lease.
Claim(g, until, attempts) ==
    /\ Write(g, [is |-> TRUE, by |-> g, until |-> until, attempts |-> attempts])
    /\ owner' = g
    /\ \/ End(g, "held") /\ hb' = [hb EXCEPT ![g] = "on"]
       \/ End(g, "done") /\ UNCHANGED hb
    /\ tries' = [tries EXCEPT ![g] = 0]
    /\ UNCHANGED <<lock, now, hbAt, commits>>

FreeSlot(g) == pc[g] = "acq" /\ ~snap[g].is /\ ~row.is

\* Mutant: the free slot's expiry is stamped by the worker.
InsertEpochWorkerClock(g) ==
    /\ library = "coord" /\ FreeSlot(g)
    /\ \E d \in Drifts : Claim(g, now + d + Ttl, 1)

\* coord: INSERT the epoch sentinel, then claim it on the database's clock.
InsertEpoch(g) ==
    /\ library = "coord" /\ FreeSlot(g)
    /\ Claim(g, at[g] + Ttl, 1)

\* am: INSERT an expiry computed on the worker's clock.
InsertWorkerClock(g) ==
    /\ library = "am" /\ FreeSlot(g)
    /\ \E d \in Drifts : Claim(g, now + d + Ttl, 1)

\* A peer inserted first: unique violation, LeaseHeld.
InsertTaken(g) ==
    /\ pc[g] = "acq" /\ ~snap[g].is /\ row.is
    /\ Rollback(g, "refused")

\* Expired on the worker's clock; the UPDATE asks the database's again.
SeenExpired(g) ==
    /\ pc[g] = "acq" /\ snap[g].is
    /\ \E d \in Drifts : snap[g].until <= now + d

\* Mutant: the steal trusts the worker's reading of the expiry.
ExpiredUnchecked(g) == TRUE

Expired(g) == snap[g].until < at[g]

ClaimExpired(g) ==
    /\ SeenExpired(g) /\ Expired(g)
    /\ g \notin stale /\ lock = None
    /\ Claim(g, at[g] + Ttl, row.attempts + 1)

ClaimNothing(g) ==
    /\ SeenExpired(g) /\ ~Expired(g)
    /\ Rollback(g, "refused")

\* The row changed under the transaction: 40001.
AcquireConflict(g) ==
    /\ pc[g] = "acq" /\ g \in stale
    /\ Retry(g, "new", "refused")

(***************************************************************************)
(* spawn_renewal: renew_once every period, one statement each              *)
(***************************************************************************)
SendRenew(g) ==
    /\ hb[g] = "on"
    /\ hb' = [hb EXCEPT ![g] = "sent"]
    /\ hbAt' = [hbAt EXCEPT ![g] = now]
    /\ UNCHANGED <<row, lock, now, pc, tries, snap, at, stale, owner, commits>>

Renewable(g) == row.by = g /\ row.until > hbAt[g]

ApplyRenew(g) ==
    /\ hb[g] = "sent" /\ lock = None
    /\ IF Renewable(g)
         THEN Write(None, [row EXCEPT !.until = hbAt[g] + Ttl])
         ELSE UNCHANGED <<row, stale>>
    /\ hb' = [hb EXCEPT ![g] = IF pc[g] = "dead" THEN "off"
                               ELSE IF Renewable(g) THEN "on" ELSE "lost"]
    /\ hbAt' = [hbAt EXCEPT ![g] = 0]
    /\ UNCHANGED <<lock, now, pc, tries, snap, at, owner, commits>>

\* A transient failure is logged; the next tick tries again.
FailRenew(g) ==
    /\ hb[g] = "sent"
    /\ hb' = [hb EXCEPT ![g] = IF pc[g] = "dead" THEN "off" ELSE "on"]
    /\ hbAt' = [hbAt EXCEPT ![g] = 0]
    /\ UNCHANGED <<row, lock, now, pc, tries, snap, at, stale, owner, commits>>

\* RenewalHandle::shutdown: it waits for a statement under way.
StopHeartbeat(g) ==
    /\ pc[g] \in {"clean", "acked", "failed", "lost"} /\ hb[g] = "on"
    /\ hb' = [hb EXCEPT ![g] = "off"]
    /\ UNCHANGED <<row, lock, now, pc, tries, snap, at, stale, hbAt, owner, commits>>

(***************************************************************************)
(* The holder's work: a check that only reads, then with_ack_in_tx         *)
(***************************************************************************)
Checked(g) ==
    /\ pc[g] = "held"
    /\ Go(g, "clean") \/ Go(g, "failed")
    /\ UNCHANGED <<row, lock, now, tries, snap, at, stale, hb, hbAt, owner, commits>>

BeginAck(g) ==
    /\ pc[g] \in {"held", "reack"}
    /\ Begin(g, "ack")
    /\ UNCHANGED <<row, lock, now, hb, hbAt, owner, commits>>

WorkFails(g) ==
    /\ pc[g] = "ack"
    /\ Rollback(g, "failed")

\* Mutant: the fence compares with the transaction's start.
FenceNowStart(g) == at[g]

\* The instant the fence compares with: clock_timestamp(), or NOW().
FenceNow(g) == IF library = "coord" THEN now ELSE at[g]

FenceMatches(g) == snap[g].by = g /\ snap[g].until > FenceNow(g)

\* Mutant: the fence as a plain SELECT.
FenceUpdateReads(g) ==
    /\ library = "coord"
    /\ pc[g] = "ack" /\ FenceMatches(g)
    /\ Go(g, "fenced")
    /\ UNCHANGED <<row, lock, now, tries, snap, at, stale, hb, hbAt, owner, commits>>

\* coord: an UPDATE that changes nothing, but locks the row until COMMIT.
FenceUpdate(g) ==
    /\ library = "coord"
    /\ pc[g] = "ack" /\ FenceMatches(g)
    /\ g \notin stale /\ lock = None
    /\ lock' = g
    /\ Go(g, "fenced")
    /\ UNCHANGED <<row, now, tries, snap, at, stale, hb, hbAt, owner, commits>>

\* am: a SELECT, which reads the snapshot and locks nothing.
FenceSelect(g) ==
    /\ library = "am"
    /\ pc[g] = "ack" /\ FenceMatches(g)
    /\ Go(g, "fenced")
    /\ UNCHANGED <<row, lock, now, tries, snap, at, stale, hb, hbAt, owner, commits>>

\* No row: AckError::LeaseLost, never retried.
FenceLost(g) ==
    /\ pc[g] = "ack" /\ ~FenceMatches(g)
    /\ Rollback(g, "lost")

\* 40001 at the fence; the SELECT may meet it too, but need not.
FenceConflict(g) ==
    /\ pc[g] = "ack" /\ FenceMatches(g) /\ g \in stale
    /\ Retry(g, "reack", "failed")

\* COMMIT: the work takes effect, and the reply may be lost.
Commit(g) ==
    /\ pc[g] = "fenced"
    /\ commits' = commits \cup {<<g, owner>>}
    /\ lock' = None
    /\ IF lock = g THEN Write(g, row) ELSE UNCHANGED row /\ stale' = stale \ {g}
    /\ End(g, "acked") \/ End(g, "failed")
    /\ tries' = [tries EXCEPT ![g] = 0]
    /\ UNCHANGED <<now, hb, hbAt, owner>>

\* The connection breaks before COMMIT: rolled back.
CommitFails(g) ==
    /\ pc[g] = "fenced"
    /\ Rollback(g, "failed")

(***************************************************************************)
(* release, release_with_retry and the ways of not releasing               *)
(***************************************************************************)
\* The UPDATE names the holder; without a row it only logs.
Freed(g) ==
    IF row.by = g
      THEN [row EXCEPT !.by = None, !.until = Epoch,
                       !.attempts = IF pc[g] = "failed" THEN @ ELSE 0]
      ELSE row

Release(g) ==
    /\ pc[g] \in {"clean", "acked", "failed"} /\ hb[g] \in {"off", "lost"}
    /\ lock = None
    /\ IF Freed(g) # row THEN Write(None, Freed(g)) ELSE UNCHANGED <<row, stale>>
    /\ Go(g, "done")
    /\ UNCHANGED <<lock, now, tries, snap, at, hb, hbAt, owner, commits>>

\* The release fails, or the lease was lost: the TTL frees the slot.
Abandon(g) ==
    /\ pc[g] \in {"clean", "acked", "failed", "lost"} /\ hb[g] \in {"off", "lost"}
    /\ Go(g, "done")
    /\ UNCHANGED <<row, lock, now, tries, snap, at, stale, hb, hbAt, owner, commits>>

\* The process dies; a statement of the heartbeat may still arrive.
Crash(g) ==
    /\ pc[g] \in Working
    /\ End(g, "dead")
    /\ lock' = IF lock = g THEN None ELSE lock
    /\ stale' = stale \ {g}
    /\ tries' = [tries EXCEPT ![g] = 0]
    /\ hb' = [hb EXCEPT ![g] = IF @ = "on" THEN "off" ELSE @]
    /\ UNCHANGED <<row, now, hbAt, owner, commits>>

Tick ==
    /\ now < MaxClock
    /\ now' = now + 1
    /\ UNCHANGED <<row, lock, pc, tries, snap, at, stale, hb, hbAt, owner, commits>>

Next ==
    \/ \E g \in Guards :
        \/ BeginAcquire(g) \/ SeenLive(g) \/ InsertEpoch(g) \/ InsertWorkerClock(g)
        \/ InsertTaken(g) \/ ClaimExpired(g) \/ ClaimNothing(g) \/ AcquireConflict(g)
        \/ SendRenew(g) \/ ApplyRenew(g) \/ FailRenew(g) \/ StopHeartbeat(g)
        \/ Checked(g) \/ BeginAck(g) \/ WorkFails(g) \/ FenceUpdate(g) \/ FenceSelect(g)
        \/ FenceLost(g) \/ FenceConflict(g) \/ Commit(g) \/ CommitFails(g)
        \/ Release(g) \/ Abandon(g) \/ Crash(g)
    \/ Tick

Spec == Init /\ [][Next /\ UNCHANGED library]_<<vars, library>>

(***************************************************************************)
(* Properties                                                              *)
(***************************************************************************)
TypeOK ==
    /\ row \in Rows
    /\ lock \in Guards \cup {None}
    /\ lock # None => pc[lock] = "fenced"
    /\ now \in Nat
    /\ pc \in [Guards -> States]
    /\ tries \in [Guards -> Nat]
    /\ snap \in [Guards -> Rows]
    /\ at \in [Guards -> Nat]
    /\ stale \subseteq Guards
    /\ hb \in [Guards -> {"off", "on", "sent", "lost"}]
    /\ hbAt \in [Guards -> Nat]
    /\ owner \in Guards \cup {None}
    /\ commits \subseteq Guards \X (Guards \cup {None})

\* No work of an old holder takes effect after a peer's takeover, however long
\* its transaction had been open: a fenced commit belongs to the guard that
\* claimed the lease last.  Both copies promise it (with_ack_in_tx of guard.rs).
\* The shared copy keeps it; the SELECT of the account management copy does not,
\* which is an expected violation.
WorkInTenure == \A c \in commits : c[1] = c[2]

\* The shared copy's fence keeps its promise.
FencedInTenure == library = "coord" => WorkInTenure

\* The fence lets no work through whose lease has run out on the database's
\* clock by the time the fence is asked (guard.rs, live_filter_clock).
FenceSeesExpiry ==
    [][library = "coord" => \A g \in Guards : pc[g] = "ack" /\ pc'[g] = "fenced" => row.until > now]_vars

\* The row changes hands only when the lease had run out on the database's
\* clock, whatever the clocks of the workers say (manager.rs, claim_expired_slot).
NoLiveTheft == \A g \in Guards : row.by = g /\ row'.by \notin {g, None} => row.until < now

\* A lease is freed by its holder alone, and the streak of attempts is reset
\* only by a holder whose work went well (guard.rs, release_impl).
OnlyOwnerFrees ==
    /\ \A g \in Guards : row.by = g /\ row'.by = None => pc[g] # "done" /\ pc'[g] = "done"
    /\ row'.attempts < row.attempts => row.by # None /\ pc[row.by] \in {"clean", "acked"}

\* The row passes from one tenure to the next only by expiry or by its holder.
RowChangesHands == [][NoLiveTheft /\ OnlyOwnerFrees]_vars

\* No lease outlasts its TTL on the database's clock, so a holder that dies
\* blocks its peers for one TTL at most (manager.rs, ttl_expr); with the copy
\* that inserts on the worker's clock, for as much longer as that clock is ahead.
WithinTtl ==
    \E d \in {0} \cup (IF library = "coord" THEN {} ELSE Drifts) : row.until <= now + Ttl + d

\* A heartbeat that has reported Lost is right for good: its guard does not
\* hold a live lease and never will again (guard.rs, spawn_renewal).
LostIsFinal == \A g \in Guards : hb[g] = "lost" => row.by # g \/ row.until <= now

\* What a guard and its peers may conclude from the row: nobody is blocked for
\* longer than a TTL, and a lease reported as lost stays lost.
LeaseSound == TypeOK /\ WithinTtl /\ LostIsFinal
=============================================================================
