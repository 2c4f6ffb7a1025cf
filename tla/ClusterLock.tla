----------------------------- MODULE ClusterLock -----------------------------
(***************************************************************************)
(* The distributed lock over the cluster lease: try_lock, the blocking     *)
(* lock() with its wait loop, the guard's renew and release, and the token *)
(* half of the same trait (acquire, renew, release), which a remote client *)
(* uses under its own identity.                                            *)
(*                                                                         *)
(* A guard draws a fresh owner for its acquisition and its task runs one   *)
(* command at a time; a remote client keeps one owner.  A deployment       *)
(* says which of the two is in use (fresh), whether the cache serves exact *)
(* watches, and how many calls are issued (calls, a bound).                *)
(***************************************************************************)
EXTENDS ClusterLease

CONSTANTS
    Clients,        \* holders, and waiters, of the lock
    OwnerOf,        \* the owner a remote client keeps
    Patience,       \* lock()'s timeout
    MaxResets,      \* MAX_CONSECUTIVE_WATCH_RESETS
    MaxCalls        \* bound: calls issued, in every deployment

ASSUME LockAssumption ==
    /\ Requests = Clients
    /\ OwnerOf \in [Clients -> Owners]
    /\ \A c, d \in Clients : OwnerOf[c] = OwnerOf[d] => c = d
    /\ \A d \in Deployments :
        d.fresh \in BOOLEAN /\ d.watches \in BOOLEAN /\ d.calls \in 0 .. MaxCalls
    /\ Patience \in Nat \ {0}
    /\ MaxResets \in Nat \ {0}
    /\ MaxCalls \in Nat

VARIABLES
    held,       \* the token each client believes it holds
    used,       \* owners drawn so far
    blocking,   \* requests that are lock() calls
    wake,       \* when a sleeping lock() stops waiting by itself
    giveUp,     \* when its timeout runs out
    feed,       \* requests with a watch event on its way, or waiting for them
    resets,     \* consecutive watches that ended at once
    calls,      \* calls issued
    shutdown    \* the backend's cancellation token

waitVars == <<blocking, wake, giveUp, feed, resets>>
lockVars == <<held, used, waitVars, calls, shutdown>>
vars == <<leaseVars, lockVars>>

Idle(r) == pc[r] = "idle"

Init ==
    /\ LeaseInit
    /\ held = [c \in Clients |-> NoToken]
    /\ used = {}
    /\ blocking = {}
    /\ wake = [r \in Requests |-> 0]
    /\ giveUp = [r \in Requests |-> 0]
    /\ feed = {}
    /\ resets = [r \in Requests |-> 0]
    /\ calls = 0
    /\ shutdown = FALSE

\* A write to the key reaches every lock() that is subscribed.
Notify == feed' = IF deploy.watches /\ rec' # rec THEN feed \cup blocking ELSE feed

-----------------------------------------------------------------------------
(* Calls.                                                                  *)

Call(r) == Idle(r) /\ calls < deploy.calls /\ calls' = calls + 1

MayDraw(r, o) ==
    IF deploy.fresh
    THEN o \notin used /\ held[r] = NoToken
    ELSE o = OwnerOf[r]

TryLock(r, o) ==
    /\ Call(r) /\ MayDraw(r, o)
    /\ StartAcquire(r, o)
    /\ used' = used \cup {o}
    /\ UNCHANGED <<held, waitVars, shutdown>>

\* lock() subscribes before its first attempt.
Lock(r, o) ==
    /\ Call(r) /\ MayDraw(r, o)
    /\ ~shutdown
    /\ now + Patience <= deploy.horizon
    /\ StartAcquire(r, o)
    /\ used' = used \cup {o}
    /\ blocking' = blocking \cup {r}
    /\ giveUp' = [giveUp EXCEPT ![r] = now + Patience]
    /\ resets' = [resets EXCEPT ![r] = 0]
    /\ feed' = feed \ {r}
    /\ UNCHANGED <<held, wake, shutdown>>

Renew(r) ==
    /\ Call(r)
    /\ held[r] # NoToken
    /\ StartRenew(r, held[r])
    /\ UNCHANGED <<held, used, waitVars, shutdown>>

\* The caller stops acting as the holder when it asks for the release.
Release(r) ==
    /\ Call(r)
    /\ held[r] # NoToken
    /\ StartRelease(r, held[r])
    /\ held' = [held EXCEPT ![r] = NoToken]
    /\ UNCHANGED <<used, waitVars, shutdown>>

\* A guard that is dropped does no I/O: its lease lapses.
Drop(c) ==
    /\ held[c] # NoToken /\ Idle(c)
    /\ held' = [held EXCEPT ![c] = NoToken]
    /\ UNCHANGED <<leaseVars, used, waitVars, calls, shutdown>>

-----------------------------------------------------------------------------
(* Answers.                                                                *)

\* What client c holds once request r has its answer.
After(r) ==
    IF pc[r] \in {"acquired", "renewed"} THEN tok[r]
    ELSE IF pc[r] = "expired" /\ held[r].tenure = tok[r].tenure THEN NoToken
    ELSE held[r]

Return(r) ==
    /\ Finish(r)
    /\ blocking' = blocking \ {r}
    /\ feed' = feed \ {r}
    /\ wake' = [wake EXCEPT ![r] = 0]
    /\ giveUp' = [giveUp EXCEPT ![r] = 0]
    /\ resets' = [resets EXCEPT ![r] = 0]

Answer(r) ==
    /\ pc[r] \in Answered
    /\ pc[r] = "contended" => r \notin blocking
    /\ held' = [held EXCEPT ![r] = After(r)]
    /\ Return(r)
    /\ UNCHANGED <<used, calls, shutdown>>

-----------------------------------------------------------------------------
(* wait_for_lease.                                                         *)

Least(a, b) == IF a <= b THEN a ELSE b

Sleep(r, w) ==
    /\ pc' = [pc EXCEPT ![r] = "asleep"]
    /\ wake' = [wake EXCEPT ![r] = w]
    /\ snap' = [snap EXCEPT ![r] = NoRecord]
    /\ due' = [due EXCEPT ![r] = 0]
    /\ lapse' = [lapse EXCEPT ![r] = Never]
    /\ UNCHANGED <<now, rec, writes, tok, tries, blocking, giveUp, feed, resets>>

\* Mutant: the wait is not bounded by the caller's patience.
ContendForever(r) ==
    /\ pc[r] = "contended" /\ r \in blocking
    /\ IF giveUp[r] <= now THEN Return(r) ELSE Sleep(r, lapse[r])
    /\ UNCHANGED <<held, used, calls, shutdown>>

\* Contended: time out, or wait until the incumbent lapses or patience ends.
\* Without a watch the wait is cut into polls.
Contend(r) ==
    /\ pc[r] = "contended" /\ r \in blocking
    /\ LET limit == Least(giveUp[r], lapse[r]) IN
       IF giveUp[r] <= now THEN Return(r)
       ELSE \/ Sleep(r, limit)
            \/ ~deploy.watches /\ \E w \in now + 1 .. limit : Sleep(r, w)
    /\ UNCHANGED <<held, used, calls, shutdown>>

\* The loop's top: abandon at shutdown, otherwise try again.
Retry(r, n, pending) ==
    IF shutdown THEN Return(r)
    ELSE /\ StartAcquire(r, tok[r].owner)
         /\ feed' = pending
         /\ wake' = [wake EXCEPT ![r] = 0]
         /\ resets' = [resets EXCEPT ![r] = n]
         /\ UNCHANGED <<blocking, giveUp>>

WakeOnEvent(r) ==
    /\ pc[r] = "asleep" /\ r \in feed
    /\ Retry(r, 0, feed \ {r})
    /\ UNCHANGED <<held, used, calls, shutdown>>

\* The wait ran out: the caller's patience, or the incumbent's deadline.
WakeOnElapse(r) ==
    /\ pc[r] = "asleep"
    /\ wake[r] <= now
    /\ IF wake[r] = giveUp[r] THEN Return(r) ELSE Retry(r, 0, feed)
    /\ UNCHANGED <<held, used, calls, shutdown>>

\* The watch closed with an error, or another subscription was refused.
WatchClosed(r) ==
    /\ deploy.watches
    /\ pc[r] = "asleep"
    /\ Return(r)
    /\ UNCHANGED <<held, used, calls, shutdown>>

\* Mutant: a new subscription goes straight back to waiting.
StreamEndedSleepsOn(r) ==
    /\ deploy.watches
    /\ pc[r] = "asleep"
    /\ feed' = feed \ {r}
    /\ UNCHANGED <<leaseVars, held, used, calls, shutdown, blocking, wake, giveUp, resets>>

\* The stream ended: subscribe again, unless it keeps ending at once.
StreamEnded(r) ==
    /\ deploy.watches
    /\ pc[r] = "asleep"
    /\ \E n \in {0, resets[r] + 1} :
        IF n = MaxResets THEN Return(r) ELSE Retry(r, n, feed \ {r})
    /\ UNCHANGED <<held, used, calls, shutdown>>

ShutdownWakes(r) ==
    /\ shutdown
    /\ pc[r] = "asleep"
    /\ Return(r)
    /\ UNCHANGED <<held, used, calls, shutdown>>

\* revoke: waiters give up, held locks stay.
Revoke ==
    /\ ~shutdown
    /\ shutdown' = TRUE
    /\ UNCHANGED <<leaseVars, held, used, waitVars, calls>>

-----------------------------------------------------------------------------
AtTheStore(r) ==
    /\ StoreStep(r)
    /\ Notify
    /\ UNCHANGED <<held, used, blocking, wake, giveUp, resets, calls, shutdown>>

Expire ==
    /\ Reap
    /\ Notify
    /\ UNCHANGED <<held, used, blocking, wake, giveUp, resets, calls, shutdown>>

Passes == Tick /\ UNCHANGED lockVars

Waiter(r) ==
    \/ Contend(r) \/ WakeOnEvent(r) \/ WakeOnElapse(r)
    \/ WatchClosed(r) \/ StreamEnded(r) \/ ShutdownWakes(r)

Next ==
    \/ \E r \in Requests :
        \/ \E o \in Owners : TryLock(r, o) \/ Lock(r, o)
        \/ Renew(r) \/ Release(r)
        \/ AtTheStore(r) \/ Answer(r) \/ Waiter(r)
    \/ \E c \in Clients : Drop(c)
    \/ Expire \/ Passes \/ Revoke

Spec == Init /\ [][Next /\ UNCHANGED deploy]_<<vars, deploy>>

\* A call that runs is polled, a timer fires, the clock moves.
FairSpec ==
    /\ Spec
    /\ WF_vars(Passes)
    /\ \A r \in Requests :
        /\ WF_vars(AtTheStore(r)) /\ WF_vars(Answer(r)) /\ WF_vars(Contend(r))
        /\ WF_vars(WakeOnElapse(r)) /\ WF_vars(WakeOnEvent(r)) /\ WF_vars(ShutdownWakes(r))

-----------------------------------------------------------------------------
TypeOK ==
    /\ LeaseTypeOK
    /\ held \in [Clients -> Tokens]
    /\ used \subseteq Owners
    /\ blocking \subseteq Requests /\ feed \subseteq blocking
    /\ wake \in [Requests -> Nat] /\ giveUp \in [Requests -> Nat]
    /\ resets \in [Requests -> Nat]
    /\ calls \in Nat /\ shutdown \in BOOLEAN

\* A client holds the lock as long as it believes so and the deadline that was
\* stored for it has not come.
Holds(c) == held[c] # NoToken /\ now < held[c].until

\* Two clients never hold the lock at the same time (lock.rs: "TTL-bounded mutual
\* exclusion").  A renewal whose write comes after its lease has lapsed can break
\* it: the write compares the version alone, and a key that was stolen, released
\* and created anew meanwhile has the version that was read.
Exclusive == \A c, d \in Clients : Holds(c) /\ Holds(d) => c = d

\* Mutual exclusion where renewals are prompt, however acquisitions, steals,
\* renewals, releases, reaps and lost answers interleave (lease.rs, try_acquire
\* and renew).
OneHolder == TypeOK /\ (deploy.prompt => Exclusive)

\* A live lease changes hands only through its holder: as long as it is live
\* nobody else's write replaces it.
NoLiveTheft ==
    rec.owner \in Owners /\ rec.deadline > now /\ rec'.tenure # rec.tenure => rec' = NoRecord

\* The fence tells the tenures under one key apart: a record that is replaced,
\* not deleted, has a higher fence when its tenure changes and the same when not.
FenceTellsTenures ==
    rec # NoRecord /\ rec' # NoRecord
        => \/ rec'.tenure = rec.tenure /\ rec'.fence = rec.fence
           \/ rec'.tenure > rec.tenure /\ rec'.fence > rec.fence

\* Only the holder's own release, or the retention's end, removes a record.  A
\* guard's owner is its tenure's; a remote client's token of an earlier tenure
\* can name its later one, which has the same owner and the same first fence.
OnlyOwnReleaseRemoves ==
    rec # NoRecord /\ rec' = NoRecord
        => \/ rec.reap <= now
           \/ \E r \in Requests :
                /\ pc[r] = "delete" /\ tok[r].owner = rec.owner
                /\ deploy.fresh => tok[r].tenure = rec.tenure

\* What no write to the stored record may do, of whichever tenure it is (lease.rs,
\* release; and, where renewals are prompt, try_acquire and renew).
TenuresKept ==
    [][/\ OnlyOwnReleaseRemoves
       /\ deploy.prompt => NoLiveTheft /\ FenceTellsTenures]_vars

\* A lock() never sleeps on a name that nobody holds: the release that freed it
\* is in its feed, even if it fell between the failed claim and the wait.
NoSleepOnFreeName ==
    \A r \in Requests :
        deploy.watches /\ pc[r] = "asleep" /\ r \notin feed => rec # NoRecord

\* Every lock() returns, with the lock, a timeout or an error: no wait outlives
\* its timeout, and shutdown ends every wait.
LockReturns ==
    \A r \in Requests : r \in blocking ~> r \notin blocking
=============================================================================
