--------------------------- MODULE ClusterElection ---------------------------
(***************************************************************************)
(* Leader election over the cluster lease: the task behind one LeaderWatch *)
(* enrols under a fresh owner, holds leadership by renewing on a timer,    *)
(* follows the cache's watch, and tells its consumer what it believes.     *)
(*                                                                         *)
(* A candidate is one enrolment; its task runs one store operation at a    *)
(* time, and doing[t] says what the operation is for.  An operation that   *)
(* the watch set off leaves the timer alone, one that the timer set off    *)
(* arms it again when it is done.                                          *)
(*                                                                         *)
(* A deployment says which candidates enrol, and what may happen to a task *)
(* besides: resign, crash, shutdown, a watch that is cut, an error that is *)
(* not retryable (events).                                                 *)
(*                                                                         *)
(* Timers fire when they are due and answers are handled at once; a store  *)
(* call takes at most Stall.                                               *)
(***************************************************************************)
EXTENDS ClusterLease

CONSTANTS
    Candidates,     \* enrolments
    OwnerOf,        \* the id each draws
    MaxMissed       \* max_missed_renewals

ASSUME ElectionAssumption ==
    /\ Requests = Candidates
    /\ OwnerOf \in [Candidates -> Owners]
    /\ \A t, u \in Candidates : OwnerOf[t] = OwnerOf[u] => t = u
    /\ MaxMissed \in Nat \ {0}
    /\ \A d \in Deployments :
        /\ d.enrols \subseteq Candidates
        /\ d.events \subseteq {"resign", "crash", "shutdown", "cut", "fatal"}

VARIABLES
    phase,      \* out, on, leaving, ended
    doing,      \* what the store operation of a task is for
    byTimer,    \* whether its timer set it off
    began,      \* when its store call was issued
    leader,     \* am_leader
    mine,       \* the token of its claim
    armed,      \* the deadline authority
    missed,     \* consecutive renewals that failed
    tick,       \* next_tick
    seen,       \* incumbent_lapse, as the time that was left
    shown,      \* what status() answers
    feed,       \* tasks with a watch event on its way, or waiting
    watching,   \* tasks with a cache watch
    shutdown    \* the backend's cancellation token

taskVars == <<phase, doing, byTimer, began, leader, mine, armed, missed, tick, seen, shown>>
vars == <<leaseVars, taskVars, feed, watching, shutdown>>

Interval == Ttl \div (MaxMissed + 1)
Unknown == Never

Init ==
    /\ LeaseInit
    /\ phase = [t \in Candidates |-> "out"]
    /\ doing = [t \in Candidates |-> "nothing"]
    /\ byTimer = [t \in Candidates |-> FALSE]
    /\ began = [t \in Candidates |-> 0]
    /\ leader = [t \in Candidates |-> FALSE]
    /\ mine = [t \in Candidates |-> NoToken]
    /\ armed = [t \in Candidates |-> 0]
    /\ missed = [t \in Candidates |-> 0]
    /\ tick = [t \in Candidates |-> 0]
    /\ seen = [t \in Candidates |-> Unknown]
    /\ shown = [t \in Candidates |-> "Follower"]
    /\ feed = {}
    /\ watching = {}
    /\ shutdown = FALSE

Notify == feed' = IF rec' # rec THEN feed \cup watching ELSE feed

\* The task waits in its select!.
Waits(t) == phase[t] = "on" /\ pc[t] = "idle"

-----------------------------------------------------------------------------
(* The task's state after a step: one operator per helper of the code.     *)

Lesser(a, b) == IF a <= b THEN a ELSE b
Jitter(base) == 0 .. ((base + 1) \div 2)

\* Mutant: the longer of the two delays.
DelaysOfTheLonger(lead, left) ==
    LET base == IF left <= Interval THEN Interval ELSE left IN
    IF lead THEN {Interval} ELSE {base + j : j \in Jitter(base)}

\* next_renewal_delay: a follower wakes when the incumbent it saw lapses.
Delays(lead, left) ==
    LET base == Lesser(Interval, left) IN
    IF lead THEN {Interval} ELSE {base + j : j \in Jitter(base)}

\* The operation is over: back to the select!, the timer armed if it ran out.
Rest(t, lead, left) ==
    /\ Finish(t)
    /\ doing' = [doing EXCEPT ![t] = "nothing"]
    /\ seen' = [seen EXCEPT ![t] = left]
    /\ IF byTimer[t]
       THEN \E d \in Delays(lead, left) : tick' = [tick EXCEPT ![t] = now + d]
       ELSE UNCHANGED tick
    /\ byTimer' = [byTimer EXCEPT ![t] = FALSE]
    /\ began' = [began EXCEPT ![t] = 0]
    /\ UNCHANGED <<phase, feed, watching, shutdown>>

\* A store operation begins.
Begin(t, what) ==
    /\ doing' = [doing EXCEPT ![t] = what]
    /\ began' = [began EXCEPT ![t] = now]
    /\ UNCHANGED <<shutdown, watching>>

\* ensure_leader, after take_lease has armed the token.
Lead(t) ==
    /\ leader' = [leader EXCEPT ![t] = TRUE]
    /\ missed' = [missed EXCEPT ![t] = 0]
    /\ shown' = [shown EXCEPT ![t] = "Leader"]

Armed(t) ==
    /\ mine' = [mine EXCEPT ![t] = tok[t]]
    /\ armed' = [armed EXCEPT ![t] = now + Ttl]

\* What Contended said: the time that was left, or nothing.
Left(t) == IF lapse[t] = Never THEN Unknown
           ELSE IF lapse[t] > now THEN lapse[t] - now ELSE 0

\* lose_then_reclaim up to its await: the loss is shown, the token dropped.
Lose(t) ==
    /\ leader' = [leader EXCEPT ![t] = FALSE]
    /\ missed' = [missed EXCEPT ![t] = 0]
    /\ mine' = [mine EXCEPT ![t] = NoToken]
    /\ shown' = [shown EXCEPT ![t] = "Lost"]
    /\ StartAcquire(t, OwnerOf[t])
    /\ Begin(t, "reclaim")
    /\ armed' = [armed EXCEPT ![t] = 0]
    /\ UNCHANGED <<phase, tick, seen, feed>>

\* The task is over, and its state with it.
Gone(t, status) ==
    /\ phase' = [phase EXCEPT ![t] = "ended"]
    /\ shown' = [shown EXCEPT ![t] = status]
    /\ Finish(t)
    /\ doing' = [doing EXCEPT ![t] = "nothing"]
    /\ byTimer' = [byTimer EXCEPT ![t] = FALSE]
    /\ leader' = [leader EXCEPT ![t] = FALSE]
    /\ mine' = [mine EXCEPT ![t] = NoToken]
    /\ began' = [began EXCEPT ![t] = 0] /\ armed' = [armed EXCEPT ![t] = 0]
    /\ missed' = [missed EXCEPT ![t] = 0] /\ tick' = [tick EXCEPT ![t] = 0]
    /\ seen' = [seen EXCEPT ![t] = Unknown]
    /\ feed' = feed \ {t} /\ watching' = watching \ {t}
    /\ UNCHANGED shutdown

\* Teardown: release the claim if there is a token, and stop.
Leave(t, status) ==
    IF mine[t] = NoToken THEN Gone(t, IF status = "Gone" THEN "Gone" ELSE "Lost")
    ELSE /\ shown' = [shown EXCEPT ![t] = status]
         /\ phase' = [phase EXCEPT ![t] = "leaving"]
         /\ StartRelease(t, mine[t])
         /\ began' = [began EXCEPT ![t] = now]
         /\ doing' = [doing EXCEPT ![t] = "leave"]
         /\ feed' = feed \ {t} /\ watching' = watching \ {t}
         /\ byTimer' = [byTimer EXCEPT ![t] = FALSE]
         /\ UNCHANGED <<leader, mine, armed, missed, tick, seen, shutdown>>

\* close: the consumer's stream ends with an error; the snapshot stays.
Close(t) == "fatal" \in deploy.events /\ Leave(t, shown[t])

-----------------------------------------------------------------------------
(* enrol.                                                                  *)

\* It subscribes first; a cache without watches leaves the timer alone.
Enrol(t) ==
    /\ t \in deploy.enrols
    /\ phase[t] = "out" /\ doing[t] = "nothing"
    /\ ~shutdown
    /\ \E w \in {watching, watching \cup {t}} : watching' = w
    /\ StartAcquire(t, OwnerOf[t])
    /\ doing' = [doing EXCEPT ![t] = "enrol"]
    /\ began' = [began EXCEPT ![t] = now]
    /\ byTimer' = [byTimer EXCEPT ![t] = TRUE]
    /\ UNCHANGED <<phase, leader, mine, armed, missed, tick, seen, shown, feed, shutdown>>

Enrolled(t) ==
    /\ doing[t] = "enrol" /\ pc[t] \in {"acquired", "contended"}
    /\ phase' = [phase EXCEPT ![t] = "on"]
    /\ LET won == pc[t] = "acquired" IN
       /\ IF won THEN Lead(t) /\ Armed(t)
                 ELSE UNCHANGED <<leader, missed, shown, mine, armed>>
       /\ \E d \in Delays(won, Left(t)) : tick' = [tick EXCEPT ![t] = now + d]
    /\ seen' = [seen EXCEPT ![t] = Left(t)]
    /\ Finish(t)
    /\ doing' = [doing EXCEPT ![t] = "nothing"]
    /\ byTimer' = [byTimer EXCEPT ![t] = FALSE]
    /\ began' = [began EXCEPT ![t] = 0]
    /\ UNCHANGED <<feed, watching, shutdown>>

\* elect returns the error; a claim that landed nonetheless lapses.
EnrolFails(t) ==
    /\ doing[t] = "enrol" /\ pc[t] = "failed"
    /\ Gone(t, "Gone")

-----------------------------------------------------------------------------
(* renew_tick.                                                             *)

DueToRenew(t) == leader[t] /\ mine[t] # NoToken

\* Not the leader: claim, in case a vacancy went unnoticed.
TickClaim(t) ==
    /\ Waits(t) /\ tick[t] <= now /\ ~DueToRenew(t)
    /\ StartAcquire(t, OwnerOf[t])
    /\ Begin(t, "claim")
    /\ byTimer' = [byTimer EXCEPT ![t] = TRUE]
    /\ UNCHANGED <<phase, leader, mine, armed, missed, tick, seen, shown, feed>>

\* The deadline is the authority.
TickLate(t) ==
    /\ Waits(t) /\ tick[t] <= now /\ DueToRenew(t)
    /\ armed[t] <= now
    /\ byTimer' = [byTimer EXCEPT ![t] = TRUE]
    /\ Lose(t)

TickRenew(t) ==
    /\ Waits(t) /\ tick[t] <= now /\ DueToRenew(t)
    /\ now < armed[t]
    /\ StartRenew(t, mine[t])
    /\ Begin(t, "renew")
    /\ byTimer' = [byTimer EXCEPT ![t] = TRUE]
    /\ UNCHANGED <<phase, leader, mine, armed, missed, tick, seen, shown, feed>>

Renewed(t) ==
    /\ doing[t] = "renew" /\ pc[t] = "renewed"
    /\ missed' = [missed EXCEPT ![t] = 0]
    /\ Armed(t)
    /\ Rest(t, TRUE, seen[t])
    /\ UNCHANGED <<leader, shown>>

RenewRefused(t) ==
    /\ doing[t] = "renew" /\ pc[t] = "expired"
    /\ Lose(t)
    /\ UNCHANGED byTimer

\* on_transient: one more miss, and the claim is lost beyond the budget.
RenewMissed(t) ==
    /\ doing[t] = "renew" /\ pc[t] = "failed"
    /\ IF missed[t] + 1 > MaxMissed
       THEN Lose(t) /\ UNCHANGED byTimer
       ELSE /\ missed' = [missed EXCEPT ![t] = missed[t] + 1]
            /\ Rest(t, TRUE, seen[t])
            /\ UNCHANGED <<leader, mine, armed, shown>>

-----------------------------------------------------------------------------
(* claim and the second half of lose_then_reclaim.                         *)

Claimed(t) ==
    /\ doing[t] \in {"claim", "reclaim"} /\ pc[t] = "acquired"
    /\ Lead(t) /\ Armed(t)
    /\ Rest(t, TRUE, Unknown)

\* Contended, or a retryable failure: a follower until the next tick.
ClaimFails(t) ==
    /\ doing[t] \in {"claim", "reclaim"} /\ pc[t] \in {"contended", "failed"}
    /\ shown' = IF doing[t] = "reclaim" THEN [shown EXCEPT ![t] = "Follower"] ELSE shown
    /\ Rest(t, FALSE, IF pc[t] = "contended" THEN Left(t) ELSE seen[t])
    /\ UNCHANGED <<leader, mine, armed, missed>>

FailsFatally(t) ==
    /\ doing[t] \in {"claim", "reclaim", "renew"} /\ pc[t] = "failed"
    /\ Close(t)

-----------------------------------------------------------------------------
(* The watch.                                                              *)

\* An event: read the record.
Observe(t) ==
    /\ Waits(t) /\ t \in feed
    /\ pc' = [pc EXCEPT ![t] = "measure"]
    /\ snap' = [snap EXCEPT ![t] = rec]
    /\ feed' = feed \ {t}
    /\ Begin(t, "observe")
    /\ UNCHANGED <<now, rec, writes, tok, due, tries, lapse>>
    /\ UNCHANGED <<phase, byTimer, leader, mine, armed, missed, tick, seen, shown>>

LiveForeign(t) == snap[t].owner \in Owners /\ Live(snap[t])
HoldsSeen(t) == mine[t] # NoToken /\ Matches(snap[t], mine[t]) /\ Live(snap[t])

\* The record is the task's own: what the token is worth is what was read.
Reassure(t) ==
    /\ doing[t] = "observe" /\ HoldsSeen(t)
    /\ Lead(t)
    /\ mine' = [mine EXCEPT ![t].tenure = snap[t].tenure, ![t].until = snap[t].deadline]
    /\ Rest(t, TRUE, seen[t])
    /\ UNCHANGED armed

\* Somebody else's live claim: step down, and keep the token.
StepDown(t) ==
    /\ doing[t] = "observe" /\ ~HoldsSeen(t) /\ LiveForeign(t)
    /\ leader' = [leader EXCEPT ![t] = FALSE]
    /\ missed' = [missed EXCEPT ![t] = IF leader[t] THEN 0 ELSE @]
    /\ shown' = [shown EXCEPT ![t] = IF leader[t] THEN "Follower" ELSE @]
    /\ Rest(t, FALSE, snap[t].deadline - now)
    /\ UNCHANGED <<mine, armed>>

\* Mutant: a leader whose claim is gone claims again without a loss.
ObserveVacancySilently(t) ==
    /\ doing[t] = "observe" /\ ~HoldsSeen(t) /\ ~LiveForeign(t)
    /\ StartAcquire(t, OwnerOf[t])
    /\ Begin(t, "claim")
    /\ UNCHANGED <<phase, byTimer, leader, mine, armed, missed, tick, seen, shown, feed>>

\* No live claim: surface the loss first if it was ours, then claim.
ObserveVacancy(t) ==
    /\ doing[t] = "observe" /\ ~HoldsSeen(t) /\ ~LiveForeign(t)
    /\ IF leader[t] THEN Lose(t) /\ UNCHANGED byTimer
       ELSE /\ StartAcquire(t, OwnerOf[t])
            /\ Begin(t, "claim")
            /\ UNCHANGED <<phase, byTimer, leader, mine, armed, missed, tick, seen, shown, feed>>

\* The read failed: the timer will see to it, or the task closes.
ObserveFails(t) ==
    /\ deploy.faults /\ doing[t] = "observe"
    /\ \/ Rest(t, leader[t], seen[t]) /\ UNCHANGED <<leader, mine, armed, missed, shown>>
       \/ Close(t)

\* The watch ended, or closed retryably and was renewed within its budget or
\* not: events in between are lost, the claim stays.
WatchBreaks(t) ==
    /\ "cut" \in deploy.events
    /\ Waits(t) /\ t \in watching
    /\ feed' = feed \ {t}
    /\ \E w \in {watching, watching \ {t}} : watching' = w
    /\ UNCHANGED <<leaseVars, taskVars, shutdown>>

-----------------------------------------------------------------------------
(* The end of a task.                                                      *)

\* The consumer resigns or drops the watch; a watch that closed for good.
Resign(t) == "resign" \in deploy.events /\ Waits(t) /\ Leave(t, "Gone")
WatchCloses(t) == Waits(t) /\ t \in watching /\ Close(t)

\* The task returns and drops its sender: status() answers Lost.
Released(t) ==
    /\ phase[t] = "leaving" /\ pc[t] \in {"released", "failed"}
    /\ Gone(t, IF shown[t] = "Gone" THEN "Gone" ELSE "Lost")

\* Mutant: only a leader's task listens to the shutdown.
RevokedLeader(t) == shutdown /\ leader[t] /\ Waits(t) /\ Gone(t, "Lost")

\* Graceful shutdown revokes without resigning: the record stays.
Revoked(t) == shutdown /\ Waits(t) /\ Gone(t, "Lost")

Crash(t) == "crash" \in deploy.events /\ phase[t] \in {"on", "leaving"} /\ Gone(t, "Gone")

Revoke ==
    /\ "shutdown" \in deploy.events
    /\ ~shutdown /\ shutdown' = TRUE
    /\ UNCHANGED <<leaseVars, taskVars, feed, watching>>

-----------------------------------------------------------------------------
AtTheStore(t) ==
    /\ doing[t] # "observe"
    /\ StoreStep(t) /\ Notify
    /\ UNCHANGED <<taskVars, watching, shutdown>>

Expire == Reap /\ Notify /\ UNCHANGED <<taskVars, watching, shutdown>>

\* Timers and answers do not wait; a store call does, for at most Stall.
OnTime(t) ==
    /\ Waits(t) => now < tick[t]
    /\ pc[t] \notin Answered
    /\ pc[t] # "idle" => now < began[t] + Stall

Passes ==
    /\ Tick
    /\ \A t \in Candidates : OnTime(t)
    /\ UNCHANGED <<taskVars, feed, watching, shutdown>>

TaskStep(t) ==
    \/ Enrolled(t) \/ EnrolFails(t)
    \/ TickClaim(t) \/ TickLate(t) \/ TickRenew(t)
    \/ Renewed(t) \/ RenewRefused(t) \/ RenewMissed(t)
    \/ Claimed(t) \/ ClaimFails(t) \/ FailsFatally(t)
    \/ Observe(t) \/ Reassure(t) \/ StepDown(t) \/ ObserveVacancy(t) \/ ObserveFails(t)
    \/ Released(t) \/ Revoked(t)

Next ==
    \/ \E t \in Candidates :
        \/ Enrol(t) \/ AtTheStore(t) \/ TaskStep(t)
        \/ WatchBreaks(t) \/ WatchCloses(t) \/ Resign(t) \/ Crash(t)
    \/ Expire \/ Passes \/ Revoke

Spec == Init /\ [][Next /\ UNCHANGED deploy]_<<vars, deploy>>

\* The runtime polls a task that can run and the store answers; a select! with
\* several arms ready picks one at random, so shutdown is not passed over for ever.
FairSpec ==
    /\ Spec
    /\ \A t \in Candidates :
        /\ WF_vars(AtTheStore(t)) /\ WF_vars(TaskStep(t)) /\ SF_vars(Revoked(t))

-----------------------------------------------------------------------------
Doings == {"nothing", "enrol", "claim", "reclaim", "renew", "observe", "leave"}

TypeOK ==
    /\ LeaseTypeOK
    /\ phase \in [Candidates -> {"out", "on", "leaving", "ended"}]
    /\ doing \in [Candidates -> Doings]
    /\ byTimer \in [Candidates -> BOOLEAN] /\ leader \in [Candidates -> BOOLEAN]
    /\ began \in [Candidates -> Nat] /\ armed \in [Candidates -> Nat]
    /\ tick \in [Candidates -> Nat] /\ seen \in [Candidates -> Nat]
    /\ missed \in [Candidates -> 0 .. MaxMissed]
    /\ mine \in [Candidates -> Tokens]
    /\ shown \in [Candidates -> {"Follower", "Leader", "Lost", "Gone"}]
    /\ feed \subseteq watching /\ watching \subseteq Candidates
    /\ shutdown \in BOOLEAN

\* One leader by the lease: where renewals are prompt, and until the stored
\* deadline comes, the record is the leader's own, whatever the other candidates,
\* the watch and the timers do (leader.rs, take_lease and observe).
LeaderIsStored ==
    /\ TypeOK
    /\ deploy.prompt =>
        \A t \in Candidates :
            phase[t] = "on" /\ leader[t] /\ now < mine[t].until
                => Matches(rec, mine[t]) /\ rec.tenure = mine[t].tenure

\* A consumer is never shown leadership of one tenure running into the next: a
\* claim that was lost and won again shows the loss in between.
LossIsShown ==
    \A t \in Candidates :
        shown[t] = "Leader" /\ shown'[t] = "Leader"
            => mine'[t].tenure = mine[t].tenure

\* The longest a candidate waits for its timer.
LongestWait == Interval + ((Interval + 1) \div 2)

\* A lapsed claim does not lie about while a candidate is there to take it:
\* lapsing writes nothing, so the follower's own timer has to notice.  Said of a
\* store that answers, and within the lease: the call that saw the claim live, the
\* wait, a renewal or a look that finds it lapsed, and the claim that replaces it.
LapsedIsTaken ==
    ~deploy.faults /\ Stall < Ttl =>
        \A t \in Candidates :
            phase[t] = "on" /\ rec.owner \in Owners
                => now < rec.deadline + LongestWait + 3 * Stall

\* Only the candidate's own resignation, or the retention's end, removes a claim.
OnlyOwnResignRemoves ==
    rec # NoRecord /\ rec' = NoRecord
        => \/ rec.reap <= now
           \/ \E t \in Candidates :
                pc[t] = "delete" /\ phase[t] = "leaving" /\ rec.owner = OwnerOf[t]

\* A tenure ends where its consumers can see it, and by nobody else's hand.
TenuresKept == [][LossIsShown /\ OnlyOwnResignRemoves]_vars

\* Shutdown ends every task that is enrolled.
ShutdownEnds ==
    \A t \in Candidates : shutdown /\ phase[t] = "on" ~> phase[t] = "ended"
=============================================================================
