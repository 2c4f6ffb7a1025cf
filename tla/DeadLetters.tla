---------------------------- MODULE DeadLetters -----------------------------
(***************************************************************************)
(* The dead letter table of the outbox and the operations that recover     *)
(* from it: replay, resolve, reject, discard and cleanup, called by any    *)
(* number of callers at once.                                              *)
(*                                                                         *)
(* replay and discard are transactions of two statements, a SELECT ... FOR *)
(* UPDATE SKIP LOCKED and an UPDATE by id, and others run in between; the  *)
(* other operations are one statement.  A claim is a status and a deadline:*)
(* the row does not say whose it is.                                       *)
(***************************************************************************)
EXTENDS Naturals, FiniteSets

CONSTANTS
    Letters,        \* dead letters the processors will ever insert
    Callers,        \* concurrent users of the recovery operations
    Limit,          \* DeadLetterScope::limit
    LateCallers,    \* do callers report on claims that have timed out?
    MaxLetterFaults, \* bound: overruns, rejections, crashes, database errors
    NoCaller        \* an unlocked row, an unclaimed letter

ASSUME LimitAssumption == Limit \in Nat \ {0}

ASSUME FaultAssumption == MaxLetterFaults \in Nat

ASSUME LateAssumption == LateCallers \in BOOLEAN

ASSUME NoCallerAssumption == NoCaller \notin Callers

VARIABLES
    status,         \* dead_letters.status; "none" before, "deleted" after
    deadline,       \* dead_letters.deadline: NULL, or its side of now()
    lock,           \* the caller whose open transaction locks the row
    selected,       \* rows each open transaction has selected
    cpc,            \* the transaction each caller is in
    holds,          \* letters replay returned to each caller, not reported yet
    \* history
    timed,          \* letters each caller claimed and whose timeout still runs
    owner,          \* who claimed each letter last
    letterFaults    \* faults so far, for the bound

lettersVars == <<status, deadline, lock, selected, cpc, holds, timed, owner, letterFaults>>

LetterFault == letterFaults < MaxLetterFaults /\ letterFaults' = letterFaults + 1

LettersInit ==
    /\ status = [l \in Letters |-> "none"]
    /\ deadline = [l \in Letters |-> "null"]
    /\ lock = [l \in Letters |-> NoCaller]
    /\ selected = [c \in Callers |-> {}]
    /\ cpc = [c \in Callers |-> "idle"]
    /\ holds = [c \in Callers |-> {}]
    /\ timed = [c \in Callers |-> {}]
    /\ owner = [l \in Letters |-> NoCaller]
    /\ letterFaults = 0

\* insert_dead_letter, in the transaction of a processor's ack.
Insert(l) ==
    /\ status[l] = "none"
    /\ status' = [status EXCEPT ![l] = "pending"]
    /\ UNCHANGED <<deadline, lock, selected, cpc, holds, timed, owner, letterFaults>>

-----------------------------------------------------------------------------
(* Locking reads *)

Pending == {l \in Letters : status[l] = "pending"}
Expired == {l \in Letters : status[l] = "reprocessing" /\ deadline[l] = "past"}
Unlocked == {l \in Letters : lock[l] = NoCaller}

\* Mutants: orphans are not reclaimed; every claim may be taken over.
ReplayablePendingOnly == Pending
ReplayableAny == Pending \cup {l \in Letters : status[l] = "reprocessing"}

\* The WHERE clause of build_replay_select.
Replayable == Pending \cup Expired

\* SELECT ... LIMIT n SKIP LOCKED over S, the rows of First before the others.
Selections(S, First) ==
    {R \in SUBSET (S \cap Unlocked) :
        /\ R # {}
        /\ Cardinality(R) <= Limit
        /\ Cardinality(R) < Limit => R = S \cap Unlocked
        /\ (R \ First # {}) => (S \cap First \cap Unlocked) \subseteq R}

\* Mutant: the rows are not locked.
SelectUnlocked(c, R, op) ==
    /\ selected' = [selected EXCEPT ![c] = R]
    /\ cpc' = [cpc EXCEPT ![c] = op]
    /\ UNCHANGED <<status, deadline, lock, holds, timed, owner, letterFaults>>

\* BEGIN and FOR UPDATE.
SelectForUpdate(c, R, op) ==
    /\ selected' = [selected EXCEPT ![c] = R]
    /\ lock' = [l \in Letters |-> IF l \in R THEN c ELSE lock[l]]
    /\ cpc' = [cpc EXCEPT ![c] = op]
    /\ UNCHANGED <<status, deadline, holds, timed, owner, letterFaults>>

\* COMMIT or ROLLBACK.
EndTransaction(c) ==
    /\ selected' = [selected EXCEPT ![c] = {}]
    /\ lock' = [l \in Letters |-> IF lock[l] = c THEN NoCaller ELSE lock[l]]
    /\ cpc' = [cpc EXCEPT ![c] = "idle"]

-----------------------------------------------------------------------------
(* dead_letter_replay *)

ReplaySelect(c) ==
    /\ cpc[c] = "idle"
    /\ \E R \in Selections(Replayable, Pending) : SelectForUpdate(c, R, "replay")

\* build_batch_claim by id, COMMIT; the rows are returned to the caller.
ReplayCommit(c) ==
    /\ cpc[c] = "replay"
    /\ LET R == selected[c]
       IN  /\ status' = [l \in Letters |-> IF l \in R THEN "reprocessing" ELSE status[l]]
           /\ deadline' = [l \in Letters |-> IF l \in R THEN "future" ELSE deadline[l]]
           /\ owner' = [l \in Letters |-> IF l \in R THEN c ELSE owner[l]]
           /\ holds' = [holds EXCEPT ![c] = @ \cup R]
           /\ timed' = [timed EXCEPT ![c] = @ \cup R]
    /\ EndTransaction(c)
    /\ UNCHANGED letterFaults

\* now() passes the deadline of the claim c made on l, which is a fault while c is
\* still at work on it.  When the letter has been claimed again since, the row
\* carries the later claim's deadline.
ClaimTimesOut(c, l) ==
    /\ l \in timed[c]
    /\ timed' = [timed EXCEPT ![c] = @ \ {l}]
    /\ deadline' = [deadline EXCEPT ![l] = IF @ = "future" /\ owner[l] = c
                                           THEN "past" ELSE @]
    /\ IF l \in holds[c] THEN LetterFault ELSE UNCHANGED letterFaults
    /\ UNCHANGED <<status, lock, selected, cpc, holds, owner>>

-----------------------------------------------------------------------------
(* Reports on claimed letters: one UPDATE ... AND status = 'reprocessing', *)
(* which waits for row locks.                                              *)

\* What a caller reports on; one that minds its timeout drops late results.
Reportable(c) == IF LateCallers THEN holds[c] ELSE holds[c] \cap timed[c]

Report(c, l, s) ==
    /\ cpc[c] = "idle"
    /\ l \in Reportable(c) \cap Unlocked
    /\ status' = [status EXCEPT ![l] = IF @ = "reprocessing" THEN s ELSE @]
    /\ deadline' = [deadline EXCEPT ![l] = IF status[l] = "reprocessing" THEN "null" ELSE @]
    /\ holds' = [holds EXCEPT ![c] = @ \ {l}]
    /\ timed' = [timed EXCEPT ![c] = @ \ {l}]
    /\ UNCHANGED <<lock, selected, cpc, owner>>

\* dead_letter_resolve and dead_letter_reject.
Resolve(c, l) == Report(c, l, "resolved") /\ UNCHANGED letterFaults
RejectLetter(c, l) == Report(c, l, "pending") /\ LetterFault

-----------------------------------------------------------------------------
(* dead_letter_discard and dead_letter_cleanup *)

DiscardSelect(c) ==
    /\ cpc[c] = "idle"
    /\ \E R \in Selections(Pending, {}) : SelectForUpdate(c, R, "discard")

\* build_batch_discard by id, with no test of the status, COMMIT.
DiscardCommit(c) ==
    /\ cpc[c] = "discard"
    /\ status' = [l \in Letters |-> IF l \in selected[c] THEN "discarded" ELSE status[l]]
    /\ EndTransaction(c)
    /\ UNCHANGED <<deadline, holds, timed, owner, letterFaults>>

\* DELETE ... WHERE id IN (SELECT terminal rows SKIP LOCKED), one statement.
Cleanup ==
    /\ \E R \in Selections({l \in Letters : status[l] \in {"resolved", "discarded"}}, {}) :
          status' = [l \in Letters |-> IF l \in R THEN "deleted" ELSE status[l]]
    /\ UNCHANGED <<deadline, lock, selected, cpc, holds, timed, owner, letterFaults>>

\* The caller's process dies, or a statement of its transaction fails: the
\* transaction is rolled back and what the caller held is forgotten.
CallerStops(c) ==
    /\ cpc[c] # "idle" \/ holds[c] # {}
    /\ LetterFault
    /\ EndTransaction(c)
    /\ holds' = [holds EXCEPT ![c] = {}]
    /\ UNCHANGED <<status, deadline, timed, owner>>

\* A caller gives up on a claim it let time out.
DropLate(c, l) ==
    /\ l \in holds[c] \ Reportable(c)
    /\ holds' = [holds EXCEPT ![c] = @ \ {l}]
    /\ UNCHANGED <<status, deadline, lock, selected, cpc, timed, owner, letterFaults>>

-----------------------------------------------------------------------------
LetterStep(c, l) == ClaimTimesOut(c, l) \/ Resolve(c, l) \/ RejectLetter(c, l) \/ DropLate(c, l)
CallerStep(c) ==
    \/ ReplaySelect(c) \/ ReplayCommit(c) \/ DiscardSelect(c) \/ DiscardCommit(c)
    \/ CallerStops(c)
    \/ \E l \in Letters : LetterStep(c, l)

LettersNext ==
    \/ \E l \in Letters : Insert(l)
    \/ \E c \in Callers : CallerStep(c)
    \/ Cleanup

LettersSpec == LettersInit /\ [][LettersNext]_lettersVars

\* Timeouts run out, open transactions end, and every caller keeps calling
\* replay and resolves what it holds in time or drops it.
LettersFairness ==
    \A c \in Callers :
        /\ WF_lettersVars(ReplaySelect(c))
        /\ WF_lettersVars(ReplayCommit(c) \/ DiscardCommit(c))
        /\ \A l \in Letters :
              WF_lettersVars(ClaimTimesOut(c, l)) /\ WF_lettersVars(Resolve(c, l) \/ DropLate(c, l))

LettersFairSpec == LettersSpec /\ LettersFairness

-----------------------------------------------------------------------------
(* Properties *)

Terminal == {"resolved", "discarded", "deleted"}

\* Rows and callers hold values of their types, and a row has a deadline exactly
\* while it is claimed.
LettersTypeOK ==
    /\ status \in [Letters -> {"none", "pending", "reprocessing"} \cup Terminal]
    /\ deadline \in [Letters -> {"null", "future", "past"}]
    /\ \A l \in Letters : deadline[l] = "null" <=> status[l] # "reprocessing"
    /\ lock \in [Letters -> Callers \cup {NoCaller}]
    /\ selected \in [Callers -> SUBSET Letters]
    /\ cpc \in [Callers -> {"idle", "replay", "discard"}]
    /\ holds \in [Callers -> SUBSET Letters]
    /\ timed \in [Callers -> SUBSET Letters]
    /\ owner \in [Letters -> Callers \cup {NoCaller}]
    /\ letterFaults \in 0..MaxLetterFaults

\* While the timeout of a claim runs the letter stays claimed, and by nobody
\* else: no replay takes it over, no discard or cleanup removes it, although the
\* UPDATEs of replay and discard go by an id list read earlier.
ClaimHonoured ==
    \A c \in Callers : \A l \in holds[c] \cap timed[c] :
        owner[l] = c /\ status[l] = "reprocessing" /\ deadline[l] = "future"

\* "uses FOR UPDATE SKIP LOCKED to prevent concurrent callers from claiming the
\* same rows": no two callers hold running claims on one letter.
ExclusiveReplay ==
    \A c, d \in Callers : c # d => (holds[c] \cap timed[c]) \cap (holds[d] \cap timed[d]) = {}

\* The lifecycle of the module's documentation, and no other way through it: a
\* discard never takes a letter somebody has claimed in the meantime, and a
\* terminal letter never comes back.
Lifecycle ==
    [][\A l \in Letters : status'[l] # status[l] =>
          <<status[l], status'[l]>> \in
              {<<"none", "pending">>, <<"pending", "reprocessing">>,
               <<"reprocessing", "resolved">>, <<"reprocessing", "pending">>,
               <<"pending", "discarded">>,
               <<"resolved", "deleted">>, <<"discarded", "deleted">>}]_lettersVars

\* A letter whose claimant died or gave up is claimed again: each letter is in
\* the end resolved or discarded.
EventuallySettled ==
    \A l \in Letters : status[l] = "pending" ~> status[l] \in Terminal
=============================================================================
