------------------------ MODULE OutboxTimeoutProofs -------------------------
(***************************************************************************)
(* Proofs about the two places where the outbox keeps parties apart by     *)
(* time: the claims on dead letters (DeadLetters) and the lease of a pass  *)
(* (LeaseTiming), which share no state.                                    *)
(***************************************************************************)
EXTENDS DeadLetters, LeaseTiming, TLAPS

-----------------------------------------------------------------------------
(***************************************************************************)
(* Dead letters, for any number of letters and callers.  The UPDATEs of    *)
(* replay and discard go by ids that an earlier statement selected;        *)
(* LockInv says why that is enough (the rows are still locked), SelectInv  *)
(* what the row locks preserve (the condition the SELECT tested) and       *)
(* ClaimHonoured what the callers get from it.                             *)
(***************************************************************************)


\* The selected rows are those the transaction has locked, and an idle caller
\* has none.
LockInv ==
    /\ \A c \in Callers : \A l \in selected[c] : lock[l] = c
    /\ \A c \in Callers : cpc[c] = "idle" => selected[c] = {}

\* What the SELECT found still holds at the UPDATE.
SelectInv ==
    /\ \A c \in Callers : cpc[c] = "discard" =>
          \A l \in selected[c] : status[l] = "pending"
    /\ \A c \in Callers : cpc[c] = "replay" =>
          \A l \in selected[c] :
              status[l] = "pending" \/ (status[l] = "reprocessing" /\ deadline[l] = "past")

IndInv == LettersTypeOK /\ LockInv /\ SelectInv /\ ClaimHonoured

-----------------------------------------------------------------------------
\* A selection consists of unlocked rows of the set it is taken from.
LEMMA SelectionsType ==
    ASSUME NEW S, NEW F, NEW R \in Selections(S, F)
    PROVE  R \subseteq S /\ R \subseteq Letters /\ \A l \in R : lock[l] = NoCaller
BY DEF Selections, Unlocked

\* The initial state.
LEMMA InitInv == LettersInit => IndInv
BY FaultAssumption, NoCallerAssumption
   DEF LettersInit, IndInv, LettersTypeOK, LockInv, SelectInv, ClaimHonoured, Terminal

\* A locking read keeps the invariant when what it selects meets SelectInv.
LEMMA SelectStep ==
    ASSUME IndInv, NEW c \in Callers, cpc[c] = "idle",
           NEW R \in SUBSET Letters, \A l \in R : lock[l] = NoCaller,
           NEW op \in {"replay", "discard"}, SelectForUpdate(c, R, op),
           op = "discard" => \A l \in R : status[l] = "pending",
           op = "replay" => \A l \in R :
               status[l] = "pending" \/ (status[l] = "reprocessing" /\ deadline[l] = "past")
    PROVE  IndInv'
<1> USE DEF IndInv, SelectForUpdate
<1>1. LettersTypeOK'
  BY DEF LettersTypeOK
<1>2. LockInv'
  <2>1. \A d \in Callers : \A l \in selected'[d] : lock'[l] = d
    BY NoCallerAssumption DEF LettersTypeOK, LockInv
  <2> QED BY <2>1 DEF LettersTypeOK, LockInv
<1>3. SelectInv'
  BY DEF LettersTypeOK, SelectInv
<1>4. ClaimHonoured'
  BY DEF ClaimHonoured
<1> QED BY <1>1, <1>2, <1>3, <1>4

\* replay's SELECT.
LEMMA ReplaySelectStep ==
    ASSUME IndInv, NEW c \in Callers, ReplaySelect(c) PROVE IndInv'
<1>1. PICK R \in Selections(Replayable, Pending) : SelectForUpdate(c, R, "replay")
  BY DEF ReplaySelect
<1>2. R \subseteq Replayable /\ R \subseteq Letters /\ \A l \in R : lock[l] = NoCaller
  BY SelectionsType
<1>3. \A l \in R : status[l] = "pending" \/ (status[l] = "reprocessing" /\ deadline[l] = "past")
  BY <1>2 DEF Replayable, Pending, Expired
<1>4. cpc[c] = "idle" /\ R \in SUBSET Letters
  BY <1>2 DEF ReplaySelect
<1> QED BY <1>1, <1>2, <1>3, <1>4, SelectStep

\* discard's SELECT.
LEMMA DiscardSelectStep ==
    ASSUME IndInv, NEW c \in Callers, DiscardSelect(c) PROVE IndInv'
<1>1. PICK R \in Selections(Pending, {}) : SelectForUpdate(c, R, "discard")
  BY DEF DiscardSelect
<1>2. R \subseteq Pending /\ R \subseteq Letters /\ \A l \in R : lock[l] = NoCaller
  BY SelectionsType
<1>3. \A l \in R : status[l] = "pending"
  BY <1>2 DEF Pending
<1>4. cpc[c] = "idle" /\ R \in SUBSET Letters
  BY <1>2 DEF DiscardSelect
<1> QED BY <1>1, <1>2, <1>3, <1>4, SelectStep

\* The end of a transaction releases its locks and nobody else's.
LEMMA EndTransactionLocks ==
    ASSUME LettersTypeOK, LockInv, NEW c \in Callers, EndTransaction(c)
    PROVE  /\ LockInv'
           /\ lock' \in [Letters -> Callers \cup {NoCaller}]
           /\ selected' \in [Callers -> SUBSET Letters]
           /\ cpc' \in [Callers -> {"idle", "replay", "discard"}]
           /\ \A d \in Callers : selected'[d] \subseteq selected[d]
           /\ \A d \in Callers : cpc'[d] # "idle" => d # c /\ cpc'[d] = cpc[d]
BY DEF LettersTypeOK, LockInv, EndTransaction

\* replay's UPDATE.
LEMMA ReplayCommitStep ==
    ASSUME IndInv, NEW c \in Callers, ReplayCommit(c) PROVE IndInv'
<1> USE DEF IndInv
<1>0. /\ status' = [l \in Letters |-> IF l \in selected[c] THEN "reprocessing" ELSE status[l]]
      /\ deadline' = [l \in Letters |-> IF l \in selected[c] THEN "future" ELSE deadline[l]]
      /\ owner' = [l \in Letters |-> IF l \in selected[c] THEN c ELSE owner[l]]
      /\ holds' = [holds EXCEPT ![c] = @ \cup selected[c]]
      /\ timed' = [timed EXCEPT ![c] = @ \cup selected[c]]
      /\ EndTransaction(c) /\ letterFaults' = letterFaults /\ cpc[c] = "replay"
  BY DEF ReplayCommit
<1>1. /\ LockInv'
      /\ lock' \in [Letters -> Callers \cup {NoCaller}]
      /\ selected' \in [Callers -> SUBSET Letters]
      /\ cpc' \in [Callers -> {"idle", "replay", "discard"}]
      /\ \A d \in Callers : selected'[d] \subseteq selected[d]
      /\ \A d \in Callers : cpc'[d] # "idle" => d # c /\ cpc'[d] = cpc[d]
  BY <1>0, EndTransactionLocks
<1>2. LettersTypeOK'
  BY <1>0, <1>1 DEF LettersTypeOK
<1>3. ASSUME NEW d \in Callers, d # c, NEW l \in selected[d] PROVE l \notin selected[c]
  BY <1>3 DEF LockInv
<1>4. SelectInv'
  <2>1. ASSUME NEW d \in Callers, cpc'[d] # "idle", NEW l \in selected'[d]
        PROVE  status'[l] = status[l] /\ deadline'[l] = deadline[l] /\ l \in selected[d]
    BY <1>0, <1>1, <1>3, <2>1 DEF LettersTypeOK
  <2> QED BY <1>1, <2>1 DEF SelectInv
<1>5. ClaimHonoured'
  <2> SUFFICES ASSUME NEW d \in Callers, NEW l \in holds'[d] \cap timed'[d]
               PROVE  owner'[l] = d /\ status'[l] = "reprocessing" /\ deadline'[l] = "future"
    BY DEF ClaimHonoured
  <2>1. l \in Letters
    BY <1>2 DEF LettersTypeOK
  <2>2. CASE l \in selected[c]
    <3>1. deadline[l] # "future"
      BY <1>0, <2>1, <2>2 DEF SelectInv, LettersTypeOK
    <3>2. d = c
      BY <3>1, <1>0 DEF ClaimHonoured, LettersTypeOK
    <3> QED BY <1>0, <2>1, <2>2, <3>2
  <2>3. CASE l \notin selected[c]
    <3>1. l \in holds[d] \cap timed[d]
      BY <1>0, <2>3 DEF LettersTypeOK
    <3> QED BY <1>0, <2>1, <2>3, <3>1 DEF ClaimHonoured
  <2> QED BY <2>2, <2>3
<1> QED BY <1>1, <1>2, <1>4, <1>5

\* discard's UPDATE.
LEMMA DiscardCommitStep ==
    ASSUME IndInv, NEW c \in Callers, DiscardCommit(c) PROVE IndInv'
<1> USE DEF IndInv
<1>0. /\ status' = [l \in Letters |-> IF l \in selected[c] THEN "discarded" ELSE status[l]]
      /\ UNCHANGED <<deadline, holds, timed, owner, letterFaults>>
      /\ EndTransaction(c) /\ cpc[c] = "discard"
  BY DEF DiscardCommit
<1>1. /\ LockInv'
      /\ lock' \in [Letters -> Callers \cup {NoCaller}]
      /\ selected' \in [Callers -> SUBSET Letters]
      /\ cpc' \in [Callers -> {"idle", "replay", "discard"}]
      /\ \A d \in Callers : selected'[d] \subseteq selected[d]
      /\ \A d \in Callers : cpc'[d] # "idle" => d # c /\ cpc'[d] = cpc[d]
  BY <1>0, EndTransactionLocks
<1>2. \A l \in selected[c] : status[l] = "pending"
  BY <1>0 DEF SelectInv
<1>3. LettersTypeOK'
  BY <1>0, <1>1, <1>2 DEF LettersTypeOK, Terminal
<1>4. SelectInv'
  <2>1. ASSUME NEW d \in Callers, cpc'[d] # "idle", NEW l \in selected'[d]
        PROVE  status'[l] = status[l] /\ deadline'[l] = deadline[l] /\ l \in selected[d]
    BY <1>0, <1>1, <2>1 DEF LettersTypeOK, LockInv
  <2> QED BY <1>1, <2>1 DEF SelectInv
<1>5. ClaimHonoured'
  BY <1>0, <1>2 DEF ClaimHonoured, LettersTypeOK
<1> QED BY <1>1, <1>3, <1>4, <1>5

\* A timeout makes a row reclaimable that nobody's running claim is on.
LEMMA ClaimTimesOutStep ==
    ASSUME IndInv, NEW c \in Callers, NEW l \in Letters, ClaimTimesOut(c, l)
    PROVE  IndInv'
<1> USE DEF IndInv
<1>0. /\ timed' = [timed EXCEPT ![c] = @ \ {l}]
      /\ deadline' = [deadline EXCEPT ![l] = IF @ = "future" /\ owner[l] = c
                                             THEN "past" ELSE @]
      /\ UNCHANGED <<status, lock, selected, cpc, holds, owner>>
      /\ letterFaults' \in 0..MaxLetterFaults
  BY FaultAssumption DEF ClaimTimesOut, LetterFault, LettersTypeOK
<1>1. LettersTypeOK'
  BY <1>0 DEF LettersTypeOK
<1>2. LockInv'
  BY <1>0 DEF LockInv
<1>3. SelectInv'
  BY <1>0 DEF SelectInv, LettersTypeOK
<1>4. ClaimHonoured'
  BY <1>0 DEF ClaimHonoured, LettersTypeOK
<1> QED BY <1>1, <1>2, <1>3, <1>4

\* A caller that minds its timeouts reports on its own claims only.
LEMMA ReportStep ==
    ASSUME ~LateCallers, IndInv, NEW c \in Callers, NEW l \in Letters,
           NEW s \in {"resolved", "pending"}, Report(c, l, s), letterFaults' \in 0..MaxLetterFaults
    PROVE  IndInv'
<1> USE DEF IndInv
<1>0. /\ l \in holds[c] \cap timed[c] /\ lock[l] = NoCaller
      /\ status' = [status EXCEPT ![l] = IF @ = "reprocessing" THEN s ELSE @]
      /\ deadline' = [deadline EXCEPT ![l] = IF status[l] = "reprocessing" THEN "null" ELSE @]
      /\ holds' = [holds EXCEPT ![c] = @ \ {l}]
      /\ timed' = [timed EXCEPT ![c] = @ \ {l}]
      /\ UNCHANGED <<lock, selected, cpc, owner>>
  BY DEF Report, Reportable, Unlocked
<1>1. LettersTypeOK'
  BY <1>0 DEF LettersTypeOK, Terminal
<1>2. LockInv'
  BY <1>0 DEF LockInv
<1>3. \A d \in Callers : l \notin selected[d]
  BY <1>0, NoCallerAssumption DEF LockInv
<1>4. SelectInv'
  <2>1. ASSUME NEW d \in Callers, NEW k \in selected'[d]
        PROVE  status'[k] = status[k] /\ deadline'[k] = deadline[k]
    BY <1>0, <1>3, <2>1 DEF LettersTypeOK
  <2> QED BY <1>0, <2>1 DEF SelectInv
<1>5. ClaimHonoured'
  <2> SUFFICES ASSUME NEW d \in Callers, NEW k \in holds'[d] \cap timed'[d]
               PROVE  owner'[k] = d /\ status'[k] = "reprocessing" /\ deadline'[k] = "future"
    BY DEF ClaimHonoured
  <2>1. k \in holds[d] \cap timed[d] /\ k \in Letters
    BY <1>0 DEF LettersTypeOK
  <2>2. k # l
    <3>1. owner[l] = c
      BY <1>0 DEF ClaimHonoured
    <3>2. CASE d = c
      BY <1>0, <3>2 DEF LettersTypeOK
    <3>3. CASE d # c
      BY <2>1, <3>1, <3>3 DEF ClaimHonoured
    <3> QED BY <3>2, <3>3
  <2> QED BY <1>0, <2>1, <2>2 DEF ClaimHonoured, LettersTypeOK
<1> QED BY <1>1, <1>2, <1>4, <1>5

\* The other operations touch no row that is selected or claimed.
LEMMA OtherStep ==
    ASSUME IndInv,
           \/ \E l \in Letters : Insert(l)
           \/ Cleanup
           \/ \E c \in Callers : CallerStops(c)
           \/ \E c \in Callers : \E l \in Letters : DropLate(c, l)
    PROVE  IndInv'
<1> USE DEF IndInv
<1>1. ASSUME NEW l \in Letters, Insert(l) PROVE IndInv'
  <2>1. LettersTypeOK'
    BY <1>1 DEF Insert, LettersTypeOK
  <2>2. LockInv'
    BY <1>1 DEF Insert, LockInv
  <2>3. SelectInv'
    BY <1>1 DEF Insert, SelectInv, LettersTypeOK
  <2>4. ClaimHonoured'
    BY <1>1 DEF Insert, ClaimHonoured, LettersTypeOK
  <2> QED BY <2>1, <2>2, <2>3, <2>4
<1>2. CASE Cleanup
  <2>1. PICK R \in Selections({l \in Letters : status[l] \in {"resolved", "discarded"}}, {}) :
           status' = [l \in Letters |-> IF l \in R THEN "deleted" ELSE status[l]]
    BY <1>2 DEF Cleanup
  <2>2. \A l \in R : l \in Letters /\ status[l] \in {"resolved", "discarded"}
    BY SelectionsType
  <2>3. UNCHANGED <<deadline, lock, selected, cpc, holds, timed, owner, letterFaults>>
    BY <1>2 DEF Cleanup
  <2>4. LettersTypeOK'
    BY <2>1, <2>2, <2>3 DEF LettersTypeOK, Terminal
  <2>5. LockInv'
    BY <2>3 DEF LockInv
  <2>6. SelectInv'
    BY <2>1, <2>2, <2>3 DEF SelectInv, LettersTypeOK
  <2>7. ClaimHonoured'
    BY <2>1, <2>2, <2>3 DEF ClaimHonoured, LettersTypeOK
  <2> QED BY <2>4, <2>5, <2>6, <2>7
<1>3. ASSUME NEW c \in Callers, CallerStops(c) PROVE IndInv'
  <2>0. /\ holds' = [holds EXCEPT ![c] = {}]
        /\ UNCHANGED <<status, deadline, timed, owner>>
        /\ EndTransaction(c) /\ letterFaults' \in 0..MaxLetterFaults
    BY <1>3, FaultAssumption DEF CallerStops, LetterFault, LettersTypeOK
  <2>1. /\ LockInv'
        /\ lock' \in [Letters -> Callers \cup {NoCaller}]
        /\ selected' \in [Callers -> SUBSET Letters]
        /\ cpc' \in [Callers -> {"idle", "replay", "discard"}]
        /\ \A d \in Callers : selected'[d] \subseteq selected[d]
        /\ \A d \in Callers : cpc'[d] # "idle" => d # c /\ cpc'[d] = cpc[d]
    BY <2>0, EndTransactionLocks
  <2>2. LettersTypeOK'
    BY <2>0, <2>1 DEF LettersTypeOK
  <2>3. SelectInv'
    BY <2>0, <2>1 DEF SelectInv
  <2>4. ClaimHonoured'
    BY <2>0 DEF ClaimHonoured, LettersTypeOK
  <2> QED BY <2>1, <2>2, <2>3, <2>4
<1>4. ASSUME NEW c \in Callers, NEW l \in Letters, DropLate(c, l) PROVE IndInv'
  <2>1. LettersTypeOK'
    BY <1>4 DEF DropLate, LettersTypeOK
  <2>2. LockInv'
    BY <1>4 DEF DropLate, LockInv
  <2>3. SelectInv'
    BY <1>4 DEF DropLate, SelectInv
  <2>4. ClaimHonoured'
    BY <1>4 DEF DropLate, ClaimHonoured, LettersTypeOK
  <2> QED BY <2>1, <2>2, <2>3, <2>4
<1> QED BY <1>1, <1>2, <1>3, <1>4

\* The invariant is inductive for callers that mind their timeouts.
LEMMA NextInv ==
    ASSUME ~LateCallers, IndInv, [LettersNext]_lettersVars
    PROVE  IndInv'
<1>1. ASSUME NEW c \in Callers, NEW l \in Letters, Resolve(c, l) \/ RejectLetter(c, l)
      PROVE  IndInv'
  <2>1. letterFaults' \in 0..MaxLetterFaults
    BY <1>1, FaultAssumption DEF Resolve, RejectLetter, LetterFault, IndInv, LettersTypeOK
  <2>2. Report(c, l, "resolved") \/ Report(c, l, "pending")
    BY <1>1 DEF Resolve, RejectLetter
  <2> QED BY <2>1, <2>2, ReportStep
<1>2. CASE UNCHANGED lettersVars
  BY <1>2 DEF lettersVars, IndInv, LettersTypeOK, LockInv, SelectInv, ClaimHonoured
<1> QED
  BY <1>1, <1>2, ReplaySelectStep, ReplayCommitStep, DiscardSelectStep, DiscardCommitStep,
     ClaimTimesOutStep, OtherStep
  DEF LettersNext, CallerStep, LetterStep

-----------------------------------------------------------------------------
\* Types, and a deadline exactly on claimed rows.
THEOREM TypeCorrect ==
    ASSUME ~LateCallers PROVE LettersSpec => []LettersTypeOK
<1>1. IndInv => LettersTypeOK
  BY DEF IndInv
<1> QED BY <1>1, InitInv, NextInv, PTL DEF LettersSpec

\* A claim lasts as long as its timeout, for any number of concurrent replays,
\* discards and cleanups, when callers report in time.
THEOREM ClaimsHonoured ==
    ASSUME ~LateCallers PROVE LettersSpec => []ClaimHonoured
<1>1. IndInv => ClaimHonoured
  BY DEF IndInv
<1> QED BY <1>1, InitInv, NextInv, PTL DEF LettersSpec

\* Then no two callers ever work on the same letter.
THEOREM ReplayExclusive ==
    ASSUME ~LateCallers PROVE LettersSpec => []ExclusiveReplay
<1>1. IndInv => ExclusiveReplay
  BY DEF IndInv, ClaimHonoured, ExclusiveReplay
<1> QED BY <1>1, InitInv, NextInv, PTL DEF LettersSpec

\* Every row follows the documented lifecycle.
THEOREM LifecycleFollowed ==
    ASSUME ~LateCallers PROVE LettersSpec => Lifecycle
<1> DEFINE Allowed == {<<"none", "pending">>, <<"pending", "reprocessing">>,
               <<"reprocessing", "resolved">>, <<"reprocessing", "pending">>,
               <<"pending", "discarded">>,
               <<"resolved", "deleted">>, <<"discarded", "deleted">>}
           Legal == \A l \in Letters : status'[l] # status[l] =>
                        <<status[l], status'[l]>> \in Allowed
<1>1. ASSUME IndInv, [LettersNext]_lettersVars PROVE [Legal]_lettersVars
  <2> SUFFICES ASSUME LettersNext PROVE Legal
    BY <1>1
  <2>1. ASSUME NEW l \in Letters, Insert(l) PROVE Legal
    BY <1>1, <2>1 DEF Insert, IndInv, LettersTypeOK
  <2>2. ASSUME NEW c \in Callers, ReplayCommit(c) PROVE Legal
    BY <1>1, <2>2 DEF ReplayCommit, IndInv, LettersTypeOK, SelectInv
  <2>3. ASSUME NEW c \in Callers, DiscardCommit(c) PROVE Legal
    BY <1>1, <2>3 DEF DiscardCommit, IndInv, LettersTypeOK, SelectInv
  <2>4. ASSUME NEW c \in Callers, NEW l \in Letters, NEW s \in {"resolved", "pending"},
               Report(c, l, s)
        PROVE  Legal
    BY <1>1, <2>4 DEF Report, IndInv, LettersTypeOK
  <2>5. CASE Cleanup
    <3>1. PICK R \in Selections({l \in Letters : status[l] \in {"resolved", "discarded"}}, {}) :
             status' = [l \in Letters |-> IF l \in R THEN "deleted" ELSE status[l]]
      BY <2>5 DEF Cleanup
    <3>2. \A l \in R : status[l] \in {"resolved", "discarded"}
      BY SelectionsType
    <3> QED BY <3>1, <3>2
  <2>6. CASE status' = status
    BY <2>6
  <2>7. ASSUME NEW c \in Callers, CallerStep(c) PROVE Legal
    <3>1. ASSUME NEW l \in Letters, Resolve(c, l) \/ RejectLetter(c, l) PROVE Legal
      BY <3>1, <2>4 DEF Resolve, RejectLetter
    <3> HIDE DEF Legal
    <3> QED BY <2>2, <2>3, <2>6, <2>7, <3>1
            DEF CallerStep, LetterStep, ReplaySelect, DiscardSelect, SelectForUpdate,
                CallerStops, ClaimTimesOut, DropLate
  <2> HIDE DEF Legal
  <2> QED BY <2>1, <2>5, <2>7 DEF LettersNext
<1>2. Legal <=> (\A l \in Letters : status'[l] # status[l] =>
          <<status[l], status'[l]>> \in
              {<<"none", "pending">>, <<"pending", "reprocessing">>,
               <<"reprocessing", "resolved">>, <<"reprocessing", "pending">>,
               <<"pending", "discarded">>,
               <<"resolved", "deleted">>, <<"discarded", "deleted">>})
  OBVIOUS
<1> QED BY <1>1, InitInv, NextInv, PTL DEF LettersSpec, Lifecycle

-----------------------------------------------------------------------------
(***************************************************************************)
(* The lease of a pass, for any number of workers and any lease            *)
(* configuration.  The inductive invariant is TimingTypeOK and LeaseInv: a *)
(* worker whose deadline is still ahead holds the lease, and until at      *)
(* least Lease ticks after its lease_start.  It needs the handler's budget *)
(* to fit in the lease the database gives, which a whole number of seconds *)
(* ensures and a fraction larger than the headroom does not.               *)
(***************************************************************************)

\* What the database is asked for is a natural number of ticks.
LEMMA LeaseType == Lease \in Nat
<1> DEFINE q == Duration \div Second
<1>1. q \in Nat
  BY LeaseConfigAssumption, TickAssumption
<1>2. q * Second \in Nat
  <2> HIDE DEF q
  <2> QED BY <1>1, TickAssumption
<1> QED BY <1>2 DEF Lease

\* The initial state has the types.
LEMMA InitType == TimingInit => TimingTypeOK
BY TickAssumption, LeaseType DEF TimingInit, TimingTypeOK

\* Every step keeps the types.
LEMMA NextType == TimingTypeOK /\ [TimingNext]_timingVars => TimingTypeOK'
<1> SUFFICES ASSUME TimingTypeOK, [TimingNext]_timingVars PROVE TimingTypeOK'
  OBVIOUS
<1> USE DEF TimingTypeOK
<1>1. CASE Tick
  BY <1>1, TickAssumption DEF Tick
<1>2. ASSUME NEW w \in Processors, BeginPass(w) PROVE TimingTypeOK'
  BY <1>2 DEF BeginPass
<1>3. ASSUME NEW w \in Processors, AcquireSql(w) PROVE TimingTypeOK'
  <2>1. PICK t \in leaseStart[w]..now : lockedUntil' = t + Lease
    BY <1>3 DEF AcquireSql
  <2>2. t \in 0..MaxTime
    BY <2>1, TickAssumption
  <2>3. lockedUntil' \in 0..(MaxTime + Lease)
    BY <2>1, <2>2, LeaseType, TickAssumption
  <2>4. lockedBy' = w /\ w # NoOne
    BY <1>3, NoOneAssumption DEF AcquireSql
  <2> QED BY <1>3, <2>3, <2>4 DEF AcquireSql
<1>4. ASSUME NEW w \in Processors, AcquireMissed(w) PROVE TimingTypeOK'
  BY <1>4 DEF AcquireMissed
<1>5. ASSUME NEW w \in Processors, HandlerStarts(w) PROVE TimingTypeOK'
  BY <1>5 DEF HandlerStarts
<1>6. ASSUME NEW w \in Processors, HandlerEnds(w) PROVE TimingTypeOK'
  BY <1>6 DEF HandlerEnds
<1>7. ASSUME NEW w \in Processors, Ack(w) PROVE TimingTypeOK'
  BY <1>7, LeaseType, TickAssumption DEF Ack, Release
<1>8. ASSUME NEW w \in Processors, Crash(w) PROVE TimingTypeOK'
  BY <1>8 DEF Crash
<1>9. CASE UNCHANGED timingVars
  BY <1>9 DEF timingVars
<1> QED
  BY <1>1, <1>2, <1>3, <1>4, <1>5, <1>6, <1>7, <1>8, <1>9 DEF TimingNext, WorkerStep

\* The clock, the lease row and the workers keep their types.
THEOREM TimingTypes == TimingSpec => []TimingTypeOK
BY InitType, NextType, PTL DEF TimingSpec

-----------------------------------------------------------------------------
\* A worker that has acquired and whose deadline is ahead holds the lease, for
\* Lease ticks from its lease_start or longer.
Covered(w) ==
    stage[w] \in {"acquired", "handling"} /\ now < Deadline(w) =>
        lockedBy = w /\ leaseStart[w] + Lease <= lockedUntil

LeaseInv == \A w \in Processors : Covered(w)

\* No worker has acquired at the start.
LEMMA InitLease == TimingInit => LeaseInv
BY DEF TimingInit, LeaseInv, Covered

\* A lease whose holder's deadline is ahead is not free to anybody.
LEMMA NotFree ==
    ASSUME Duration - Headroom <= Lease, TimingTypeOK, LeaseInv,
           NEW w \in Processors, stage[w] \in {"acquired", "handling"}, now < Deadline(w),
           NEW t \in Nat, t <= now
    PROVE  ~Free(t)
<1>1. lockedBy = w /\ leaseStart[w] + Lease <= lockedUntil
  BY DEF LeaseInv, Covered
<1>2. now \in Nat /\ leaseStart[w] \in Nat /\ lockedUntil \in Nat
  BY LeaseType, TickAssumption DEF TimingTypeOK
<1>3. now < leaseStart[w] + (Duration - Headroom)
  BY DEF Deadline
<1>4. t <= lockedUntil
  BY <1>1, <1>2, <1>3, LeaseType, LeaseConfigAssumption
<1> QED BY <1>1, <1>2, <1>4, NoOneAssumption DEF Free

\* Every step keeps the deadlines covered.
LEMMA NextLease ==
    ASSUME Duration - Headroom <= Lease, TimingTypeOK, LeaseInv, [TimingNext]_timingVars
    PROVE  LeaseInv'
<1> SUFFICES ASSUME NEW w \in Processors,
                    stage'[w] \in {"acquired", "handling"}, now' < Deadline(w)'
             PROVE  lockedBy' = w /\ leaseStart'[w] + Lease <= lockedUntil'
  BY DEF LeaseInv, Covered
<1> USE DEF Deadline
<1>0. /\ now \in Nat /\ leaseStart[w] \in Nat /\ lockedUntil \in Nat
      /\ stage \in [Processors -> {"idle", "acquiring", "acquired", "handling", "acking"}]
      /\ leaseStart \in [Processors -> 0..MaxTime]
  BY LeaseType, TickAssumption DEF TimingTypeOK
<1>1. CASE Tick
  <2>1. now < Deadline(w) /\ stage[w] \in {"acquired", "handling"}
    BY <1>0, <1>1, LeaseConfigAssumption DEF Tick
  <2> QED BY <1>1, <2>1 DEF Tick, LeaseInv, Covered
<1>2. ASSUME NEW u \in Processors, BeginPass(u) PROVE lockedBy' = w /\ leaseStart'[w] + Lease <= lockedUntil'
  <2>1. u # w
    BY <1>0, <1>2 DEF BeginPass
  <2> QED BY <1>0, <1>2, <2>1 DEF BeginPass, LeaseInv, Covered
<1>3. ASSUME NEW u \in Processors, AcquireSql(u) PROVE lockedBy' = w /\ leaseStart'[w] + Lease <= lockedUntil'
  <2>1. PICK t \in leaseStart[u]..now : Free(t) /\ lockedUntil' = t + Lease
    BY <1>3 DEF AcquireSql
  <2>2. leaseStart[u] \in Nat /\ t \in Nat /\ t <= now /\ leaseStart[u] <= t
    BY <1>0, <2>1
  <2>3. CASE u = w
    BY <1>0, <1>3, <2>1, <2>2, <2>3, LeaseType DEF AcquireSql
  <2>4. CASE u # w
    <3>1. stage[w] \in {"acquired", "handling"} /\ now < Deadline(w)
      BY <1>0, <1>3, <2>4 DEF AcquireSql
    <3>2. ~Free(t)
      BY <3>1, <2>2, NotFree
    <3> QED BY <3>2, <2>1
  <2> QED BY <2>3, <2>4
<1>4. ASSUME NEW u \in Processors, AcquireMissed(u) PROVE lockedBy' = w /\ leaseStart'[w] + Lease <= lockedUntil'
  BY <1>0, <1>4 DEF AcquireMissed, LeaseInv, Covered
<1>5. ASSUME NEW u \in Processors, HandlerStarts(u) PROVE lockedBy' = w /\ leaseStart'[w] + Lease <= lockedUntil'
  BY <1>0, <1>5 DEF HandlerStarts, LeaseInv, Covered
<1>6. ASSUME NEW u \in Processors, HandlerEnds(u) PROVE lockedBy' = w /\ leaseStart'[w] + Lease <= lockedUntil'
  BY <1>0, <1>6 DEF HandlerEnds, LeaseInv, Covered
<1>7. ASSUME NEW u \in Processors, Ack(u) PROVE lockedBy' = w /\ leaseStart'[w] + Lease <= lockedUntil'
  BY <1>0, <1>7 DEF Ack, LeaseInv, Covered
<1>8. ASSUME NEW u \in Processors, Crash(u) PROVE lockedBy' = w /\ leaseStart'[w] + Lease <= lockedUntil'
  BY <1>0, <1>8 DEF Crash, LeaseInv, Covered
<1>9. CASE UNCHANGED timingVars
  BY <1>9 DEF timingVars, LeaseInv, Covered
<1> QED
  BY <1>1, <1>2, <1>3, <1>4, <1>5, <1>6, <1>7, <1>8, <1>9 DEF TimingNext, WorkerStep

\* Handlers of one partition never overlap in time, whatever delays the database
\* adds, as long as the truncation to seconds costs no more than the headroom.
THEOREM HandlersApart ==
    ASSUME Duration - Headroom <= Lease
    PROVE  TimingSpec => HandlerExclusive
<1>1. TimingInit => TimingTypeOK /\ LeaseInv
  BY InitType, InitLease
<1>2. TimingTypeOK /\ LeaseInv /\ [TimingNext]_timingVars => (TimingTypeOK /\ LeaseInv)'
  BY NextType, NextLease
<1>3. ASSUME TimingTypeOK, LeaseInv, [TimingNext]_timingVars
      PROVE  [now' # now => \A u, w \in Handling : u = w]_timingVars
  <2> SUFFICES ASSUME now' # now, NEW u \in Handling, NEW w \in Handling PROVE u = w
    OBVIOUS
  <2>1. Tick
    BY <1>3 DEF TimingNext, WorkerStep, BeginPass, AcquireSql, AcquireMissed, HandlerStarts,
                HandlerEnds, Ack, Crash, timingVars
  <2>2. lockedBy = u /\ lockedBy = w
    BY <1>3, <2>1 DEF Tick, LeaseInv, Covered, Handling
  <2> QED BY <2>2
<1> QED BY <1>1, <1>2, <1>3, PTL DEF TimingSpec, HandlerExclusive

\* With a whole number of seconds a running handler has the lease, and the
\* headroom of it left for the ack.
THEOREM HeadroomKept ==
    ASSUME Lease = Duration
    PROVE  TimingSpec => LeaseCoversHandler
<1>0. Duration - Headroom <= Lease
  BY LeaseConfigAssumption
<1>1. TimingInit => TimingTypeOK /\ LeaseInv
  BY InitType, InitLease
<1>2. TimingTypeOK /\ LeaseInv /\ [TimingNext]_timingVars => (TimingTypeOK /\ LeaseInv)'
  BY <1>0, NextType, NextLease
<1>3. ASSUME TimingTypeOK, LeaseInv, [TimingNext]_timingVars
      PROVE  [now' # now => \A w \in Handling :
                 lockedBy = w /\ now' + Headroom <= lockedUntil]_timingVars
  <2> SUFFICES ASSUME now' # now, NEW w \in Handling
               PROVE  lockedBy = w /\ now' + Headroom <= lockedUntil
    OBVIOUS
  <2>1. Tick
    BY <1>3 DEF TimingNext, WorkerStep, BeginPass, AcquireSql, AcquireMissed, HandlerStarts,
                HandlerEnds, Ack, Crash, timingVars
  <2>2. now < leaseStart[w] + (Duration - Headroom) /\ now' = now + 1
    BY <2>1 DEF Tick, Handling, Deadline
  <2>3. lockedBy = w /\ leaseStart[w] + Duration <= lockedUntil
    BY <1>3, <2>1 DEF Tick, LeaseInv, Covered, Handling
  <2>4. now \in Nat /\ leaseStart[w] \in Nat /\ lockedUntil \in Nat
    BY <1>3, LeaseType, TickAssumption DEF TimingTypeOK, Handling
  <2> QED BY <2>2, <2>3, <2>4, LeaseConfigAssumption
<1> QED BY <1>1, <1>2, <1>3, PTL DEF TimingSpec, LeaseCoversHandler
=============================================================================
