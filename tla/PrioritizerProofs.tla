------------------------- MODULE PrioritizerProofs --------------------------
(***************************************************************************)
(* Proofs about Prioritizer, for any number of partitions and workers.     *)
(* The safety properties are inductive together once PassInv ties a        *)
(* worker's guard, buffer and iteration count to where the worker is.      *)
(***************************************************************************)
EXTENDS Prioritizer, TLAPS

\* Where a worker is, or will be once it has made the notify_one it owes.
At(w) == IF pc[w] = "notifying" THEN then[w] ELSE pc[w]

\* A worker has a guard, entries in its buffer and iterations behind it only
\* where execute() does.
PassOK(w) ==
    /\ pc[w] # "absorbing" => buffer[w] = {}
    /\ At(w) \in {"sequencing", "drained", "saturated", "repush"} => guard[w] \in Partitions
    /\ At(w) \in {"idle", "waiting", "awake", "absorbing"} =>
          guard[w] = NoPartition /\ iter[w] = 0
    /\ At(w) = "sequencing" => iter[w] < MaxInner

PassInv == \A w \in Workers : PassOK(w)

IndInv == TypeOK /\ PassInv /\ ClaimsExact /\ CoalesceSafe /\ SignalKept /\ WakeupKept

\* What a notify_one does to the workers: each is where it was, or was asleep and
\* is woken.
Drifts ==
    /\ pc' \in [Workers -> PcType] /\ then' \in [Workers -> ThenType]
    /\ \A u \in Workers : At(u)' = At(u) \/ (At(u) = "waiting" /\ At(u)' = "awake")

\* Somebody will run take().
Alarmed == permit' = 1 \/ \E u \in Workers : pc'[u] = "awake"

\* What a worker's own step does: w goes on to x, perhaps with a notify_one to
\* make on the way, and the others stay.
Reaches(w, x) ==
    /\ pc' \in [Workers -> PcType] /\ then' \in [Workers -> ThenType]
    /\ pc'[w] \in {x, "notifying"} /\ At(w)' = x
    /\ \A u \in Workers : u # w => pc'[u] = pc[u] /\ At(u)' = At(u)

-----------------------------------------------------------------------------
\* notify_one by a producer's task or the reconciler.
LEMMA NotifyOneDrifts ==
    ASSUME TypeOK, NotifyOne(pc), UNCHANGED then
    PROVE  Drifts /\ Alarmed /\ permit' \in {0, 1}
BY DEF TypeOK, NotifyOne, Drifts, Alarmed, PcType, At

\* notify_one by a worker that owes one.
LEMMA WorkerNotifiesDrifts ==
    ASSUME TypeOK, NEW w \in Workers, WorkerNotifies(w)
    PROVE  Drifts /\ Alarmed /\ permit' \in {0, 1}
<1> DEFINE base == [pc EXCEPT ![w] = then[w]]
<1>1. base \in [Workers -> PcType] /\ base[w] = then[w] /\ then[w] \in ThenType
  BY DEF TypeOK, PcType, ThenType
<1>2. \A u \in Workers : u # w => base[u] = pc[u]
  BY DEF TypeOK
<1>3. pc[w] = "notifying" /\ NotifyOne(base) /\ then' = [then EXCEPT ![w] = "idle"]
  BY DEF WorkerNotifies
<1> HIDE DEF base
<1>4. /\ pc' \in [Workers -> PcType] /\ permit' \in {0, 1} /\ Alarmed
      /\ \A u \in Workers : pc'[u] = base[u] \/ (base[u] = "waiting" /\ pc'[u] = "awake")
  BY <1>1, <1>3 DEF NotifyOne, Alarmed, PcType, TypeOK
<1>5. then' \in [Workers -> ThenType] /\ \A u \in Workers : u # w => then'[u] = then[u]
  BY <1>3 DEF TypeOK, ThenType
<1>6. At(w)' = then[w] /\ At(w) = then[w]
  BY <1>1, <1>3, <1>4 DEF At, ThenType
<1>7. ASSUME NEW u \in Workers, u # w
      PROVE  At(u)' = At(u) \/ (At(u) = "waiting" /\ At(u)' = "awake")
  BY <1>2, <1>4, <1>5, <1>7 DEF At
<1> QED BY <1>4, <1>5, <1>6, <1>7 DEF Drifts

\* A worker goes on without a notify_one.
LEMMA GoReaches ==
    ASSUME TypeOK, NEW w \in Workers, NEW x \in PcType \ {"notifying"}, Go(w, x)
    PROVE  Reaches(w, x)
BY DEF TypeOK, Go, Reaches, At

\* A worker goes on with one to make.
LEMMA GoNotifyReaches ==
    ASSUME TypeOK, NEW w \in Workers, NEW x \in ThenType, GoNotify(w, x)
    PROVE  Reaches(w, x)
BY DEF TypeOK, GoNotify, Reaches, At, PcType

\* Nobody owes a notify_one on the way to "drained" or "absorbing".
LEMMA AtPlain ==
    ASSUME then \in [Workers -> ThenType], NEW w \in Workers
    PROVE  /\ At(w) = "drained" <=> pc[w] = "drained"
           /\ At(w) = "absorbing" <=> pc[w] = "absorbing"
           /\ Holding(w) <=> At(w) \in {"sequencing", "drained", "saturated"}
BY DEF At, ThenType, Holding

\* Only w can become, or cease to be, a holder.
LEMMA ReachesFacts ==
    ASSUME TypeOK, NEW w \in Workers, NEW x \in PcType, Reaches(w, x)
    PROVE  /\ \A u \in Workers : u # w => (Holding(u)' <=> Holding(u))
           /\ Holding(w)' <=> x \in {"sequencing", "drained", "saturated"}
           /\ \A u \in Workers : u # w => pc'[u] = pc[u] /\ At(u)' = At(u)
           /\ pc'[w] \in {x, "notifying"} /\ At(w)' = x
<1>1. ASSUME NEW u \in Workers
      PROVE  Holding(u)' <=> At(u)' \in {"sequencing", "drained", "saturated"}
  <2>1. then' \in [Workers -> ThenType]
    BY DEF Reaches
  <2> QED BY <2>1 DEF At, Holding, ThenType
<1>2. ASSUME NEW u \in Workers
      PROVE  Holding(u) <=> At(u) \in {"sequencing", "drained", "saturated"}
  BY AtPlain DEF TypeOK
<1> QED BY <1>1, <1>2 DEF Reaches

\* After push_dirty the partition is in the queue, by this push or an earlier one.
LEMMA PushFacts ==
    ASSUME NEW p \in Partitions, CoalesceSafe, Accept(p) \/ Suppress(p)
    PROVE  p \in queue' /\ queue' = queue \cup {p} /\ CoalesceSafe'
BY DEF Accept, Suppress, CoalesceSafe, inboxVars

\* The initial state.
LEMMA InitInv == Init => IndInv
<1> SUFFICES ASSUME Init PROVE IndInv
  OBVIOUS
<1>1. TypeOK
  BY CapAssumption, SizeAssumption DEF Init, TypeOK, PcType, ThenType
<1>2. PassInv
  BY SizeAssumption DEF Init, PassInv, PassOK, At
<1>3. ClaimsExact
  BY DEF Init, ClaimsExact, Holding
<1>4. CoalesceSafe /\ WakeupKept
  BY DEF Init, CoalesceSafe, WakeupKept
<1>5. SignalKept
  BY DEF Init, SignalKept
<1> QED BY <1>1, <1>2, <1>3, <1>4, <1>5 DEF IndInv

-----------------------------------------------------------------------------
(* Steps that leave the workers where they are, but for a wakeup *)

\* Such a step keeps what is said of passes and claims.
LEMMA WakeFrame ==
    ASSUME IndInv, Drifts, UNCHANGED <<passVars, claimed, redirtied, pending>>
    PROVE  PassInv' /\ ClaimsExact'
<1> USE DEF IndInv, passVars
<1>1. then \in [Workers -> ThenType] /\ then' \in [Workers -> ThenType]
  BY DEF TypeOK, Drifts
<1>2. ASSUME NEW w \in Workers
      PROVE  /\ At(w)' = "absorbing" <=> pc'[w] = "absorbing"
             /\ Holding(w)' <=> At(w)' \in {"sequencing", "drained", "saturated"}
  BY <1>1 DEF At, Holding, ThenType
<1>3. ASSUME NEW w \in Workers PROVE PassOK(w)' /\ (Holding(w)' <=> Holding(w))
  <2>1. PassOK(w) /\ (At(w)' = At(w) \/ (At(w) = "waiting" /\ At(w)' = "awake"))
    BY DEF PassInv, Drifts
  <2>2. /\ At(w) = "absorbing" <=> pc[w] = "absorbing"
        /\ Holding(w) <=> At(w) \in {"sequencing", "drained", "saturated"}
    BY <1>1, AtPlain
  <2>3. Holding(w)' <=> Holding(w)
    BY <1>2, <2>1, <2>2
  <2>4. pc'[w] = "absorbing" <=> pc[w] = "absorbing"
    BY <1>2, <2>1, <2>2
  <2>5. PassOK(w)'
    BY <2>1, <2>4 DEF PassOK
  <2> QED BY <2>3, <2>5
<1>4. PassInv'
  BY <1>3 DEF PassInv
<1>5. ClaimsExact'
  BY <1>3 DEF ClaimsExact
<1> QED BY <1>4, <1>5

\* A producer commits.
LEMMA CommitStep ==
    ASSUME IndInv, NEW p \in Partitions, Commit(p) PROVE IndInv'
<1> USE DEF IndInv, Commit, inboxVars, schedVars, passVars, coldVars
<1>1. TypeOK'
  BY CapAssumption DEF TypeOK
<1>2. PassInv' /\ CoalesceSafe'
  BY DEF PassInv, PassOK, At, CoalesceSafe
<1>3. ClaimsExact'
  BY DEF ClaimsExact, Holding
<1>4. SignalKept'
  <2> SUFFICES ASSUME NEW q \in Partitions, rows'[q] > 0, unfired'[q] = 0, q \notin cold'
               PROVE  Signalled(q)'
    BY DEF SignalKept
  <2>1. q # p /\ rows[q] > 0 /\ unfired[q] = 0
    BY DEF TypeOK
  <2> QED BY <2>1 DEF SignalKept, Signalled
<1>5. WakeupKept'
  BY DEF WakeupKept
<1> QED BY <1>1, <1>2, <1>3, <1>4, <1>5

\* Wake::fire pushes.
LEMMA FireStep ==
    ASSUME IndInv, NEW p \in Partitions, Fire(p) PROVE IndInv'
<1> USE DEF IndInv, schedVars, passVars, coldVars
<1>0. UNCHANGED <<rows, schedVars, permit, pc, then, passVars, coldVars, commits, cold, faults>>
  BY DEF Fire
<1>1. p \in queue' /\ queue' = queue \cup {p} /\ CoalesceSafe'
  BY PushFacts DEF Fire
<1>2. waking' \in Nat /\ waking' > 0 /\ unfired' = [unfired EXCEPT ![p] = @ - 1] /\ unfired[p] > 0
  BY DEF Fire, TypeOK
<1>3. TypeOK'
  BY <1>0, <1>1, <1>2 DEF TypeOK, CoalesceSafe
<1>4. PassInv' /\ ClaimsExact'
  BY <1>0 DEF PassInv, PassOK, At, ClaimsExact, Holding
<1>5. SignalKept'
  <2> SUFFICES ASSUME NEW q \in Partitions, rows'[q] > 0, unfired'[q] = 0, q \notin cold'
               PROVE  Signalled(q)'
    BY DEF SignalKept
  <2>1. CASE q = p
    BY <1>1, <2>1 DEF Signalled
  <2>2. CASE q # p
    BY <1>0, <1>1, <1>2, <2>2 DEF SignalKept, Signalled, TypeOK
  <2> QED BY <2>1, <2>2
<1>6. WakeupKept'
  BY <1>0, <1>2 DEF WakeupKept
<1> QED BY <1>1, <1>3, <1>4, <1>5, <1>6

\* Any notify_one.
LEMMA NotifyStep ==
    ASSUME IndInv, Drifts, Alarmed, permit' \in {0, 1},
           UNCHANGED <<rows, unfired, inboxVars, schedVars, passVars, found, commits, cold, faults>>,
           waking' \in Nat, rpc' \in {"scan", "push", "notify", "wake"}
    PROVE  IndInv'
<1> USE DEF IndInv
<1>1. TypeOK'
  BY DEF TypeOK, Drifts, inboxVars, schedVars, passVars
<1>2. PassInv' /\ ClaimsExact' /\ CoalesceSafe'
  BY WakeFrame DEF schedVars, inboxVars, CoalesceSafe
<1>3. SignalKept'
  <2>1. ASSUME NEW u \in Workers, pc'[u] = "drained" PROVE pc[u] = "drained"
    <3>1. At(u)' = "drained"
      BY <2>1 DEF At
    <3>2. At(u) = "drained"
      BY <3>1 DEF Drifts
    <3> QED BY <3>2, AtPlain DEF TypeOK
  <2> QED BY <2>1 DEF SignalKept, Signalled, inboxVars, schedVars, passVars
<1>4. WakeupKept'
  BY DEF WakeupKept, Alarmed
<1> QED BY <1>1, <1>2, <1>3, <1>4

\* A Wake is dropped unfired.
LEMMA LeakStep ==
    ASSUME IndInv, NEW p \in Partitions, Leak(p) PROVE IndInv'
<1> USE DEF IndInv, Leak, inboxVars, schedVars, passVars, coldVars
<1>1. TypeOK'
  BY CapAssumption DEF TypeOK, Fault
<1>2. PassInv' /\ CoalesceSafe'
  BY DEF PassInv, PassOK, At, CoalesceSafe
<1>3. ClaimsExact'
  BY DEF ClaimsExact, Holding
<1>4. SignalKept'
  <2> SUFFICES ASSUME NEW q \in Partitions, rows'[q] > 0, unfired'[q] = 0, q \notin cold'
               PROVE  Signalled(q)'
    BY DEF SignalKept
  <2>1. q # p /\ rows[q] > 0 /\ unfired[q] = 0 /\ q \notin cold
    BY DEF TypeOK
  <2> QED BY <2>1 DEF SignalKept, Signalled
<1>5. WakeupKept'
  BY DEF WakeupKept
<1> QED BY <1>1, <1>2, <1>3, <1>4, <1>5

\* A cooldown ends.
LEMMA CooldownEndsStep ==
    ASSUME IndInv, NEW p \in Partitions, CooldownEnds(p) PROVE IndInv'
<1> USE DEF IndInv, CooldownEnds, inboxVars, schedVars, passVars, coldVars
<1>1. TypeOK'
  BY DEF TypeOK
<1>2. PassInv' /\ CoalesceSafe'
  BY DEF PassInv, PassOK, At, CoalesceSafe
<1>3. ClaimsExact'
  BY DEF ClaimsExact, Holding
<1>4. SignalKept'
  BY DEF SignalKept, Signalled
<1>5. WakeupKept'
  BY DEF WakeupKept
<1> QED BY <1>1, <1>2, <1>3, <1>4, <1>5

\* The reconciler scans.
LEMMA ReconcileScanStep ==
    ASSUME IndInv, ReconcileScan PROVE IndInv'
<1> USE DEF IndInv, ReconcileScan, inboxVars, schedVars, passVars
<1>1. TypeOK'
  BY DEF TypeOK, Dirty
<1>2. PassInv' /\ CoalesceSafe'
  BY DEF PassInv, PassOK, At, CoalesceSafe
<1>3. ClaimsExact'
  BY DEF ClaimsExact, Holding
<1>4. SignalKept'
  BY DEF SignalKept, Signalled
<1>5. WakeupKept'
  BY DEF WakeupKept
<1> QED BY <1>1, <1>2, <1>3, <1>4, <1>5

\* The reconciler pushes.
LEMMA ReconcilePushStep ==
    ASSUME IndInv, NEW p \in Partitions, ReconcilePush(p) PROVE IndInv'
<1> USE DEF IndInv, schedVars, passVars
<1>0. UNCHANGED <<rows, unfired, waking, schedVars, permit, pc, then, passVars, commits, faults>>
  BY DEF ReconcilePush
<1>1. p \in queue' /\ queue' = queue \cup {p} /\ CoalesceSafe'
  BY PushFacts DEF ReconcilePush
<1>2. /\ found' = found \ {p} /\ cold' = cold \ {p} /\ rpc' \in {"push", "notify", "wake"}
      /\ rpc' = "notify" \/ queue' = queue
  BY DEF ReconcilePush, AfterPush, Suppress, inboxVars
<1>3. TypeOK'
  BY <1>0, <1>1, <1>2 DEF TypeOK, CoalesceSafe
<1>4. PassInv' /\ ClaimsExact'
  BY <1>0 DEF PassInv, PassOK, At, ClaimsExact, Holding
<1>5. SignalKept'
  <2> SUFFICES ASSUME NEW q \in Partitions, rows'[q] > 0, unfired'[q] = 0, q \notin cold'
               PROVE  Signalled(q)'
    BY DEF SignalKept
  <2>1. CASE q = p
    BY <1>1, <2>1 DEF Signalled
  <2>2. CASE q # p
    BY <1>0, <1>1, <1>2, <2>2 DEF SignalKept, Signalled
  <2> QED BY <2>1, <2>2
<1>6. WakeupKept'
  <2>1. rpc = "push"
    BY DEF ReconcilePush
  <2> QED BY <1>0, <1>2, <2>1 DEF WakeupKept
<1> QED BY <1>1, <1>3, <1>4, <1>5, <1>6

-----------------------------------------------------------------------------
(* Steps of a sequencer worker *)

\* Idle: the stored permit is taken, or the worker sleeps.
LEMMA WaitStep ==
    ASSUME IndInv, NEW w \in Workers, Wait(w) PROVE IndInv'
<1> USE DEF IndInv, Wait, inboxVars, schedVars, passVars, coldVars
<1>1. TypeOK'
  BY DEF TypeOK, PcType
<1>2. PassInv' /\ CoalesceSafe'
  BY DEF PassInv, PassOK, At, CoalesceSafe, TypeOK
<1>3. ClaimsExact'
  <2>1. \A u \in Workers : Holding(u)' <=> Holding(u)
    BY DEF Holding, TypeOK
  <2> QED BY <2>1 DEF ClaimsExact
<1>4. SignalKept'
  BY DEF SignalKept, Signalled, TypeOK
<1>5. WakeupKept'
  BY DEF WakeupKept, TypeOK
<1> QED BY <1>1, <1>2, <1>3, <1>4, <1>5

\* The inbox goes into the worker's buffer.
LEMMA TakeDrainStep ==
    ASSUME IndInv, NEW w \in Workers, TakeDrain(w) PROVE IndInv'
<1> USE DEF IndInv, TakeDrain, inboxVars, schedVars, coldVars
<1>1. TypeOK'
  BY DEF TypeOK, PcType
<1>2. PassInv' /\ CoalesceSafe'
  BY DEF PassInv, PassOK, At, CoalesceSafe, TypeOK
<1>3. ClaimsExact'
  <2>1. \A u \in Workers : Holding(u)' <=> Holding(u)
    BY DEF Holding, TypeOK
  <2> QED BY <2>1 DEF ClaimsExact
<1>4. SignalKept'
  <2> SUFFICES ASSUME NEW q \in Partitions, Signalled(q) PROVE Signalled(q)'
    BY DEF SignalKept
  <2>1. CASE q \in queue
    <3>1. q \in buffer'[w]
      BY <2>1 DEF TypeOK
    <3> QED BY <3>1 DEF Signalled
  <2>2. CASE q \in pending \cup redirtied
    BY <2>2 DEF Signalled
  <2>3. CASE \E u \in Workers : q \in buffer[u]
    <3>1. PICK u \in Workers : q \in buffer[u]
      BY <2>3
    <3>2. u # w
      BY <3>1 DEF PassInv, PassOK
    <3>3. q \in buffer'[u]
      BY <3>1, <3>2 DEF TypeOK
    <3> QED BY <3>3 DEF Signalled
  <2>4. CASE \E u \in Workers : guard[u] = q /\ pc[u] # "drained"
    BY <2>4 DEF Signalled, TypeOK
  <2> QED BY <2>1, <2>2, <2>3, <2>4 DEF Signalled
<1>5. WakeupKept'
  BY DEF WakeupKept, TypeOK
<1> QED BY <1>1, <1>2, <1>3, <1>4, <1>5

\* take() finds eligible work.
LEMMA TakePopStep ==
    ASSUME IndInv, NEW w \in Workers, TakePop(w) PROVE IndInv'
<1> USE DEF IndInv
<1> DEFINE pend == pending \cup (buffer[w] \ claimed)
<1>1. PICK p \in pend \ cooling :
        /\ pending' = pend \ {p}
        /\ redirtied' = redirtied \cup (buffer[w] \cap claimed)
        /\ claimed' = claimed \cup {p}
        /\ late' = late \ {p}
        /\ guard' = [guard EXCEPT ![w] = p]
        /\ GoNotify(w, "sequencing") \/ Go(w, "sequencing")
  BY DEF TakePop, Absorb, Eligible
<1>2. /\ pc[w] = "absorbing"
      /\ buffer' = [buffer EXCEPT ![w] = {}]
      /\ UNCHANGED <<rows, unfired, waking, inboxVars, cooling, permit, iter, got, coldVars,
                     commits, cold, faults>>
  BY DEF TakePop
<1>3. Reaches(w, "sequencing")
  BY <1>1, GoNotifyReaches, GoReaches DEF PcType, ThenType
<1>4. /\ \A u \in Workers : u # w => (Holding(u)' <=> Holding(u))
      /\ Holding(w)'
      /\ \A u \in Workers : u # w => pc'[u] = pc[u] /\ At(u)' = At(u)
      /\ pc'[w] \in {"sequencing", "notifying"} /\ At(w)' = "sequencing"
  BY <1>3, ReachesFacts DEF PcType
<1>5. p \in Partitions /\ p \notin claimed
  BY <1>1 DEF TypeOK, ClaimsExact
<1>6. ~Holding(w) /\ At(w) = "absorbing"
  BY <1>2 DEF Holding, At
<1>7. TypeOK'
  <2>1. pending' \subseteq Partitions /\ cooling' \subseteq pending' /\ late' \subseteq pending'
    BY <1>1, <1>2 DEF TypeOK
  <2>2. claimed' \subseteq Partitions /\ redirtied' \subseteq Partitions
    BY <1>1, <1>5 DEF TypeOK
  <2>3. guard' \in [Workers -> Partitions \cup {NoPartition}]
    BY <1>1, <1>5 DEF TypeOK
  <2>4. buffer' \in [Workers -> SUBSET Partitions]
    BY <1>2 DEF TypeOK
  <2> QED BY <1>2, <1>3, <2>1, <2>2, <2>3, <2>4 DEF TypeOK, Reaches, inboxVars, coldVars
<1>8. PassInv'
  <2> SUFFICES ASSUME NEW u \in Workers PROVE PassOK(u)'
    BY DEF PassInv
  <2>0. PassOK(u) /\ PassOK(w)
    BY DEF PassInv
  <2>1. CASE u = w
    BY <1>1, <1>2, <1>4, <1>5, <1>6, <2>0, <2>1, SizeAssumption DEF PassOK, TypeOK
  <2>2. CASE u # w
    <3>1. /\ pc'[u] = pc[u] /\ At(u)' = At(u) /\ guard'[u] = guard[u]
          /\ iter'[u] = iter[u] /\ buffer'[u] = buffer[u]
      BY <1>1, <1>2, <1>4, <2>2 DEF TypeOK
    <3> QED BY <2>0, <3>1 DEF PassOK
  <2> QED BY <2>1, <2>2
<1>9. ClaimsExact'
  <2>1. pending' \cap claimed' = {} /\ redirtied' \subseteq claimed'
    BY <1>1 DEF ClaimsExact
  <2>2. \A u \in Workers : u # w => (Holding(u)' <=> Holding(u)) /\ guard'[u] = guard[u]
    BY <1>1, <1>4 DEF TypeOK
  <2>3. Holding(w)' /\ guard'[w] = p /\ ~Holding(w)
    BY <1>1, <1>4, <1>6 DEF TypeOK
  <2>4. claimed' = {guard'[u] : u \in {x \in Workers : Holding(x)'}}
    <3>1. ASSUME NEW q \in claimed' PROVE \E u \in Workers : Holding(u)' /\ q = guard'[u]
      BY <1>1, <2>2, <2>3 DEF ClaimsExact
    <3>2. ASSUME NEW u \in Workers, Holding(u)' PROVE guard'[u] \in claimed'
      BY <1>1, <2>2, <2>3, <3>2 DEF ClaimsExact
    <3> QED BY <3>1, <3>2
  <2>5. ASSUME NEW u \in Workers, NEW x \in Workers, u # x, Holding(u)', Holding(x)'
        PROVE  guard'[u] # guard'[x]
    BY <1>5, <2>2, <2>3, <2>5 DEF ClaimsExact
  <2> QED BY <2>1, <2>4, <2>5 DEF ClaimsExact, Holding
<1>10. CoalesceSafe'
  BY <1>2 DEF CoalesceSafe, inboxVars
<1>11. SignalKept'
  <2> SUFFICES ASSUME NEW q \in Partitions, Signalled(q) PROVE Signalled(q)'
    BY <1>2 DEF SignalKept
  <2>1. CASE q = p
    BY <1>1, <1>4, <2>1 DEF Signalled, TypeOK
  <2>2. CASE q # p /\ (q \in queue \cup pending \cup redirtied \/ q \in buffer[w])
    BY <1>1, <1>2, <2>2 DEF Signalled, inboxVars
  <2>3. CASE \E u \in Workers : u # w /\ q \in buffer[u]
    BY <1>2, <2>3 DEF Signalled, TypeOK
  <2>4. CASE \E u \in Workers : guard[u] = q /\ pc[u] # "drained"
    <3>1. PICK u \in Workers : guard[u] = q /\ pc[u] # "drained"
      BY <2>4
    <3>2. u # w
      BY <1>6, <3>1, NoPartitionAssumption DEF PassInv, PassOK
    <3> QED BY <1>1, <1>4, <3>1, <3>2 DEF Signalled, TypeOK
  <2> QED BY <2>1, <2>2, <2>3, <2>4 DEF Signalled
<1>12. WakeupKept'
  <2>1. queue' = queue /\ permit' = permit /\ waking' = waking /\ rpc' = rpc
    BY <1>2 DEF inboxVars, coldVars
  <2>2. \A u \in Workers : pc[u] \in {"awake", "notifying"} => pc'[u] \in {"awake", "notifying"}
    BY <1>2, <1>4
  <2>3. pc'[w] \notin {"idle", "waiting"}
    BY <1>4
  <2> QED BY <2>1, <2>2, <2>3 DEF WakeupKept
<1> QED BY <1>7, <1>8, <1>9, <1>10, <1>11, <1>12

\* take() finds none.
LEMMA TakeNoneStep ==
    ASSUME IndInv, NEW w \in Workers, TakeNone(w) PROVE IndInv'
<1> USE DEF IndInv
<1>1. /\ pc[w] = "absorbing" /\ pc' = [pc EXCEPT ![w] = "idle"] /\ then' = then
      /\ pending' = pending \cup (buffer[w] \ claimed) /\ pending' \ cooling = {}
      /\ redirtied' = redirtied \cup (buffer[w] \cap claimed)
      /\ buffer' = [buffer EXCEPT ![w] = {}]
      /\ UNCHANGED <<rows, unfired, waking, inboxVars, cooling, claimed, late, permit,
                     guard, iter, got, coldVars, commits, cold, faults>>
  BY DEF TakeNone, Absorb, Eligible, Go
<1>2. TypeOK'
  BY <1>1 DEF TypeOK, PcType, inboxVars, coldVars
<1>3. PassInv' /\ CoalesceSafe'
  BY <1>1 DEF PassInv, PassOK, At, CoalesceSafe, TypeOK, inboxVars
<1>4. ClaimsExact'
  <2>1. \A u \in Workers : Holding(u)' <=> Holding(u)
    BY <1>1 DEF Holding, TypeOK
  <2>2. pending' \cap claimed' = {} /\ redirtied' \subseteq claimed'
    BY <1>1 DEF ClaimsExact
  <2> QED BY <1>1, <2>1, <2>2 DEF ClaimsExact
<1>5. SignalKept'
  <2> SUFFICES ASSUME NEW q \in Partitions, Signalled(q) PROVE Signalled(q)'
    BY <1>1 DEF SignalKept
  <2>1. CASE q \in queue \cup pending \cup redirtied \/ q \in buffer[w]
    BY <1>1, <2>1 DEF Signalled, inboxVars
  <2>2. CASE \E u \in Workers : u # w /\ q \in buffer[u]
    BY <1>1, <2>2 DEF Signalled, TypeOK
  <2>3. CASE \E u \in Workers : guard[u] = q /\ pc[u] # "drained"
    BY <1>1, <2>3 DEF Signalled, TypeOK
  <2> QED BY <2>1, <2>2, <2>3 DEF Signalled
<1>6. WakeupKept'
  BY <1>1 DEF WakeupKept, TypeOK, inboxVars, coldVars
<1> QED BY <1>2, <1>3, <1>4, <1>5, <1>6

\* One transaction of process_partition.
LEMMA IterationStep ==
    ASSUME IndInv, NEW w \in Workers, Iteration(w) PROVE IndInv'
<1> USE DEF IndInv
<1> DEFINE p == guard[w]
           n == IF rows[p] < Batch THEN rows[p] ELSE Batch
<1>0. pc[w] = "sequencing" /\ p \in Partitions /\ iter[w] < MaxInner /\ iter[w] \in Nat
  BY DEF Iteration, PassInv, PassOK, At, TypeOK
<1>1. /\ rows' = [rows EXCEPT ![p] = @ - n]
      /\ cold' = IF n = rows[p] THEN cold \ {p} ELSE cold
      /\ got' = IF n > 0 THEN got \cup {w} ELSE got
      /\ iter' = [iter EXCEPT ![w] = IF n = Batch THEN @ + 1 ELSE @]
      /\ pc' = [pc EXCEPT ![w] = IF n < Batch THEN "drained"
                                   ELSE IF LastIteration(w) THEN "saturated"
                                   ELSE "sequencing"]
      /\ then' = then
      /\ UNCHANGED <<unfired, waking, inboxVars, schedVars, permit, buffer, guard, coldVars,
                     commits, faults>>
  BY DEF Iteration, Go
<1>2. n \in Nat /\ n <= rows[p] /\ n <= Batch /\ rows[p] \in Nat
  BY <1>0, SizeAssumption DEF TypeOK
<1> HIDE DEF n
<1>3. \/ n < Batch /\ n = rows[p] /\ pc'[w] = "drained" /\ iter'[w] = iter[w]
      \/ n = Batch /\ pc'[w] = "saturated" /\ iter'[w] = iter[w] + 1
      \/ n = Batch /\ pc'[w] = "sequencing" /\ iter'[w] = iter[w] + 1 /\ iter'[w] < MaxInner
  <2>1. CASE n < Batch
    <3>1. n = rows[p]
      BY <1>2, <2>1, SizeAssumption DEF n
    <3>2. pc'[w] = "drained"
      BY <1>1, <2>1 DEF TypeOK
    <3>3. iter'[w] = iter[w]
      BY <1>1, <1>2, <2>1, SizeAssumption DEF TypeOK
    <3> QED BY <2>1, <3>1, <3>2, <3>3
  <2>2. CASE n = Batch
    <3>1. iter'[w] = iter[w] + 1
      BY <1>1, <2>2 DEF TypeOK
    <3>2. ~(n < Batch)
      BY <2>2, SizeAssumption
    <3>3. CASE LastIteration(w)
      BY <1>1, <2>2, <3>1, <3>2, <3>3 DEF TypeOK
    <3>4. CASE ~LastIteration(w)
      <4>1. pc'[w] = "sequencing"
        BY <1>1, <2>2, <3>2, <3>4 DEF TypeOK
      <4>2. iter[w] + 1 < MaxInner
        BY <1>0, <3>4, SizeAssumption DEF LastIteration
      <4> QED BY <2>2, <3>1, <4>1, <4>2
    <3> QED BY <3>3, <3>4
  <2> QED BY <1>2, <2>1, <2>2, SizeAssumption
<1>4. \A u \in Workers : u # w => pc'[u] = pc[u] /\ iter'[u] = iter[u] /\ At(u)' = At(u)
  BY <1>1 DEF TypeOK, At
<1>5. pc' \in [Workers -> PcType] /\ iter' \in [Workers -> 0..MaxInner]
  <2>1. pc' \in [Workers -> PcType]
    BY <1>1 DEF TypeOK, PcType
  <2>2. iter[w] + 1 \in 0..MaxInner
    BY <1>0, SizeAssumption
  <2>3. iter' \in [Workers -> 0..MaxInner]
    BY <1>1, <2>2 DEF TypeOK
  <2> QED BY <2>1, <2>3
<1>6. TypeOK'
  <2>1. rows' \in [Partitions -> Nat]
    BY <1>0, <1>1, <1>2 DEF TypeOK
  <2>2. got' \subseteq Workers /\ cold' \subseteq Partitions
    BY <1>1 DEF TypeOK
  <2> QED BY <1>1, <1>5, <2>1, <2>2 DEF TypeOK, inboxVars, schedVars, coldVars
<1>7. PassInv'
  <2> SUFFICES ASSUME NEW u \in Workers PROVE PassOK(u)'
    BY DEF PassInv
  <2>0. PassOK(u) /\ PassOK(w)
    BY DEF PassInv
  <2>1. CASE u = w
    BY <1>0, <1>1, <1>3, <2>0, <2>1 DEF PassOK, At
  <2>2. CASE u # w
    BY <1>1, <1>4, <2>0, <2>2 DEF PassOK
  <2> QED BY <2>1, <2>2
<1>8. ClaimsExact'
  <2>1. \A u \in Workers : Holding(u)' <=> Holding(u)
    BY <1>0, <1>1, <1>3, <1>4 DEF Holding
  <2> QED BY <1>1, <2>1 DEF ClaimsExact, schedVars
<1>9. CoalesceSafe'
  BY <1>1 DEF CoalesceSafe, inboxVars
<1>10. SignalKept'
  <2> SUFFICES ASSUME NEW q \in Partitions, rows'[q] > 0, unfired'[q] = 0, q \notin cold'
               PROVE  Signalled(q)'
    BY DEF SignalKept
  <2>1. CASE q = p
    <3>1. n # rows[p]
      BY <1>0, <1>1, <1>2, <2>1 DEF TypeOK
    <3>2. pc'[w] # "drained"
      BY <1>3, <3>1
    <3> QED BY <1>1, <2>1, <3>2 DEF Signalled
  <2>2. CASE q # p
    <3>1. Signalled(q)
      BY <1>1, <2>2 DEF SignalKept, TypeOK
    <3> QED BY <1>1, <1>4, <2>2, <3>1 DEF Signalled, inboxVars, schedVars
  <2> QED BY <2>1, <2>2
<1>11. WakeupKept'
  <2>1. pc'[w] \notin {"idle", "waiting"}
    BY <1>3
  <2>2. \A u \in Workers : pc[u] \in {"awake", "notifying"} => pc'[u] = pc[u]
    BY <1>0, <1>4
  <2> QED BY <1>1, <2>1, <2>2 DEF WakeupKept, inboxVars, schedVars, coldVars
<1> QED BY <1>6, <1>7, <1>8, <1>9, <1>10, <1>11

-----------------------------------------------------------------------------
(* Steps that give a claim up *)

\* What they share: w's claim is gone, nobody else's is touched, and w goes on to
\* x with or without a notification.
GivesUp(w, x) ==
    /\ pc[w] \in {"sequencing", "drained", "saturated"}
    /\ claimed' = claimed \ {guard[w]} /\ redirtied' = redirtied \ {guard[w]}
    /\ pending' \in {pending, pending \cup {guard[w]}}
    /\ Reaches(w, x)
    /\ UNCHANGED <<rows, unfired, waking, inboxVars, permit, coldVars, commits, cold>>
    /\ faults' \in 0..MaxFaults

\* w's guard is dropped, or kept for a push.
GuardGone(w, x) ==
    \/ x \in {"idle", "awake"} /\ EndPass(w)
    \/ x = "repush" /\ UNCHANGED passVars

\* Claims stay exact, passes well formed and the inbox as it was.
LEMMA GivesUpFrame ==
    ASSUME IndInv, NEW w \in Workers, NEW x \in {"idle", "awake", "repush"},
           GivesUp(w, x), GuardGone(w, x)
    PROVE  /\ PassInv' /\ ClaimsExact' /\ CoalesceSafe'
           /\ guard[w] \in Partitions /\ guard[w] \in claimed
           /\ pc'[w] \in {x, "notifying"} /\ \A u \in Workers : u # w => pc'[u] = pc[u]
           /\ \A u \in Workers : u # w => guard'[u] = guard[u]
           /\ buffer' = buffer
           /\ guard' \in [Workers -> Partitions \cup {NoPartition}]
           /\ iter' \in [Workers -> 0..MaxInner]
           /\ got' \subseteq Workers
<1> USE DEF IndInv
<1>1. guard[w] \in Partitions /\ guard[w] \in claimed
  <2>1. Holding(w) /\ PassOK(w) /\ At(w) \in {"sequencing", "drained", "saturated"}
    BY DEF GivesUp, PassInv, Holding, At
  <2> QED BY <2>1 DEF PassOK, ClaimsExact
<1>2. /\ \A u \in Workers : u # w => (Holding(u)' <=> Holding(u)) /\ pc'[u] = pc[u] /\ At(u)' = At(u)
      /\ Holding(w) /\ ~Holding(w)' /\ pc'[w] \in {x, "notifying"} /\ At(w)' = x
  BY ReachesFacts DEF GivesUp, PcType, Holding
<1>3. /\ \A u \in Workers : u # w => guard'[u] = guard[u] /\ iter'[u] = iter[u]
      /\ buffer' = buffer
      /\ x \in {"idle", "awake"} => guard'[w] = NoPartition /\ iter'[w] = 0
      /\ x = "repush" => guard'[w] = guard[w]
  BY DEF GuardGone, EndPass, passVars, TypeOK
<1>4. /\ guard' \in [Workers -> Partitions \cup {NoPartition}]
      /\ iter' \in [Workers -> 0..MaxInner]
      /\ got' \subseteq Workers
  BY SizeAssumption DEF GuardGone, EndPass, passVars, TypeOK
<1>5. PassInv'
  <2> SUFFICES ASSUME NEW u \in Workers PROVE PassOK(u)'
    BY DEF PassInv
  <2>1. CASE u = w
    <3>1. buffer[w] = {}
      BY DEF GivesUp, Holding, PassInv, PassOK
    <3> QED BY <1>1, <1>2, <1>3, <2>1, <3>1 DEF PassOK
  <2>2. CASE u # w
    <3>1. PassOK(u)
      BY DEF PassInv
    <3> QED BY <1>2, <1>3, <2>2, <3>1 DEF PassOK
  <2> QED BY <2>1, <2>2
<1>6. ClaimsExact'
  <2>1. pending' \cap claimed' = {} /\ redirtied' \subseteq claimed'
    BY DEF GivesUp, ClaimsExact
  <2>2. \A u \in Workers : u # w => (Holding(u)' <=> Holding(u)) /\ guard'[u] = guard[u]
    BY <1>2, <1>3
  <2>3. ~Holding(w)' /\ Holding(w)
    BY <1>2
  <2>4. claimed' = {guard'[u] : u \in {y \in Workers : Holding(y)'}}
    <3>1. ASSUME NEW q \in claimed' PROVE \E u \in Workers : Holding(u)' /\ q = guard'[u]
      BY <2>2 DEF ClaimsExact, GivesUp
    <3>2. ASSUME NEW u \in Workers, Holding(u)' PROVE guard'[u] \in claimed'
      BY <2>2, <2>3, <3>2 DEF ClaimsExact, GivesUp
    <3> QED BY <3>1, <3>2
  <2>5. ASSUME NEW u \in Workers, NEW y \in Workers, u # y, Holding(u)', Holding(y)'
        PROVE  guard'[u] # guard'[y]
    BY <2>2, <2>3, <2>5 DEF ClaimsExact
  <2> QED BY <2>1, <2>4, <2>5 DEF ClaimsExact, Holding
<1>7. CoalesceSafe'
  BY DEF GivesUp, CoalesceSafe, inboxVars
<1> QED BY <1>1, <1>2, <1>3, <1>4, <1>5, <1>6, <1>7

\* The signal survives when the partition goes back to pending, or the worker
\* keeps it for a push, or it is drained and a redirtied flag is honoured.
LEMMA GivesUpSignal ==
    ASSUME IndInv, NEW w \in Workers, NEW x \in {"idle", "awake", "repush"},
           GivesUp(w, x), GuardGone(w, x),
           \/ guard[w] \in pending' \/ x = "repush"
           \/ pc[w] = "drained" /\ guard[w] \notin redirtied
    PROVE  SignalKept'
<1> USE DEF IndInv
<1>1. /\ pc'[w] \in {x, "notifying"} /\ \A u \in Workers : u # w => pc'[u] = pc[u]
      /\ \A u \in Workers : u # w => guard'[u] = guard[u]
      /\ buffer' = buffer
  BY GivesUpFrame
<1>2. /\ UNCHANGED <<rows, unfired, inboxVars, cold>>
      /\ pending \subseteq pending' /\ redirtied \ {guard[w]} \subseteq redirtied'
  BY DEF GivesUp
<1> SUFFICES ASSUME NEW q \in Partitions, Signalled(q) PROVE Signalled(q)'
  BY <1>2 DEF SignalKept
<1>3. CASE q \in pending' \/ q \in queue \/ \E u \in Workers : q \in buffer[u]
  BY <1>1, <1>2, <1>3 DEF Signalled, inboxVars
<1>4. CASE x = "repush" /\ q = guard[w]
  BY <1>1, <1>4 DEF Signalled, GuardGone, passVars
<1>5. CASE q \in redirtied /\ q # guard[w]
  BY <1>2, <1>5 DEF Signalled
<1>6. CASE \E u \in Workers : u # w /\ guard[u] = q /\ pc[u] # "drained"
  BY <1>1, <1>6 DEF Signalled
<1>7. CASE q \in pending
  BY <1>2, <1>7 DEF Signalled
<1> QED BY <1>3, <1>4, <1>5, <1>6, <1>7 DEF Signalled

\* Nobody that is awake or up goes to sleep but w.
LEMMA GivesUpWakeup ==
    ASSUME IndInv, NEW w \in Workers, NEW x \in {"idle", "awake", "repush"},
           GivesUp(w, x), GuardGone(w, x), NEW C,
           pending' \ (cooling' \cup late') # {} => C,
           C => permit' = 1 \/ \E u \in Workers : pc'[u] \notin {"idle", "waiting"}
    PROVE  WakeupKept'
<1> USE DEF IndInv
<1>1. \A u \in Workers : u # w => pc'[u] = pc[u]
  BY GivesUpFrame
<1>2. permit' = permit /\ queue' = queue /\ waking' = waking /\ rpc' = rpc
  BY DEF GivesUp, inboxVars, coldVars
<1>3. pc[w] \notin {"awake", "notifying"}
  BY DEF GivesUp
<1> QED BY <1>1, <1>2, <1>3 DEF WakeupKept

\* Types after a claim is given up.
LEMMA GivesUpTypes ==
    ASSUME IndInv, NEW w \in Workers, NEW x \in {"idle", "awake", "repush"},
           GivesUp(w, x), GuardGone(w, x), cooling' \subseteq pending', late' \subseteq pending'
    PROVE  TypeOK'
<1> USE DEF IndInv
<1>1. /\ guard[w] \in Partitions
      /\ buffer' = buffer
      /\ guard' \in [Workers -> Partitions \cup {NoPartition}]
      /\ iter' \in [Workers -> 0..MaxInner]
      /\ got' \subseteq Workers
  BY GivesUpFrame
<1>2. pending' \subseteq Partitions /\ claimed' \subseteq Partitions /\ redirtied' \subseteq Partitions
  BY <1>1 DEF GivesUp, TypeOK
<1> QED BY <1>1, <1>2 DEF GivesUp, TypeOK, Reaches, inboxVars, coldVars

\* guard.processed().
LEMMA ProcessedStep ==
    ASSUME IndInv, NEW w \in Workers, Processed(w) PROVE IndInv'
<1> USE DEF IndInv
<1> DEFINE x == IF pc[w] = "saturated" THEN "repush"
                ELSE IF w \in got THEN "awake" ELSE "idle"
<1>1. /\ pc[w] \in {"drained", "saturated"}
      /\ claimed' = claimed \ {guard[w]} /\ redirtied' = redirtied \ {guard[w]}
      /\ pending' = IF guard[w] \in redirtied THEN pending \cup {guard[w]} ELSE pending
      /\ IF ShouldNotify(guard[w]) THEN GoNotify(w, x) ELSE Go(w, x)
      /\ IF pc[w] = "saturated" THEN UNCHANGED passVars ELSE EndPass(w)
      /\ UNCHANGED <<rows, unfired, waking, inboxVars, cooling, late, permit, coldVars,
                     commits, cold, faults>>
  BY DEF Processed
<1>2. x \in {"idle", "awake", "repush"}
  OBVIOUS
<1>3. GuardGone(w, x)
  BY <1>1 DEF GuardGone
<1>4. guard[w] \in pending' \/ x = "repush" \/ (pc[w] = "drained" /\ guard[w] \notin redirtied)
  BY <1>1
<1> HIDE DEF x
<1>5. Reaches(w, x)
  BY <1>1, <1>2, GoReaches, GoNotifyReaches DEF PcType, ThenType
<1>6. GivesUp(w, x)
  BY <1>1, <1>5 DEF GivesUp, TypeOK
<1>7. cooling' \subseteq pending' /\ late' \subseteq pending'
  BY <1>1 DEF TypeOK
<1>8. pending' \ (cooling' \cup late') # {} => ShouldNotify(guard[w])
  BY <1>1 DEF ShouldNotify, HasReadyWork, Eligible
<1>9. ShouldNotify(guard[w]) => pc'[w] = "notifying"
  BY <1>1 DEF GoNotify, TypeOK
<1>10. ShouldNotify(guard[w]) =>
          permit' = 1 \/ \E u \in Workers : pc'[u] \notin {"idle", "waiting"}
  BY <1>9
<1>11. TypeOK'
  BY <1>2, <1>3, <1>6, <1>7, GivesUpTypes
<1>12. PassInv' /\ ClaimsExact' /\ CoalesceSafe'
  BY <1>2, <1>3, <1>6, GivesUpFrame
<1>13. SignalKept'
  BY <1>2, <1>3, <1>4, <1>6, GivesUpSignal
<1>14. WakeupKept'
  BY <1>2, <1>3, <1>6, <1>8, <1>10, GivesUpWakeup
<1> QED BY <1>11, <1>12, <1>13, <1>14

\* Skipped, panicked, or contended.
LEMMA RequeueStep ==
    ASSUME IndInv, NEW w \in Workers, NEW x \in {"idle", "repush"}, pc[w] = "sequencing",
           Fault, Requeue(w, x), GuardGone(w, x),
           UNCHANGED <<rows, unfired, waking, inboxVars, coldVars, commits, cold>>
    PROVE  IndInv'
<1> USE DEF IndInv
<1>1. /\ claimed' = claimed \ {guard[w]} /\ redirtied' = redirtied \ {guard[w]}
      /\ pending' = pending \cup {guard[w]} /\ cooling' = cooling /\ late' = late
      /\ permit' = permit /\ GoNotify(w, x)
  BY DEF Requeue
<1>2. Reaches(w, x)
  BY <1>1, GoNotifyReaches DEF ThenType
<1>3. pc'[w] = "notifying"
  BY <1>1 DEF GoNotify, TypeOK
<1>4. faults' \in 0..MaxFaults
  BY CapAssumption DEF Fault, TypeOK
<1>5. GivesUp(w, x)
  BY <1>1, <1>2, <1>4 DEF GivesUp
<1>6. x \in {"idle", "awake", "repush"} /\ guard[w] \in pending'
  BY <1>1
<1>7. cooling' \subseteq pending' /\ late' \subseteq pending'
  BY <1>1 DEF TypeOK
<1>8. TypeOK'
  BY <1>5, <1>6, <1>7, GivesUpTypes
<1>9. PassInv' /\ ClaimsExact' /\ CoalesceSafe'
  BY <1>5, <1>6, GivesUpFrame
<1>10. SignalKept'
  BY <1>5, <1>6, GivesUpSignal
<1>11. permit' = 1 \/ \E u \in Workers : pc'[u] \notin {"idle", "waiting"}
  BY <1>3
<1>12. WakeupKept'
  BY <1>5, <1>6, <1>11, GivesUpWakeup
<1> QED BY <1>8, <1>9, <1>10, <1>12

\* A database error: nobody is woken, but the worker itself stays up.
LEMMA SeqErrorStep ==
    ASSUME IndInv, NEW w \in Workers, SeqError(w) PROVE IndInv'
<1> USE DEF IndInv
<1>1. /\ pc[w] = "sequencing" /\ faults' \in 0..MaxFaults
      /\ claimed' = claimed \ {guard[w]} /\ redirtied' = redirtied \ {guard[w]}
      /\ pending' = pending \cup {guard[w]} /\ cooling' = cooling \cup {guard[w]}
      /\ Go(w, "awake") /\ permit' = permit /\ late' = late
      /\ EndPass(w)
      /\ UNCHANGED <<rows, unfired, waking, inboxVars, coldVars, commits, cold>>
  BY CapAssumption DEF SeqError, Fault, TypeOK
<1>2. Reaches(w, "awake")
  BY <1>1, GoReaches DEF PcType
<1>3. GivesUp(w, "awake") /\ GuardGone(w, "awake")
  BY <1>1, <1>2 DEF GivesUp, GuardGone
<1>4. guard[w] \in pending' /\ cooling' \subseteq pending' /\ late' \subseteq pending'
  BY <1>1 DEF TypeOK
<1>5. pc'[w] = "awake"
  BY <1>1 DEF TypeOK, Go
<1>6. TypeOK'
  BY <1>3, <1>4, GivesUpTypes
<1>7. PassInv' /\ ClaimsExact' /\ CoalesceSafe'
  BY <1>3, GivesUpFrame
<1>8. SignalKept'
  BY <1>3, <1>4, GivesUpSignal
<1>9. permit' = 1 \/ \E u \in Workers : pc'[u] \notin {"idle", "waiting"}
  BY <1>5
<1>10. WakeupKept'
  BY <1>3, <1>9, GivesUpWakeup
<1> QED BY <1>6, <1>7, <1>8, <1>10

\* The push after a saturated or contended pass.
LEMMA RepushStep ==
    ASSUME IndInv, NEW w \in Workers, Repush(w) PROVE IndInv'
<1> USE DEF IndInv
<1> DEFINE p == guard[w]
<1>0. /\ pc[w] = "repush" /\ p \in Partitions /\ EndPass(w)
      /\ Accept(p) \/ Suppress(p)
      /\ GoNotify(w, "awake") \/ Go(w, "awake")
      /\ UNCHANGED <<rows, unfired, waking, schedVars, permit, coldVars, commits, cold, faults>>
  BY DEF Repush, PassInv, PassOK, At
<1>1. Reaches(w, "awake")
  BY <1>0, GoNotifyReaches, GoReaches DEF PcType, ThenType
<1>2. p \in queue' /\ queue' = queue \cup {p} /\ CoalesceSafe'
  BY <1>0, PushFacts
<1>3. /\ \A u \in Workers : u # w => (Holding(u)' <=> Holding(u)) /\ pc'[u] = pc[u] /\ At(u)' = At(u)
      /\ ~Holding(w)' /\ pc'[w] \in {"awake", "notifying"} /\ At(w)' = "awake"
  BY <1>1, ReachesFacts DEF PcType
<1>4. /\ guard' = [guard EXCEPT ![w] = NoPartition] /\ iter' = [iter EXCEPT ![w] = 0]
      /\ got' = got \ {w} /\ buffer' = buffer
  BY <1>0 DEF EndPass
<1>5. TypeOK'
  BY <1>0, <1>1, <1>2, <1>4, SizeAssumption DEF TypeOK, Reaches, CoalesceSafe, schedVars, coldVars
<1>6. PassInv'
  BY <1>0, <1>3, <1>4 DEF PassInv, PassOK, TypeOK
<1>7. ClaimsExact'
  <2>1. \A u \in Workers : (Holding(u)' <=> Holding(u)) /\ (Holding(u) => guard'[u] = guard[u])
    BY <1>0, <1>3, <1>4 DEF Holding, TypeOK
  <2> QED BY <1>0, <2>1 DEF ClaimsExact, schedVars
<1>8. SignalKept'
  <2> SUFFICES ASSUME NEW q \in Partitions, Signalled(q) PROVE Signalled(q)'
    BY <1>0 DEF SignalKept
  <2>1. CASE q = p
    BY <1>2, <2>1 DEF Signalled
  <2>2. CASE q # p
    BY <1>0, <1>2, <1>3, <1>4, <2>2 DEF Signalled, schedVars, TypeOK
  <2> QED BY <2>1, <2>2
<1>9. WakeupKept'
  BY <1>3 DEF WakeupKept
<1> QED BY <1>2, <1>5, <1>6, <1>7, <1>8, <1>9

\* The notify_one a worker owes.
LEMMA WorkerNotifiesStep ==
    ASSUME IndInv, NEW w \in Workers, WorkerNotifies(w) PROVE IndInv'
<1>1. Drifts /\ Alarmed /\ permit' \in {0, 1}
  BY WorkerNotifiesDrifts DEF IndInv
<1> QED BY <1>1, NotifyStep DEF WorkerNotifies, IndInv, TypeOK, coldVars

-----------------------------------------------------------------------------
\* The invariant is inductive.
LEMMA NextInv == IndInv /\ [Next]_vars => IndInv'
<1> SUFFICES ASSUME IndInv, [Next]_vars PROVE IndInv'
  OBVIOUS
<1>1. ASSUME NEW w \in Workers, SeqSkipped(w) PROVE IndInv'
  BY <1>1, RequeueStep DEF SeqSkipped, GuardGone
<1>2. ASSUME NEW w \in Workers, SeqContention(w) PROVE IndInv'
  BY <1>2, RequeueStep DEF SeqContention, GuardGone
<1>3. ASSUME NEW w \in Workers, SequencerStep(w) PROVE IndInv'
  BY <1>1, <1>2, <1>3, WaitStep, WorkerNotifiesStep, TakeDrainStep, TakePopStep, TakeNoneStep, IterationStep,
     ProcessedStep, SeqErrorStep, RepushStep DEF SequencerStep
<1>4. ASSUME NEW p \in Partitions, PartitionStep(p) PROVE IndInv'
  BY <1>4, CommitStep, FireStep, LeakStep, CooldownEndsStep, ReconcilePushStep
  DEF PartitionStep
<1>5. CASE WakeNotifies
  <2>1. Drifts /\ Alarmed /\ permit' \in {0, 1}
    BY <1>5, NotifyOneDrifts DEF WakeNotifies, IndInv
  <2> QED BY <1>5, <2>1, NotifyStep DEF WakeNotifies, coldVars, IndInv, TypeOK
<1>6. CASE ReconcileNotifies
  <2>1. Drifts /\ Alarmed /\ permit' \in {0, 1}
    BY <1>6, NotifyOneDrifts DEF ReconcileNotifies, IndInv
  <2>2. rpc' \in {"scan", "push", "wake"}
    BY <1>6 DEF ReconcileNotifies, AfterPush
  <2> QED BY <1>6, <2>1, <2>2, NotifyStep DEF ReconcileNotifies, IndInv, TypeOK
<1>7. CASE UNCHANGED vars
  <2> USE <1>7 DEF IndInv, vars, inboxVars, schedVars, passVars, coldVars
  <2>1. TypeOK'
    BY DEF TypeOK
  <2>2. PassInv' /\ CoalesceSafe'
    BY DEF PassInv, PassOK, At, CoalesceSafe
  <2>3. ClaimsExact'
    BY DEF ClaimsExact, Holding
  <2>4. SignalKept'
    BY DEF SignalKept, Signalled
  <2>5. WakeupKept'
    BY DEF WakeupKept
  <2> QED BY <2>1, <2>2, <2>3, <2>4, <2>5
<1> QED BY <1>3, <1>4, <1>5, <1>6, <1>7, ReconcileScanStep DEF Next

\* The conjunction of everything below is an invariant.
LEMMA Inductive == Spec => []IndInv
BY InitInv, NextInv, PTL DEF Spec

-----------------------------------------------------------------------------
\* The inbox, the scheduler, the Notify and the workers keep their types; no pass
\* exceeds max_inner_iterations.
THEOREM TypeCorrect == Spec => []TypeOK
<1>1. IndInv => TypeOK
  BY DEF IndInv
<1> QED BY <1>1, Inductive, PTL

\* Two sequencers of an instance never work on the same partition, and no
\* partition is pending and claimed at once.
THEOREM ClaimsCorrect == Spec => []ClaimsExact
<1>1. IndInv => ClaimsExact
  BY DEF IndInv
<1> QED BY <1>1, Inductive, PTL

\* Coalescing suppresses no push whose entry has been drained already.
THEOREM CoalescingSafe == Spec => []CoalesceSafe
<1>1. IndInv => CoalesceSafe
  BY DEF IndInv
<1> QED BY <1>1, Inductive, PTL

\* Types, claims and coalescing hold together: between any two critical sections
\* each partition is accounted for once.
THEOREM PartitionsAccounted == Spec => []ClaimsSound
<1>1. TypeOK /\ ClaimsExact /\ CoalesceSafe => ClaimsSound
  BY DEF ClaimsSound
<1> QED BY <1>1, TypeCorrect, ClaimsCorrect, CoalescingSafe, PTL

\* No dirty signal is lost between inbox, buffers, scheduler and guards.
THEOREM SignalsCorrect == Spec => []SignalKept
<1>1. IndInv => SignalKept
  BY DEF IndInv
<1> QED BY <1>1, Inductive, PTL

\* No wakeup is lost: work that is ready never waits with every worker asleep and
\* no permit stored.
THEOREM WakeupsCorrect == Spec => []WakeupKept
<1>1. IndInv => WakeupKept
  BY DEF IndInv
<1> QED BY <1>1, Inductive, PTL
=============================================================================
