---------------------------- MODULE LeaseTiming -----------------------------
(***************************************************************************)
(* The two clocks of a leased pass.  The database counts the lease from    *)
(* NOW() of the acquiring transaction and in whole seconds; the worker     *)
(* counts the handler's budget on its own clock from before that           *)
(* transaction.  Nothing else keeps two handlers of a partition apart, so  *)
(* this module keeps time and leaves the messages to module Outbox.        *)
(*                                                                         *)
(* Time is discrete and the two clocks agree.  Statements take any time,   *)
(* a handler any time up to its deadline; the drop at the deadline is not  *)
(* delayed (the handler awaits often enough for its timer to be polled).   *)
(***************************************************************************)
EXTENDS Integers, FiniteSets

CONSTANTS
    Processors,     \* leased processor workers
    Second,         \* ticks per second
    Duration,       \* LeaseConfig::duration, in ticks
    Headroom,       \* LeaseConfig::headroom, in ticks
    MaxTime,        \* bound: when the clock stops
    NoOne           \* SQL NULL in locked_by

ASSUME TickAssumption == Second \in Nat \ {0} /\ MaxTime \in Nat

\* LeaseConfig::validate.
ASSUME LeaseConfigAssumption ==
    Duration \in Nat /\ Headroom \in Nat /\ Headroom < Duration

ASSUME NoOneAssumption == NoOne \notin Processors

VARIABLES
    now,
    lockedBy,       \* processor.locked_by
    lockedUntil,    \* processor.locked_until, 0 with locked_by NULL
    stage,          \* where each worker is in LeasedStrategy::process
    leaseStart      \* lease_start of each worker's pass

timingVars == <<now, lockedBy, lockedUntil, stage, leaseStart>>

TimingInit ==
    /\ now = 0
    /\ lockedBy = NoOne
    /\ lockedUntil = 0
    /\ stage = [w \in Processors |-> "idle"]
    /\ leaseStart = [w \in Processors |-> 0]

\* The lease the database is told to give: Duration::as_secs.
Lease == (Duration \div Second) * Second

\* lease_start is read before the lease is asked for.
BeginPass(w) ==
    /\ stage[w] = "idle"
    /\ leaseStart' = [leaseStart EXCEPT ![w] = now]
    /\ stage' = [stage EXCEPT ![w] = "acquiring"]
    /\ UNCHANGED <<now, lockedBy, lockedUntil>>

\* Mutant: an expiring lease is free a second early.
FreeEarly(t) == lockedBy = NoOne \/ lockedUntil < t + Second

\* lease_acquire's WHERE clause, NOW() being t.
Free(t) == lockedBy = NoOne \/ lockedUntil < t

\* lease_acquire.  NOW() is when the transaction began: after lease_start and
\* before the UPDATE gets the row.
AcquireSql(w) ==
    /\ stage[w] = "acquiring"
    /\ \E t \in leaseStart[w]..now :
          /\ Free(t)
          /\ lockedUntil' = t + Lease
    /\ lockedBy' = w
    /\ stage' = [stage EXCEPT ![w] = "acquired"]
    /\ UNCHANGED <<now, leaseStart>>

\* Another worker has the lease: the pass is over.
AcquireMissed(w) ==
    /\ stage[w] = "acquiring"
    /\ \E t \in leaseStart[w]..now : ~Free(t)
    /\ stage' = [stage EXCEPT ![w] = "idle"]
    /\ UNCHANGED <<now, lockedBy, lockedUntil, leaseStart>>

\* lease_start + handler_budget().
Deadline(w) == leaseStart[w] + (Duration - Headroom)

\* The transaction's answer arrives and the handler is polled for the first
\* time; timeout_at polls it before it looks at the clock.
HandlerStarts(w) ==
    /\ stage[w] = "acquired"
    /\ stage' = [stage EXCEPT ![w] = "handling"]
    /\ UNCHANGED <<now, lockedBy, lockedUntil, leaseStart>>

\* The handler returns, or is dropped at the deadline.
HandlerEnds(w) ==
    /\ stage[w] = "handling"
    /\ stage' = [stage EXCEPT ![w] = "acking"]
    /\ UNCHANGED <<now, lockedBy, lockedUntil, leaseStart>>

\* What lease_ack_advance, lease_record_retry and lease_release do to the lease.
Release == lockedBy' = NoOne /\ lockedUntil' = 0

\* lease_guarded_ack: whatever the result, a lease w holds is given back and one
\* it has lost is left alone.
Ack(w) ==
    /\ stage[w] = "acking"
    /\ IF lockedBy = w THEN Release ELSE UNCHANGED <<lockedBy, lockedUntil>>
    /\ stage' = [stage EXCEPT ![w] = "idle"]
    /\ UNCHANGED <<now, leaseStart>>

\* The process dies; its handler with it.
Crash(w) ==
    /\ stage[w] # "idle"
    /\ stage' = [stage EXCEPT ![w] = "idle"]
    /\ UNCHANGED <<now, lockedBy, lockedUntil, leaseStart>>

\* Time passes, but not over the deadline of a running handler.
Tick ==
    /\ now < MaxTime
    /\ \A w \in Processors : stage[w] = "handling" => now < Deadline(w)
    /\ now' = now + 1
    /\ UNCHANGED <<lockedBy, lockedUntil, stage, leaseStart>>

WorkerStep(w) ==
    \/ BeginPass(w) \/ AcquireSql(w) \/ AcquireMissed(w)
    \/ HandlerStarts(w) \/ HandlerEnds(w) \/ Ack(w) \/ Crash(w)

TimingNext == Tick \/ \E w \in Processors : WorkerStep(w)

TimingSpec == TimingInit /\ [][TimingNext]_timingVars

-----------------------------------------------------------------------------
(* Properties *)

Handling == {w \in Processors : stage[w] = "handling"}

\* The clock, the lease row and the workers hold values of their types; a lease
\* nobody has carries no locked_until.
TimingTypeOK ==
    /\ now \in 0..MaxTime
    /\ lockedBy \in Processors \cup {NoOne}
    /\ lockedUntil \in 0..(MaxTime + Lease)
    /\ lockedBy = NoOne => lockedUntil = 0
    /\ stage \in [Processors -> {"idle", "acquiring", "acquired", "handling", "acking"}]
    /\ leaseStart \in [Processors -> 0..MaxTime]

\* Two handlers of a partition never run through the same tick: at its deadline
\* a handler is gone before anybody can take its lease over, however long the
\* acquiring transaction took.
HandlerExclusive == [][now' # now => \A u, w \in Handling : u = w]_timingVars

\* A handler that is given time runs under a lease that is its worker's and has
\* at least the headroom left for the ack.
LeaseCoversHandler ==
    [][now' # now => \A w \in Handling : lockedBy = w /\ now' + Headroom <= lockedUntil]_timingVars
=============================================================================
