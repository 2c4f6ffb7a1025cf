------------------------------ MODULE MCLedger ------------------------------
(***************************************************************************)
(* An instance of Ledger for TLC: who calls what.                          *)
(***************************************************************************)
EXTENDS Ledger, TLC

CONSTANTS p1, p2, p3, p4, p5, k1, k2, f1, f2, x1, x2

\* x1 is posted into f1, x2 into f2.
MCPeriodOf == (x1 :> f1) @@ (x2 :> f2)

Posting(key, payload) == [kind |-> "post", key |-> key, payload |-> payload]
On(op, period) == [kind |-> op, period |-> period]
Queued(op, key, payload) == [kind |-> op, key |-> key, payload |-> payload]

Nothing == [kind |-> "nothing"]

\* A post, its repetition, the same key with another payload, another key.
MCPosts == (p1 :> Posting(k1, x1)) @@ (p2 :> Posting(k1, x1)) @@ (p3 :> Posting(k2, x1))
             @@ (p4 :> Posting(k1, x2)) @@ (p5 :> Nothing)

\* A queued posting, two appliers of it and a Fresh post with its key.
MCQueue == (p1 :> Queued("intake", k1, x1)) @@ (p2 :> Queued("apply", k1, x1))
             @@ (p3 :> Queued("apply", k1, x1)) @@ (p4 :> Posting(k1, x1))
             @@ (p5 :> Queued("intake", k1, x2))

\* A post into the period that is closed, reopened and closed again meanwhile.
MCClose == (p1 :> Posting(k1, x1)) @@ (p2 :> Nothing) @@ (p3 :> On("close", f1))
             @@ (p4 :> On("reopen", f1)) @@ (p5 :> On("close", f1))

\* Two periods are open, as the job that opens periods keeps them: each has a
\* posting, both are closed, and the daily tie-out runs meanwhile.
MCTieOut == (p1 :> Posting(k1, x1)) @@ (p2 :> Posting(k2, x2)) @@ (p3 :> On("close", f1))
              @@ (p4 :> On("close", f2)) @@ (p5 :> [kind |-> "tick"])

\* The verifier beside posts, and the job that opens periods.
MCVerify == (p1 :> Posting(k1, x1)) @@ (p2 :> Posting(k2, x1)) @@ (p3 :> [kind |-> "freeze"])
              @@ (p4 :> Posting(k2, x1)) @@ (p5 :> On("openPeriod", f1))

LedgerPlan(ops, fs, hurt, n) == [op |-> ops, open |-> fs, damage |-> hurt, attempts |-> n]

MCPlans ==
    {LedgerPlan(MCPosts, {f1, f2}, FALSE, 3), LedgerPlan(MCQueue, {f1, f2}, FALSE, 3),
     LedgerPlan(MCClose, {f1}, FALSE, 2), LedgerPlan(MCTieOut, {f1, f2}, FALSE, 1),
     LedgerPlan(MCVerify, {f1, f2}, TRUE, 2)}

\* The books with two open periods, alone.
MCTwoOpen == {LedgerPlan(MCTieOut, {f1, f2}, FALSE, 1)}
=============================================================================
