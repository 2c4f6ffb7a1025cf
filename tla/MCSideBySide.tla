---------------------------- MODULE MCSideBySide ----------------------------
(***************************************************************************)
(* Three components that share no state, side by side for TLC: the ledger, *)
(* the dead letters of the outbox and the timing of its leased passes.  In *)
(* a behaviour one of them runs, the one part names, and the others stay   *)
(* where they start; so each component's behaviours are those of its own   *)
(* specification, and its fairness is owed where it runs.                  *)
(***************************************************************************)
EXTENDS MCLedger, DeadLetters, LeaseTiming

CONSTANTS l1, l2, l3, c1, c2, w1, w2

VARIABLE part

MCInit ==
    /\ part \in {"ledger", "letters", "timing"}
    /\ Init /\ LettersInit /\ TimingInit
    /\ part # "ledger" => plan = LedgerPlan(MCPosts, {f1, f2}, FALSE, 3)

MCNext ==
    /\ \/ part = "ledger" /\ Next /\ UNCHANGED <<lettersVars, timingVars>>
       \/ part = "letters" /\ LettersNext /\ UNCHANGED <<vars, timingVars>>
       \/ part = "timing" /\ TimingNext /\ UNCHANGED <<vars, lettersVars>>
    /\ UNCHANGED <<part, plan>>

\* The fairness of LettersFairSpec, owed where the letters run.
MCFairness ==
    \A c \in Callers :
        /\ WF_lettersVars(part = "letters" /\ ReplaySelect(c))
        /\ WF_lettersVars(part = "letters" /\ (ReplayCommit(c) \/ DiscardCommit(c)))
        /\ \A l \in Letters :
              /\ WF_lettersVars(part = "letters" /\ ClaimTimesOut(c, l))
              /\ WF_lettersVars(part = "letters" /\ (Resolve(c, l) \/ DropLate(c, l)))

MCSpec ==
    MCInit /\ [][MCNext]_<<part, plan, vars, lettersVars, timingVars>> /\ MCFairness
=============================================================================
