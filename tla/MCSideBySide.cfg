\* Five plans of the ledger: postings, a queue, close and reopen, the tie-out,
\* the verifier.  Three letters, two callers that report in time, two failed
\* calls.  Two workers on a lease of two seconds of three ticks, with headroom
\* of one tick.
SPECIFICATION MCSpec
CONSTANTS
    p1 = p1  p2 = p2  p3 = p3  p4 = p4  p5 = p5
    k1 = k1  k2 = k2  f1 = f1  f2 = f2  x1 = x1  x2 = x2 
    None = None
    Procs = {p1, p2, p3, p4, p5}
    Keys = {k1, k2}
    Periods = {f1, f2}
    Payloads = {x1, x2}
    PeriodOf <- MCPeriodOf
    Plans <- MCPlans
    MaxAttempts = 3
    l1 = l1  l2 = l2  l3 = l3  c1 = c1  c2 = c2  w1 = w1  w2 = w2
    NoCaller = NoCaller
    Letters = {l1, l2, l3}
    Callers = {c1, c2}
    Limit = 2
    LateCallers = FALSE
    MaxLetterFaults = 2
    NoOne = NoOne
    Processors = {w1, w2}
    Second = 3
    Duration = 6
    Headroom = 1
    MaxTime = 14
INVARIANTS
    JournalSound
    PostedOnce
    CloseHolds
    NoFalseAlarm
    ClaimHonoured
PROPERTIES
    EventuallySettled
    HandlerExclusive
CHECK_DEADLOCK FALSE
