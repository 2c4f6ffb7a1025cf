\* Books with two open periods, one of which is closed.
SPECIFICATION Spec
CONSTANTS
    p1 = p1  p2 = p2  p3 = p3  p4 = p4  p5 = p5
    k1 = k1  k2 = k2  f1 = f1  f2 = f2  x1 = x1  x2 = x2 
    None = None
    Procs = {p1, p2, p3, p4, p5}
    Keys = {k1, k2}
    Periods = {f1, f2}
    Payloads = {x1, x2}
    PeriodOf <- MCPeriodOf
    Plans <- MCTwoOpen
    MaxAttempts = 1
INVARIANT
    BaselineAddsUp
CHECK_DEADLOCK FALSE
