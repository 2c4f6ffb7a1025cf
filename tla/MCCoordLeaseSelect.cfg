\* The account management copy, whose fence is a SELECT.
SPECIFICATION Spec
CONSTANTS
    g1 = g1  g2 = g2  g3 = g3
    None = None
    Guards = {g1, g2, g3}
    Ttl = 2
    Drifts <- OneTickOff
    MaxTries = 2
    MaxClock = 4
    Libraries = {"am"}
SYMMETRY Interchangeable
INVARIANT
    WorkInTenure
CHECK_DEADLOCK FALSE
