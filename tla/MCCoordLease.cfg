\* Both copies of the lease, three acquisitions, and clocks that are off by one.
SPECIFICATION Spec
CONSTANTS
    g1 = g1  g2 = g2  g3 = g3
    None = None
    Guards = {g1, g2, g3}
    Ttl = 2
    Drifts <- OneTickOff
    MaxTries = 2
    MaxClock = 4
    Libraries = {"coord", "am"}
SYMMETRY Interchangeable
INVARIANTS
    FencedInTenure
    LeaseSound
PROPERTIES
    FenceSeesExpiry
    RowChangesHands
CHECK_DEADLOCK FALSE
