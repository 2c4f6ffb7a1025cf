\* Two candidates, a lease of two ticks that one missed renewal may cost.
SPECIFICATION FairSpec
CONSTANTS
    t1 = t1  t2 = t2  t3 = t3
    Foreign = Foreign
    Nobody = Nobody
    Candidates = {t1, t2}
    Requests = {t1, t2}
    Owners = {t1, t2, t3}
    OwnerOf <- MCOwnerOf
    Deployments <- MCDeployments
    Ttl = 2
    MaxMissed = 1
    Retention = 1
    Stall = 1
    AcquireAttempts = 2
    MaxTime = 8
INVARIANTS
    LeaderIsStored
    LapsedIsTaken
PROPERTIES
    TenuresKept
    ShutdownEnds
CHECK_DEADLOCK FALSE
