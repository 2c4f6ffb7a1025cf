\* Two clients, three calls, a lease of two ticks.
SPECIFICATION FairSpec
CONSTANTS
    c1 = c1  c2 = c2  o1 = o1  o2 = o2  o3 = o3
    Foreign = Foreign
    Nobody = Nobody
    Clients = {c1, c2}
    Requests = {c1, c2}
    Owners = {o1, o2}
    OwnerOf <- MCOwnerOf
    Deployments <- MCDeployments
    Ttl = 2
    Retention = 1
    Stall = 1
    AcquireAttempts = 2
    Patience = 2
    MaxResets = 2
    MaxCalls = 3
    MaxTime = 3
INVARIANTS
    OneHolder
    NoSleepOnFreeName
PROPERTIES
    TenuresKept
    LockReturns
CHECK_DEADLOCK FALSE
