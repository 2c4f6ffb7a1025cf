\* Two clients and five calls; a renewal's write may be late.
SPECIFICATION Spec
CONSTANTS
    c1 = c1  c2 = c2  o1 = o1  o2 = o2  o3 = o3
    Foreign = Foreign
    Nobody = Nobody
    Clients = {c1, c2}
    Requests = {c1, c2}
    Owners = {o1, o2, o3}
    OwnerOf <- MCOwnerOf
    Deployments <- MCLate
    Ttl = 2
    Retention = 1
    Stall = 1
    AcquireAttempts = 2
    Patience = 2
    MaxResets = 2
    MaxCalls = 5
    MaxTime = 2
INVARIANT
    Exclusive
CHECK_DEADLOCK FALSE
