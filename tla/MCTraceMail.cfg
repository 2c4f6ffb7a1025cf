\* One batch with two subscriptions, two batches that meet in two partitions,
\* and a batch with a subscription that the sweeper may collect; two instances.
SPECIFICATION FairSpec
CONSTANTS
    i1 = i1  i2 = i2  p1 = p1  p2 = p2
    None = None
    Traces = {1, 2}
    Instances = {i1, i2}
    Partitions = {p1, p2}
    Owner <- FirstOwns
    Spread <- OneEach
    PageSize = 2
    MaxSubs = 2
    MaxFaults = 1
    Deployments <- MCDeployments
INVARIANTS
    CountdownExact
    CompletionSound
    RegistrySound
    NoLockCycle
PROPERTIES
    SubscribersServed
CHECK_DEADLOCK FALSE
