\* Two batches that meet in two partitions; a handler may fail in mid-batch.
SPECIFICATION Spec
CONSTANTS
    i1 = i1  i2 = i2  p1 = p1  p2 = p2
    None = None
    Traces = {1, 2}
    Instances = {i1, i2}
    Partitions = {p1, p2}
    Owner <- FirstOwns
    Spread <- OneEach
    PageSize = 2
    MaxSubs = 2
    MaxFaults = 1
    Deployments <- MidBatchFailures
INVARIANT SortedNeverDeadlocks
CHECK_DEADLOCK FALSE
