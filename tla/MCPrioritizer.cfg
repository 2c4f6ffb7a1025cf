\* Two workers on one partition, two rows, batches of two, two faults.
SPECIFICATION FairSpec
CONSTANTS
    pa = pa  pb = pb  w1 = w1  w2 = w2
    NoPartition = NoPartition
    Partitions = {pa}
    Workers = {w1, w2}
    Batch = 2
    MaxInner = 1
    MaxRows = 2
    MaxFaults = 2
INVARIANTS
    ClaimsSound
    SignalKept
    WakeupKept
PROPERTIES
    EventuallySequenced
