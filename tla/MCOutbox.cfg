\* Two of every process, two messages, one fault.
SPECIFICATION FairSpec
CONSTANTS
    p1 = p1  p2 = p2  s1 = s1  s2 = s2  w1 = w1  w2 = w2  v1 = v1  v2 = v2
    NoOne = NoOne
    Producers = {p1, p2}
    Sequencers = {s1, s2}
    Workers = {w1, w2}
    Vacuums = {v1, v2}
    SeqBatch = 2
    MsgBatch = 2
    VacBatch = 1
    MaxMsgs = 2
    MaxFaults = 1
INVARIANTS
    TablesAgree
    FifoOrder
    DrainedBeforeDecrement
    NothingSkipped
    DeadLetterOnce
    OrderedDelivery
PROPERTIES
    ImplementsLog
    EventuallyProcessed
