SPECIFICATION Spec
CONSTANTS
    Ids = {1, 2, 3}
    Producers = {p1}
    Consumers = {c1}
    Brokers = {b1}
    Attachers = {c1}
    Resizers = {p1}
    Capacities = {1, 2}
    MemTypes = {shared}
    UnknownMemory = unknown
    InitSize = 2
    MaxQueueSize = 2
    UintRange = 256
    DisableAlloc = TRUE
    ListenerFirst = TRUE
    MaxSignals = 0
INVARIANTS
    TypeOK
    ExclusiveOwnership
    NoBufferLost
PROPERTIES
    ResizeDeletesAtMostItsExcess
    ImplementsHandoff
