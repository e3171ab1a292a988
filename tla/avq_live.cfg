SPECIFICATION FairSpec
CONSTANTS
    Ids = {1, 2}
    Producers = {p1}
    Consumers = {c1}
    Brokers = {}
    Attachers = {p1}
    Resizers = {c1}
    Capacities = {1}
    MemTypes = {shared, surface}
    UnknownMemory = unknown
    InitSize = 1
    MaxQueueSize = 2
    UintRange = 256
    DisableAlloc = FALSE
    ListenerFirst = TRUE
    MaxSignals = 2
PROPERTIES
    EveryCallReturns
    FilledIsConsumed
