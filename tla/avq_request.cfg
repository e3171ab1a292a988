SPECIFICATION Spec
CONSTANTS
    Ids = {1, 2, 3}
    Producers = {p1, p2}
    Consumers = {c1}
    Brokers = {}
    Attachers = {}
    Resizers = {}
    Capacities = {1}
    MemTypes = {shared}
    UnknownMemory = unknown
    InitSize = 2
    MaxQueueSize = 2
    UintRange = 256
    DisableAlloc = FALSE
    ListenerFirst = FALSE
    MaxSignals = 3
INVARIANTS
    ListsMatchStates
    NoSleepWhileIdle
    IdleIsAnnounced
