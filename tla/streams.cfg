SPECIFICATION StreamsSpec
CONSTANTS
    FileSize = 4
    RingSize = 2
    RequestBytes = 3
    PullSizes = {2}
    RetryLimit = 0
    MaxPulls = 2
    MaxFailures = 2
    MaxTurns = 3
    Fragments = 2
    FragmentSize = 2
    HlsRing = 2
    PlayListQueue = 1
    RequestQueue = 2
    MaxUpdates = 3
    MaxHlsPauses = 1
    Eos = 3
    InCap = 1
    OutCap = 1
    CodecDepth = 1
    CodecCalls = {"Flush", "Stop", "Restart"}
    MaxCalls = 2
INVARIANTS
    HttpReadsInOrder
    HlsReadsInOrder
PROPERTIES
    HttpSeekReturns
    CodecNothingStale
    CodecFlushReturns
    StreamsPlayOut
CHECK_DEADLOCK FALSE
