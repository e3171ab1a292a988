SPECIFICATION CodecSpec
CONSTANTS
    Eos = 3
    InCap = 1
    OutCap = 1
    CodecDepth = 1
    CodecCalls = {"Stop"}
    MaxCalls = 1
PROPERTIES
    CodecStopReturns
CHECK_DEADLOCK FALSE
