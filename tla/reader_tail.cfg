SPECIFICATION PackerSpec
CONSTANTS
    Modes = {"pull"}
    MediaSize = 6
    ReadSizes = {1, 3}
    PackerCapacity = 5
    MaxPeeks = 1
    MaxReads = 5
    SourceMayFail = FALSE
INVARIANTS
    ReadsToTheEnd
CHECK_DEADLOCK FALSE
