SPECIFICATION Spec
CONSTANTS
    c1 = c1
    c2 = c2
    c3 = c3
    Clients = {c1, c2, c3}
    Operations <- MCFilterOperation
    JobOperations = {"StopAsync"}
    Alone = {"Start", "Stop", "Pause"}
    CreateMayFail = FALSE
INVARIANTS StartedHasWorker
CHECK_DEADLOCK FALSE
