SPECIFICATION FairSpec
CONSTANTS
    c1 = c1
    c2 = c2
    c3 = c3
    Clients = {c1, c2, c3}
    Operations <- MCFilterOperation
    JobOperations = {"PauseAsync"}
    Alone = {"Start", "Pause"}
    CreateMayFail = FALSE
PROPERTIES EveryCallReturns StartedRunsJob
