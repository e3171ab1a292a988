SPECIFICATION Spec
CONSTANTS
    c1 = c1
    c2 = c2
    c3 = c3
    Clients = {c1, c2, c3}
    Operations <- MCAnyOperation
    JobOperations = {"StopAsync", "PauseAsync"}
    Alone = {}
    CreateMayFail = TRUE
INVARIANTS NoJobAfterReturn OneWorker SleepersAreNotReady
CHECK_DEADLOCK FALSE
