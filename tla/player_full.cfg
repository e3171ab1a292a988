SPECIFICATION Spec
CONSTANTS
    c1 = c1
    c2 = c2
    c3 = c3
    Clients = {c1, c2}
    ClientIntents <- MCPlayback
    Events = {"NOTIFY_READY", "NOTIFY_COMPLETE"}
    Capacity = 2
    Looping = {TRUE, FALSE}
    ExecutorMayFail = TRUE
    MaxAbandoned = 1
INVARIANTS PrepareIsReady SleeperWakes
CHECK_DEADLOCK FALSE
