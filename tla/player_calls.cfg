SPECIFICATION FairSpec
CONSTANTS
    c1 = c1
    c2 = c2
    c3 = c3
    Clients = {c1, c2, c3}
    ClientIntents <- MCDistinct
    Events = {"NOTIFY_READY", "NOTIFY_ERROR"}
    Capacity = 5
    Looping = {FALSE}
    ExecutorMayFail = FALSE
    MaxAbandoned = 0
INVARIANTS WaiterIsServed AnswerIsOwn IntentTakesHold
PROPERTIES EveryCallReturns
