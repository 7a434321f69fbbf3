SPECIFICATION FairConnectionSpec
CONSTANTS
    MaxFaults = 2
    Threads = {t1, t2}
    Handlers = {t2}
    MaxDials = 5
CHECK_DEADLOCK FALSE
INVARIANTS ConnectionTypeOK DialsAreNeeded LeaksOnlyAfterClose NilOnlyAfterClose
PROPERTIES ChannelAnswered StopEndsWaiting
