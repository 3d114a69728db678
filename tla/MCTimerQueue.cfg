CONSTANTS
    a1 = a1
    a2 = a2
    loop = loop
    t1 = t1
    Addrs <- MCAddrs
    Threads <- MCThreads
    Loop <- loop
    MaxTime = 4
    MaxCreated = 2
    MaxPending = 2
SPECIFICATION FairSpec
INVARIANTS OwnedOnce TimerfdArmed CancelIsExact
PROPERTIES InsertedTimerRuns
CHECK_DEADLOCK FALSE
