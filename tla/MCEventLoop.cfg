CONSTANTS
    l = l
    o1 = o1
    o2 = o2
    f1 = f1
    f2 = f2
    c1 = c1
    LoopThread = l
    Others <- MCOthers
    Functors <- MCFunctors
    Channels <- MCChannels
    MaxLoops = 2
    MaxWakeups = 1
SPECIFICATION FairSpec
INVARIANTS NoLostWakeup NoLostQuit FunctorsInOrder
PROPERTIES ImplementsExecutor QueuedFunctorRuns QuitStopsLoop
CHECK_DEADLOCK FALSE
