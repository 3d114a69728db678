CONSTANTS
    l = l
    o = o
    f1 = f1
    f2 = f2
    c1 = c1
    LoopThread = l
    Owner = o
    Others <- MCOthers
    Functors <- MCFunctors
    Channels <- MCChannels
    MaxLoops = 1
    MaxWakeups = 2
SPECIFICATION SpecThread
INVARIANTS NoMemberUseAfterDestroy
PROPERTIES StartLoopReturns DestructorEnds
CHECK_DEADLOCK FALSE
