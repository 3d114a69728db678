SPECIFICATION Spec
CONSTANTS
    Fds = {f1, f2, f3}
    NoFd = NoFd
    kInitRetryDelayMs <- InitRetryDelay
    kMaxRetryDelayMs <- MaxRetryDelay
    MaxCalls = 3
INVARIANTS
    ClientAssertionsHold
    OwnersAreLive
    StopIsFinal
    KeepsTrying
PROPERTY
    EverythingReleased
CHECK_DEADLOCK FALSE
