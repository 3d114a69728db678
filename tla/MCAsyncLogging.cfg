CONSTANTS
    kSmallBuffer = 6
    kMaxNumericSize = 4
    kLargeBuffer = 10
    kMaxBuffers = 3
    rollSize_ = 6
    flushInterval_ = 0
    kRollPerSeconds_ = 1
    Values <- MCValues
    BigLines <- MCBig
    CheckEveryN <- MCCheckEveryN
    MaxLines = 3
    MaxNow = 1
SPECIFICATION Spec
INVARIANTS LoggingAssertionsHold NumbersReadBack NothingLostOrReordered
CHECK_DEADLOCK FALSE
