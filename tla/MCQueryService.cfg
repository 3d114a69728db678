CONSTANTS
    Scripts <- MCScripts
    kMaxMessageLen = 64
SPECIFICATION Spec
INVARIANTS DeliveredAsSent
PROPERTIES ClientEnds
CHECK_DEADLOCK FALSE
