CONSTANTS
    c1 = c1
    c2 = c2
    c3 = c3
    c4 = c4
    Channels <- MCChannels
    Fd <- MCFd
    Calls <- MCCalls
    NoChannel = NoChannel
SPECIFICATION Spec
INVARIANTS IndexAgrees
SYMMETRY MCSymmetry
CHECK_DEADLOCK FALSE
