CONSTANTS
    c1 = c1
    c2 = c2
    c3 = c3
    Channels <- MCChannels
    Fd <- MCFd
    Calls <- MCCalls
    NoChannel = NoChannel
SPECIFICATION EPollSpec
INVARIANTS KernelAgrees NoDanglingChannel
CHECK_DEADLOCK FALSE
