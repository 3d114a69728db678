CONSTANTS
    c1 = c1
    c2 = c2
    base = base
    io1 = io1
    NoConn = NoConn
    Listener = Listener
    Conns <- MCConns
    Loops <- MCLoops
    Pool <- MCPool
    Base <- base
    Used <- MCUsed
    MaxSends = 1
    MaxForces = 2
    MaxCalls = 1
SPECIFICATION SpecUse
INVARIANTS NoFailure RegisteredIsAlive CallbackProtocol NothingSentAfterFin
PROPERTIES PeerCloseEndsConnection
CHECK_DEADLOCK FALSE
