CONSTANTS
    c1 = c1
    c2 = c2
    Conns <- MCConns
    Second = 2
    idleSeconds = 2
    Delay = 3
    Skew = 1
    StepBack = 1
    MaxTime = 13
SPECIFICATION Spec
INVARIANTS SilentIsShut ListMatchesConnections
PROPERTIES OnlySilentIsShut
CHECK_DEADLOCK FALSE
