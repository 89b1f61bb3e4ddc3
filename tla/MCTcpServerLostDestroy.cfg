SPECIFICATION Spec
CONSTANTS
    Conns = {c1, c2}
    MaxThreads = 2
    NoConn = NoConn
CHECK_DEADLOCK FALSE
INVARIANT DestroyedOnOwnLoop
