SPECIFICATION FairSpec
CONSTANTS
    Conns = {c1, c2}
    MaxThreads = 2
    NoConn = NoConn
CHECK_DEADLOCK FALSE
INVARIANTS TypeOK Accounted CallsFindServer
PROPERTIES ImplementsLife CloseReleases AcceptsWhenRoom DestructionEnds
