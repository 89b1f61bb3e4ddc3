SPECIFICATION FairSpec
CONSTANTS
    Clients = {c1, c2, c3}
    IoThreads = 2
    MsgLen = 2
    MaxAttempts = 2
CHECK_DEADLOCK FALSE
INVARIANTS TypeOK NeverRefused
PROPERTIES DemoEnds
