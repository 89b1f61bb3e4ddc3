SPECIFICATION Spec
CONSTANTS
    Clients = {c1, c2}
    IoThreads = 2
    MsgLen = 1
    MaxAttempts = 2
CHECK_DEADLOCK FALSE
INVARIANT QuitsAfterAllLeft
