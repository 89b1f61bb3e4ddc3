SPECIFICATION Spec
CONSTANTS
    Msgs = {m1, m2}
    Files = {}
    MsgLen = 2
    LoopThread = loop
    Users = {u1, u2}
    HighWaterMark = 2
    Ops = {"loopSend", "userSend", "loopShutdown", "userShutdown", "serverDestroys", "peerResets"}
CHECK_DEADLOCK FALSE
SYMMETRY Symmetry
INVARIANTS TypeOK WritingIffBacklog FlowControlled DownOnceUnlessRevived RemovedStaysOut DestroyedMakesUp
PROPERTIES DisconnectedIsFinal ImplementsStream
