SPECIFICATION FairSpec
CONSTANTS
    Msgs = {m1}
    Files = {f1}
    MsgLen = 2
    LoopThread = loop
    Users = {u1}
    HighWaterMark = 2
    Ops = {"loopShutdown", "userSend", "peerResets"}
CHECK_DEADLOCK FALSE
PROPERTIES ShutdownCompletes CloseCompletes FileDelivered
