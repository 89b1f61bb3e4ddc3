SPECIFICATION Spec
CONSTANTS
    Msgs = {m1, m2}
    Files = {}
    MsgLen = 2
    LoopThread = loop
    Users = {u1}
    HighWaterMark = 2
    Ops = {"userSend", "userShutdown"}
CHECK_DEADLOCK FALSE
INVARIANTS FinAfterAllData
