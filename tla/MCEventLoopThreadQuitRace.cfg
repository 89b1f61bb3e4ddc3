SPECIFICATION ThreadSpec
CONSTANTS
    Tasks = {t1, t2}
    Callers = {starter, user}
    IoChannels = {io}
    WakeupChannel = wakeup
    Starter = starter
CHECK_DEADLOCK FALSE
INVARIANT QuitUsesLiveLoop
