SPECIFICATION FairThreadSpec
CONSTANTS
    Tasks = {t1, t2, t3}
    Callers = {starter, user}
    IoChannels = {io}
    WakeupChannel = wakeup
    Starter = starter
CHECK_DEADLOCK FALSE
INVARIANTS TypeOK NoLostWakeup ThreadTypeOK ReturnedLoopUsable WorkerEndsFirst
PROPERTIES ImplementsTaskQueue PromptlyRuns QuitStops
PROPERTIES DrivesEventLoop StartReturns DestructorReturnsOnceLooping
