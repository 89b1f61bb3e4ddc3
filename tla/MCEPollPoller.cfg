SPECIFICATION FairSpec
CONSTANTS
    a1 = a1
    a2 = a2
    b = b
    fdA = fdA
    fdB = fdB
    Channels <- MCChannels
    Fds <- MCFds
    Fd <- MCFd
    InitCapacity = 1
INVARIANTS TypeOK NeverFatal RegistrationAgrees NoDanglingChannel
PROPERTIES ReadyIsDispatched
