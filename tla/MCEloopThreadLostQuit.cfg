CONSTANTS
    owner = owner
    user = user
    f1 = f1
    f2 = f2
    Threads <- MCThreads
    Owner = owner
    Starter = user
    Functors <- MCFunctors
    InitFunctors <- MCInitFunctors
    DtorWaits = FALSE
SPECIFICATION ThreadFairSpec
PROPERTIES DtorReturns
CHECK_DEADLOCK FALSE
