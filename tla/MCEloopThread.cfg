CONSTANTS
    owner = owner
    user = user
    f1 = f1
    f2 = f2
    Threads <- MCThreads
    Owner = owner
    Starter = user
    Functors <- MCFunctors
    InitFunctors <- MCInitFunctors
    DtorWaits = TRUE
SPECIFICATION ThreadFairSpec
 
PROPERTIES StartLoopReturns DtorReturns
CHECK_DEADLOCK FALSE
