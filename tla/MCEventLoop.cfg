CONSTANTS
    owner = owner
    t1 = t1
    t2 = t2
    f1 = f1
    f2 = f2
    f3 = f3
    Threads <- MCThreads
    Owner = owner
    Functors <- MCFunctors
    InitFunctors <- MCInitFunctors
SPECIFICATION FairSpec
INVARIANTS NoLostWakeup QuitNotMissed
PROPERTIES ImplementsFunctorQueue EveryFunctorRuns QuitStopsLoop
CHECK_DEADLOCK FALSE
