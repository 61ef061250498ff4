CONSTANTS
    Chans = {c1, c2}
    f1 = f1
    f2 = f2
    Fds <- MCFds
    NoChan = NoChan
    InitSize = 1
    Flags = {"IN"}
    Conditions <- MCConditions
    MaxFaults = 1
SPECIFICATION FairSpec
CHECK_DEADLOCK FALSE
INVARIANTS
    KernelMirrors
    MapFollows
    StaleOnlyInBatch
PROPERTIES
    ReadyHandled
