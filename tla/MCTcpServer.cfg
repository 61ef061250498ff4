CONSTANTS
    base = base
    l1 = l1
    l2 = l2
    c1 = c1
    c2 = c2
    Base = base
    IoLoops <- MCIoLoops
    PoolSizes <- MCPoolSizes
    Conns <- MCConns
    Kept <- MCKept
    Shut <- MCShut
    FdLimits = {1}
    MaxCloses = 2
    Teardown = FALSE
SPECIFICATION FairSpec
INVARIANTS TypeOK ChannelsAlive OpenMeansMapped
PROPERTIES ClosedConnsFreed
CHECK_DEADLOCK FALSE
