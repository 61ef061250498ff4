CONSTANTS
    base = base
    l1 = l1
    l2 = l2
    c1 = c1
    c2 = c2
    Base = base
    IoLoops <- MCIoLoops
    PoolSizes <- MCPoolSizes
    Conns <- MCConns
    Kept = {}
    Shut <- MCShut
    FdLimits = {2}
    MaxCloses = 1
    Teardown = TRUE
SPECIFICATION FairSpec
INVARIANTS ChannelsAlive TeardownOrder
PROPERTIES TeardownFrees
CHECK_DEADLOCK FALSE
