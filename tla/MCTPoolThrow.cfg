CONSTANTS
    w1 = w1
    w2 = w2
    w3 = w3
    w4 = w4
    t1 = t1
    t2 = t2
    t3 = t3
    t4 = t4
    idle = idle
    Idle = idle
    Workers <- MCTwoWorkers
    Tasks <- MCThreeTasks
    Throwing <- MCThrow
    InitThrows = {}
SPECIFICATION FairSpec
PROPERTIES ThrowContained
CHECK_DEADLOCK FALSE
