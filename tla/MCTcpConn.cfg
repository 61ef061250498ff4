CONSTANTS
    t1 = t1
    t2 = t2
    m1 = m1
    m2 = m2
    garbage = garbage
    Workers <- MCOneWorker
    Messages <- MCMessages
    Length <- MCLength
    HighWaterMark = 2
    Garbage = garbage
    MaxCloses = 2
SPECIFICATION FairSpec
INVARIANTS StreamIntegrity WritingIffPending FinMeansDrained HighWaterTold EndedRefusesSends EndTold
PROPERTIES BufferFlushed ShutdownCompletes
CHECK_DEADLOCK FALSE
