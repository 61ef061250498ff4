CONSTANTS
    t1 = t1
    t2 = t2
    Threads <- MCThreads
    NoThread = NoThread
    SIZE = 24
    MAX_NUM_SIZE = 5
    Messages <- MCMessages
    Head1 = 2
    Head2 = 1
    Line = 5
    MaxNumber = 255
    MaxRecords = 1
SPECIFICATION Spec
CHECK_DEADLOCK FALSE
INVARIANTS
    TypeOK
    NumeralsRight
    ShortRecordsWhole
    UnterminatedOnlyWhenFull
    FatalFlushed
