CONSTANTS
    CHEAP_PREPEND = 2
    INITIAL_SIZE = 3
    ExtraSize = 3
    MaxLen = 5
    Backlog = 7
    MaxBytes = 12
SPECIFICATION Spec
INVARIANTS TypeOK StreamKept CompactionMoves BufferBounded
CHECK_DEADLOCK FALSE
