\* A chunk larger than the buffer, as in the code.
SPECIFICATION Spec
CONSTANTS
    SrcLen = 3
    BufSize = 2
    Chunk = 4
INVARIANTS
    PaidInFull
CHECK_DEADLOCK FALSE
