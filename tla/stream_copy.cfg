\* Four bytes through a buffer of three, with and without limiters.
SPECIFICATION FairSpec
CONSTANTS
    SrcLen = 4
    BufSize = 3
    Chunk = 2
INVARIANTS
    TypeOK
    Conserved
PROPERTIES
    CopyEnds
CHECK_DEADLOCK FALSE
