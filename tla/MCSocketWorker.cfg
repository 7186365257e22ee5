CONSTANTS
    N = 3
    MaxCopies = 2
    Copies <- MCCopies
    BufferSize = 1
SPECIFICATION FairSpec
INVARIANTS
    TypeOK
    DrainedUnlessTimeout
PROPERTIES
    ReaderEnds
    StartReturns
CHECK_DEADLOCK FALSE
