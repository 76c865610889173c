SPECIFICATION FairCopySpec
CONSTANTS
    MemSize = 5
    Byte = {b0, b1}
    b0 = b0
    b1 = b1
INVARIANTS LoopInv Moved SourceIntact
PROPERTY Returns
CHECK_DEADLOCK FALSE
