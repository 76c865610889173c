SPECIFICATION FairSpec
CONSTANTS
    Char <- MCChar
    CR <- Cr
    LF <- Lf
    Cap = 3
    Reserve = 1
    Chunk = 2
    UndoMax = 3
    Names <- MCNames
    Files <- MCNames
    FileOf <- MCFileOf
    Swap = "ZVISWAP.TMP"
    NoFile = NoFile
    StartNames <- Start
    Users <- AllUsers
    SwapMayFail = FALSE
INVARIANTS TypeOK LinesAnchored SeekReachesEnd
PROPERTIES ImplementsDocument SeekReturns
CHECK_DEADLOCK FALSE
