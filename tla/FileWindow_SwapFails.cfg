SPECIFICATION Spec
CONSTANTS
    Char <- MCChar
    CR <- Cr
    LF <- Lf
    Cap = 3
    Reserve = 1
    Chunk = 2
    UndoMax = 3
    Names <- MCNames
    Files <- MCNames
    FileOf <- MCFileOf
    Swap = "ZVISWAP.TMP"
    NoFile = NoFile
    StartNames <- Start
    Users <- OnlyReader
    SwapMayFail = TRUE
PROPERTY PagingKeepsDocument
CHECK_DEADLOCK FALSE
