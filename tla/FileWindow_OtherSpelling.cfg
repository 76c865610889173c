SPECIFICATION Spec
CONSTANTS
    Char <- MCChar
    CR <- Cr
    LF <- Lf
    Cap = 3
    Reserve = 1
    Chunk = 2
    UndoMax = 3
    Names <- MCNamesTyped
    Files <- MCNames
    FileOf <- MCFileOfTyped
    Swap = "ZVISWAP.TMP"
    NoFile = NoFile
    StartNames <- Start
    Users <- OnlySpeller
    SwapMayFail = FALSE
PROPERTY SaveWritesDocument
CHECK_DEADLOCK FALSE
