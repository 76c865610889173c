SPECIFICATION Spec
CONSTANTS
    Byte <- MCByte
    CR <- Cr
    LF <- Lf
    CtrlZ <- Z
    EOF = "EOF"
    Rec = 2
    Extent = 2
    DiskSize = 16
    MAX_FILES = 2
    FileNames <- MCNames
    NoFile = NoFile
    Swap = "ZVISWAP.TMP"
    Tmp = "ZVITMP.TMP"
    UserNames = {"FOO.TXT", "BAR.TXT"}
    Typed = {"x"}
    TextMax = 4
    Chunk = 1
    Disks <- MCDisks
    MaxEdits = 1
    MaxSaves = 2
INVARIANT SavesStayCorrect
CHECK_DEADLOCK FALSE
