SPECIFICATION Spec
CONSTANTS
    NL <- Nl
    SP <- Sp
    Word <- MCWord
    Absent = "Absent"
    Nul = "Nul"
    Toggled <- MCToggled
    MAXINT = 40
    Capacity = 40
    UndoMax = 5
    YankMax = 6
    DotTextMax = 4
    Users <- AllUsers
    Columns = {0, 1}
    Rows = 4
    Cols = 4
    Blank = "_"
    Message = "m"
    Mark = "#"
INVARIANTS TypeOK TextShown CursorShown RowCacheHonest TracksCursor TopIsRowStart
CHECK_DEADLOCK FALSE
