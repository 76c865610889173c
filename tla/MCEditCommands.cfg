SPECIFICATION Spec
CONSTANTS
    NL <- Nl
    SP <- Sp
    Word <- MCWord
    Absent = "Absent"
    Nul = "Nul"
    Toggled <- MCToggled
    Capacity = 31
    UndoMax = 5
    YankMax = 6
    DotTextMax = 2
    MAXINT = 31
    SearchMax = 4
    Users <- AllUsers
    Columns = {0, 1}
INVARIANTS TypeOK CursorInBuffer UndoWouldRestore ModifiedHonest
PROPERTIES DotRepeats PutKeepsLines DeletesOneLine SearchFindsNext
CHECK_DEADLOCK FALSE
