SPECIFICATION Spec
CONSTANTS
    NL <- Nl
    SP <- Sp
    Word <- MCWord
    Absent = "Absent"
    Nul = "Nul"
    Toggled <- MCToggled
    Capacity = 30
    UndoMax = 10
    YankMax = 10
    DotTextMax = 10
    MAXINT = 31
    SearchMax = 4
    Users <- OnlyJoiner
    Columns = {0, 1}
PROPERTY DeletesItsLine
CHECK_DEADLOCK FALSE
