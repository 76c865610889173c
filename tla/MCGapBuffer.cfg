SPECIFICATION Spec
CONSTANTS
    Size = 3
    MaxCuts = 1
    a = a
    nl = nl
    NL = nl
    Char <- MCChar
    Texts <- MCTexts
INVARIANTS TypeOK CurLineExact LineCountNear
PROPERTY ImplementsText
CHECK_DEADLOCK FALSE
