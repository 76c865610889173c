SPECIFICATION FairSpec
CONSTANTS
    Users <- AllUsers
    Bytes <- MCBytes
    Arrow <- MCArrow
    Digit <- MCDigit
    Polls = 2
    ReplyMax = 12
    BufMax = 10
    LineMax = 2
    MAXINT = 15
    Default <- MCDefault
    None = None
    Nul = Nul
INVARIANTS TypeOK KeysInOrder SizeHonest CommandsAsSpelled
PROPERTY AllRead
CHECK_DEADLOCK FALSE
