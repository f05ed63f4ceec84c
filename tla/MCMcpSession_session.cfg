SPECIFICATION FairSpec
CONSTANTS
    None = None
    MaxLines = 3
    MaxVersion = 1
    Methods <- EveryMethod
CHECK_DEADLOCK FALSE
INVARIANTS
    TypeOK
    AnsweredInTurn
    SeesItsRefresh
PROPERTY
    SessionGoesOn
