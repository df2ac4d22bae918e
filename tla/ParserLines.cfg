SPECIFICATION Spec
CONSTANTS
    Lines <- MCLines
    Lowercase <- Capitals
    Utc <- Instants
    Mentions <- KeywordsOf
    PipeCap = 1
    MaxLines = 2
INVARIANTS
    TypeOK
    EveryLineAccounted
    OutputFollowsInput
    NothingMadeUp
CHECK_DEADLOCK FALSE
