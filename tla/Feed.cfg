SPECIFICATION Spec
CONSTANTS
    Clients = {c1}
    PerClient = 2
    Lowercase <- Words
    Utc <- Instants
    Mentions <- KeywordsOf
    Minted <- Events
    LogRecord <- Logged
    PipeCap = 2
INVARIANTS
    AcknowledgedIsEnriched
    CountersAgree
CHECK_DEADLOCK FALSE
