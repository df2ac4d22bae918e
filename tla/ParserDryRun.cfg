SPECIFICATION Spec
CONSTANTS
    Lines <- DryRunLines
    Lowercase <- Capitals
    Utc <- Instants
    Mentions <- KeywordsOf
    PipeCap = 1
    MaxLines = 2
INVARIANT
    DryRunIsEnriched
CHECK_DEADLOCK FALSE
