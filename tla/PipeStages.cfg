SPECIFICATION FairSpec
CONSTANTS
    Lines <- MixedLines
    Lowercase <- Words
    Utc <- Instants
    Mentions <- KeywordsOf
    Related <- RelatedTexts
    OddWords = {}
    Directories <- LoginRules
    UseAnomaly = TRUE
    Corpora <- Fitted
    Threshold = 65
    BufCap = 1
    BatchSize = 2
    ChanCap = 1
    PipeCap = 2
    Decision <- DecisionOn
    MaxLines = 2
    MaxAlerts = 2
INVARIANTS
    AlertsCrossThePipe
    CleanRunIsComplete
PROPERTIES
    StagesAsSpecified
    ImplementsAlerting
    PipeRunsDry
CHECK_DEADLOCK FALSE
