SPECIFICATION Spec
CONSTANTS
    Lines <- ExamplePayloads
    Lowercase <- Words
    Utc <- Instants
    Mentions <- KeywordsOf
    Related <- RelatedTexts
    OddWords = {}
    Directories <- ShippedRules
    UseAnomaly = FALSE
    Corpora <- Fitted
    Threshold = 65
    BufCap = 1
    BatchSize = 2
    ChanCap = 1
    PipeCap = 1
    Decision <- NothingStandsOut
    MaxLines = 2
    MaxAlerts = 2
INVARIANT
    PayloadRulesFire
CHECK_DEADLOCK FALSE
