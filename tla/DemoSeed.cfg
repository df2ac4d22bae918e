SPECIFICATION Spec
CONSTANTS
    Lowercase <- NoCapitals
    Utc <- Instants
    Mentions <- KeywordsOf
    Related <- Starts
    OddWords <- NoOddWords
    Directories <- RuleDirectories
    Corpora <- OneFit
    Threshold = 65
    Decision <- DecisionOn
    Totals <- SomeTotals
    Attempts = 1
    Ports = 1
    Window = {"night", "noon"}
    MaxRuns = 2
INVARIANTS
    AlertsHaveEvents
    ExitZeroIsComplete
    SeededRowsAsParsed
CHECK_DEADLOCK FALSE
