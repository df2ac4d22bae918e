SPECIFICATION Spec
CONSTANTS
    Related <- RelatedTexts
    OddWords <- Unknown
    Directories <- AllDirectories
    Lines <- LinesFor
    UseAnomaly = TRUE
    Corpora <- Ranges
    Threshold = 65
    BufCap = 1
    PipeCap = 2
    MaxLines = 2
INVARIANTS
    TypeOK
    AlertsAreDeserved
    NoAlertMissed
    CleanRunNeverRaises
    BadConditionStopsFirst
    NothingHeldBack
CHECK_DEADLOCK FALSE
