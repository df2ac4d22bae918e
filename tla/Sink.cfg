SPECIFICATION FairSpec
CONSTANTS
    BatchSize = 2
    ChanCap = 1
    Stdin <- ShortOrFull
    MaxLines = 6
INVARIANTS
    TypeOK
    OrderedOnce
    NoRowMislaid
    DrainedAtExit
    BoundedLoss
    BatchWithinSize
PROPERTIES
    ImplementsDelivery
    BufferedRowGoesOut
    EndOfInputEndsProcess
CHECK_DEADLOCK FALSE
