SPECIFICATION FairSpec
CONSTANTS
    MaxFaults = 2
    Clients = {c1}
    PerClient = 2
    PipeCap = 1
    Deployments = {"pipe", "file"}
INVARIANTS
    TypeOK
    SentIsPublishedOnce
    SentKeepsOrder
    CountIsPublished
    CleanShutdown
PROPERTY
    HandlerEnds
CHECK_DEADLOCK FALSE
