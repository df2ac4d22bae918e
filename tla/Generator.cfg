SPECIFICATION FairSpec
CONSTANTS
    Injections <- SomeInjections
    Intervals = {0, 1, 2}
    Duration = 6
    Attempts = 2
    Ports = 3
    PostTime = 1
    Slack = 1
INVARIANTS
    ScenariosFirst
    PacedByRate
    DeadlineKept
    ExitTellsFailures
PROPERTY
    GeneratorEnds
CHECK_DEADLOCK FALSE
