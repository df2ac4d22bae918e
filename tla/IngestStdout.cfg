SPECIFICATION Spec
CONSTANTS
    MaxFaults = 0
    Clients = {c1}
    PerClient = 1
    PipeCap = 1
    Deployments = {"pipe"}
INVARIANT
    StdoutHoldsEventsOnly
CHECK_DEADLOCK FALSE
