\* Policy 'throw': two lanes, two in flight, one retry, one stop, one crash.
SPECIFICATION Spec
CONSTANTS
    Lanes = {p1, p2}
    BoundLanes = {p1, p2}
    LogLen = 2
    Concurrency = 2
    MaxRetries = 1
    Policy = "throw"
    Callers = {c1}
    Faults = {"handler", "commit", "close", "onFatal"}
    MaxCrashes = 1
    MaxRefetches = 0
INVARIANTS
    NoLoss
    LaneOrder
    InFlightExact
    NoLostWakeup
PROPERTIES
    CommitsAdvance
