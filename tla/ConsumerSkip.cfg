\* Policy 'skip': two lanes share one slot, one stop.
SPECIFICATION FairSpec
CONSTANTS
    Lanes = {p1, p2}
    BoundLanes = {p1, p2}
    LogLen = 2
    Concurrency = 1
    MaxRetries = 0
    Policy = "skip"
    Callers = {c1}
    Faults = {"handler", "commit"}
    MaxCrashes = 0
    MaxRefetches = 0
PROPERTIES
    EveryMessageSettled
