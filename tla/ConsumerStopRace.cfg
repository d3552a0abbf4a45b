\* stop() while start() waits for consume().
SPECIFICATION Spec
CONSTANTS
    Lanes = {p1}
    BoundLanes = {p1}
    LogLen = 1
    Concurrency = 1
    MaxRetries = 0
    Policy = "throw"
    Callers = {c1}
    Faults = {}
    MaxCrashes = 0
    MaxRefetches = 0
INVARIANTS
    StoppedMeansStopped
