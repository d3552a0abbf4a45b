\* Two stops against two lanes in flight (one without a handler), failing starts,
\* handlers and publishes, one crash.
SPECIFICATION FairSpec
CONSTANTS
    Lanes = {p1, p2}
    BoundLanes = {p1}
    LogLen = 1
    Concurrency = 2
    MaxRetries = 1
    Policy = "dlq"
    Callers = {c1, c2}
    Faults = {"bind", "consume", "handler", "publish"}
    MaxCrashes = 1
    MaxRefetches = 0
INVARIANTS
    DrainBeforeDisconnect
PROPERTIES
    StopCompletes
    FatalReported
