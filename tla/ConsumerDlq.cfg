\* DLQ policy: a bound and an unbound lane, one rebalance, one stop.
SPECIFICATION Spec
CONSTANTS
    Lanes = {p1, p2}
    BoundLanes = {p1}
    LogLen = 2
    Concurrency = 2
    MaxRetries = 1
    Policy = "dlq"
    Callers = {c1}
    Faults = {"decode", "publish", "stream"}
    MaxCrashes = 0
    MaxRefetches = 1
INVARIANTS
    IInv
    RetriesFirst
    StatsConserved
    FinishedTruthful
PROPERTIES
    ImplementsAtLeastOnce
