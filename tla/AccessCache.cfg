\* Two callers of one key, loads that outlive the TTL, and time for a revoked
\* permission to be asked for when its load is over.
SPECIFICATION Spec
CONSTANTS
    Callers = {c1, c2}
    Keys = {k1}
    Ttl = 2
    MaxTime = 4
    MaxLoads = 3
INVARIANTS
    Coalesced
    ErrorsNeverCached
    RevocationHonoured
