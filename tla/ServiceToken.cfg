\* Two callers; one lifetime within the skew and one beyond it; answers up to
\* one tick late.  Nobody has to call get(), so the provider may rest.
SPECIFICATION FairSpec
CONSTANTS
    Clients = {c1, c2}
    Skew = 2
    Lifetimes = {2, 4}
    MaxDelay = 1
    MaxTime = 5
    MaxExchanges = 3
INVARIANTS
    TokensValid
PROPERTIES
    ImplementsSingleFlight
    GetsSettle
CHECK_DEADLOCK FALSE
