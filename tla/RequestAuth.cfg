\* Two requests with every pair of headers.  A request is answered once, so the
\* system may stop.
SPECIFICATION RFairSpec
CONSTANTS
    Callers = {r1, r2}
    Keys = {"ann:ctx", "ann:ctx2", "bob:ctx", "bob:ctx2"}
    Ttl = 1
    MaxTime = 1
    MaxLoads = 2
    Issuers <- MCIssuers
    KeySource <- MCKeySource
    Tokens <- MCTokens
    Nobody = Nobody
    MaxFlights = 2
    NoHeader = NoHeader
    BadHeader = BadHeader
    Contexts = {ctx, ctx2}
    KeyOf <- MCKeyOf
    Volatile = {"bob:ctx2"}
    local = local
    oidc = oidc
    stranger = stranger
    ann = ann
    bob = bob
    ctx = ctx
    ctx2 = ctx2
INVARIANTS
    TrueCause
    GrantedToOwner
PROPERTIES
    VerifierImplementsSingleFlight
    EveryRequestAnswered
CHECK_DEADLOCK FALSE
