\* Two overlapping stops over three singletons and two requests; onDestroy may fail
\* and clients may go away.
SPECIFICATION Spec
CONSTANTS
    N = 3
    Needs <- NeedsEarlier
    Server = 2
    Plugins = {}
    Starters = {a}
    Stoppers = {x, y}
    MaxCalls = 1
    Workers = {w1, w2}
    Faults = {"destroy", "abort"}
INVARIANTS
    WorkOnLiveServices
    ReverseDestroy
    ScopedDestroyed
    ScopesReleased
