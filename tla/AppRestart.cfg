\* Failed starts, failed stops and restarts by one caller, with a plugin that may be
\* used at any time and two requests; the server is registered first.
SPECIFICATION FairSpec
CONSTANTS
    N = 2
    Needs <- NeedsLater
    Server = 1
    Plugins = {p1}
    Starters = {a}
    Stoppers = {x}
    MaxCalls = 2
    Workers = {w1, w2}
    Faults = {"plugin", "resolve", "init", "destroy", "scope"}
INVARIANTS
    PluginsBeforeSingletons
    StartedTruthful
PROPERTIES
    StopSettles
    StartSettles
