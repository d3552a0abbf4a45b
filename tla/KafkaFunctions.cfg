\* Every function on every input of its set; a call ends when it returned.
SPECIFICATION MCSpec
CONSTANT Calls <- MCCalls
INVARIANTS
    WirePrefixTruthful
    RepairTruthful
    BindingsUnambiguous
    ConfigTruthful
    MigrationsInOrder
CHECK_DEADLOCK FALSE
