SPECIFICATION Spec
CONSTANTS
    i1 = i1
    i2 = i2
    Instances = {i1, i2}
    Gpus <- OneAndTwo
    Controllers = {}
    Readers = {g1}
    Handlers = {h1}
    Totals = {2}
    Allocs = {}
    Default = 1
    MaxPurges = 0
    MaxTx = 2
    MaxReads = 1
    MaxCalls = 1
    ApiActions = {"start", "stop", "delete"}
    Faults = TRUE
INVARIANTS
    NoOversell
    Balanced
    DeletedHoldsNothing
PROPERTIES
    KeepsPromise
CHECK_DEADLOCK FALSE
