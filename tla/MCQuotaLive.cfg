SPECIFICATION LiveSpec
CONSTANTS
    i1 = i1
    i2 = i2
    Instances = {i1}
    Gpus <- OneEach
    Controllers = {c1}
    Readers = {}
    Handlers = {h1}
    Totals = {1, 2}
    Allocs = {1}
    Default = 1
    MaxPurges = 1
    MaxTx = 2
    MaxReads = 0
    MaxCalls = 2
    ApiActions = {"start", "stop", "other"}
    Faults = FALSE
INVARIANTS
    LeaksOnlyLate
PROPERTIES
    
    
    ProvisioningEnds
CHECK_DEADLOCK FALSE
