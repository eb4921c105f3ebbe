SPECIFICATION LiveSpec
CONSTANTS
    Workers = {w1}
    Clients = {c1}
    NoWorker = NoWorker
    Replicas = {1, 2}
    MaxOps = 2
    Actions = {"scale", "stop", "restart", "delete"}
    LeaseHolds = TRUE
INVARIANTS
    TypeOK
    OneActiveOperation
PROPERTIES
    OperationEnds
CHECK_DEADLOCK FALSE
