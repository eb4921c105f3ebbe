SPECIFICATION Spec
CONSTANTS
    Workers = {w1}
    Clients = {c1}
    NoWorker = NoWorker
    Replicas = {1}
    MaxOps = 4
    Actions = {"stop", "start", "restart", "delete"}
    LeaseHolds = TRUE

    
PROPERTIES
    DeleteWins
    
CHECK_DEADLOCK FALSE
