SPECIFICATION Spec
CONSTANTS
    Workers = {w1, w2}
    Clients = {c1}
    NoWorker = NoWorker
    Replicas = {1}
    MaxOps = 2
    Actions = {"delete"}
    LeaseHolds = FALSE
PROPERTIES
    OutcomeIsFinal
SYMMETRY Symmetry
CHECK_DEADLOCK FALSE
