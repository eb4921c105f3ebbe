SPECIFICATION LiveSpec
CONSTANTS
    a1 = a1
    a2 = a2
    a3 = a3
    b1 = b1
    Requests = {a1, a2, a3, b1}
    Fingerprint <- Retries
    None = None
INVARIANTS
    OneOwner
    ExecutedOnce
    AnswersAreTrue
PROPERTIES
    KeyIsFreed
CHECK_DEADLOCK FALSE
