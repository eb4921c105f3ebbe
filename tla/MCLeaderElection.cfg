SPECIFICATION LiveSpec
CONSTANTS
    Workers = {w1, w2}
    Nobody = Nobody
    TTL = 5
    Renew = 1
    Delay = 1
    Skew = 1
    Stall = 3
    MaxRestarts = 1
INVARIANTS
    TypeOK
    OneLiveLoop
    LoopEndsFirst
PROPERTIES
    LateLoopEnds
    LoopComesBack
CHECK_DEADLOCK FALSE
