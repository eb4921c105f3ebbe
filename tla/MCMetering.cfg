SPECIFICATION Spec
CONSTANTS
    i1 = i1
    w1 = w1
    w2 = w2
    p1 = p1
    p2 = p2
    Instances = {i1}
    Writers = {w1, w2}
    Publishers = {p1, p2}
    Batch = 2
    MaxEvents = 2
    MaxFails = 1
    MaxDeliver = 2
    MaxRestarts = 0
    MaxTicks = 1
    MaxMinute = 1
SYMMETRY Alike
INVARIANTS
    SentIsInStream
    NoOrphanLoop
PROPERTIES
    AppliedInOrder
CHECK_DEADLOCK FALSE
