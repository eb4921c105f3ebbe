SPECIFICATION Spec
CONSTANTS
    i1 = i1
    w1 = w1
    w2 = w2
    p1 = p1
    p2 = p2
    Instances = {i1}
    Writers = {w1}
    Publishers = {p1}
    Batch = 2
    MaxEvents = 2
    MaxFails = 0
    MaxDeliver = 2
    MaxRestarts = 0
    MaxTicks = 1
    MaxMinute = 1
PROPERTIES
    ChargedOnce
CHECK_DEADLOCK FALSE
