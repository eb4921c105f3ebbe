SPECIFICATION LiveSpec
CONSTANTS
    i1 = i1
    w1 = w1
    w2 = w2
    p1 = p1
    p2 = p2
    Instances = {i1}
    Writers = {w1, w2}
    Publishers = {p1}
    Batch = 2
    MaxEvents = 2
    MaxFails = 1
    MaxDeliver = 2
    MaxRestarts = 1
    MaxTicks = 0
    MaxMinute = 0
PROPERTIES
    CollectsWhatRuns
    EventsAreDelivered
CHECK_DEADLOCK FALSE
