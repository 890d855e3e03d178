SPECIFICATION FairSpec
CONSTANTS
    Events = {e1}
    Endpoints = {p1, p2}
    Workers = {w1, w2}
    MaxAttempts = 2
    None = None
    SpendBound = 2
PROPERTIES
    KeepsPromise
    SuccessIsNotRepeated
    EventSettles
CHECK_DEADLOCK FALSE
