SPECIFICATION CapacitySpec
CONSTANTS
    Jobs = {j1, j2, j3}
    Workers = {w1, w2}
    Callers = {c1, c2}
    Nobody = Nobody
    Window = 1
    LeaseTTL = 1
    MaxWait = 1
    StartLimits = {1, 2}
    MaxActive = 4
    MaxReady = 2
    MaxProcessing = 2
    BlockPercent = 100
    SpendBound = 1
SYMMETRY Symmetry

    
PROPERTIES
    LimitKept
