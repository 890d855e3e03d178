\* Two sites with one worker each, two drills, one poller.
SPECIFICATION Spec
CONSTANTS
    w1 = w1
    w2 = w2
    home = home
    standby = standby
    None = None
    Workers = {w1, w2}
    Sites = {home, standby}
    SiteOf <- TwoSites
    PrimarySite = home
    Pollers = {p1}
    Policies = {g1, g2}
    MaxDrills = 2
    MaxRequests = 3
    MaxEpoch = 3
SYMMETRY Symmetry
CHECK_DEADLOCK FALSE
INVARIANTS
    DrillIsOneCycle
PROPERTIES
    CancelledLeavesNothing
