\* Two workers of one site: stall, crash, expiry, takeover and recovery of one job.
SPECIFICATION FairSpec
CONSTANTS
    w1 = w1
    w2 = w2
    main = main
    standby = standby
    None = None
    Workers = {w1, w2}
    Sites = {main}
    SiteOf <- OneSite
    PrimarySite = main
    Jobs = {j1}
    Admins = {a1}
    MaxAttempts = 2
    TryBound = 2
    EpochBound = 2
    CrashBound = 1
    StallPossible = TRUE
INVARIANTS
    RequeuedWasNotSent
    EpochNamesOneWorker
PROPERTIES
    TakenJobIsLetGo
