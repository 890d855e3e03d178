\* A controlled failover between two sites with one worker each.
SPECIFICATION Spec
CONSTANTS
    w1 = w1
    w2 = w2
    main = main
    standby = standby
    None = None
    Workers = {w1, w2}
    Sites = {main, standby}
    SiteOf <- TwoSites
    PrimarySite = main
    Jobs = {j1}
    Admins = {a1, a2}
    MaxAttempts = 2
    TryBound = 2
    EpochBound = 3
    CrashBound = 1
    StallPossible = FALSE
INVARIANTS
    SentAtMostOnce
    LostSendIsFound
PROPERTIES
    FailoverLeavesNoOpenSend
    OnlyReviewSettlesUncertain
