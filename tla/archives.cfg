\* Two requests with media, templates, bundles and a backup; support bundles; one script
\* with two backups and a drill over an hour; two organizations that exchange bundles.
\* The parts may stop: names in the store are used up.
SPECIFICATION Spec
CONSTANTS
    Nothing = Nothing
    Callers = {c1, c2}
    Media = {m1, m2}
    Bundles = {f1}
    Supports = {s1}
    Templates = {t1}
    Jobs = {j1}
    Tools = {x1}
    Backups = {b1, b2}
    Drills = {d1}
    Policies <- TwoPolicies
    Production = FALSE
    SignAll = FALSE
    Isolated = TRUE
    Rpo = 0
    DrillAge = 1
    Retained = 1
    EvidenceLife = 2
    MaxHour = 1
    Orgs = {o1, o2}
    Seeds <- ThreeSeeds
    Long = {"b"}
    MaxCopies = 3
    MaxRows = 3
CHECK_DEADLOCK FALSE
SYMMETRY Symmetry
INVARIANTS
    RowsKeepTheirFiles
    PassedIsProven
PROPERTIES
    BackupHoldsLiveMedia
    CopyIsFaithful
