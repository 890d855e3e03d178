\* Calls that write over each other on a destination; a clock of three days and a bit.
SPECIFICATION Spec
CONSTANTS
    Nil = Nil
    Rows = {r1, r2}
    Jobs = {j1}
    Editors = {e1, e2}
    Workers = {w1}
    HasTopic = TRUE
    Requests <- MCRequests
    HoursPerDay = 5
    DaysPerWeek = 3
    Groups = {"g1"}
    Messages = {"m1", "m2"}
    GroupOf <- MCGroupOf
    TextOf <- MCTextOf
    MinInterval = 2
    Cooldown = 4
    DailyCap = 1
    GuardHours = 2
    WindowChoices <- MCWindows
    BlackoutChoices <- MCBlackouts
    Delays = {1}
    FirstHour = 5
    LastHour = 14
    MaxBlackouts = 2
SYMMETRY DestinationSymmetry
INVARIANTS
    ClosedMeansNoMore
    
PROPERTIES
    ReturnsOnRequest
    DeferralSkipsNoOpening
CHECK_DEADLOCK FALSE
