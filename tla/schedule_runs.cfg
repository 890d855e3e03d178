SPECIFICATION Spec
CONSTANTS
    once = once
    daily = daily
    daily2 = daily2
    Contents = {once, daily, daily2}
    PlanOf <- MCPlanOf
    Admins = {a1, a2}
    Operators = {}
    Day = 1
    Ttl = 1
    MaxTime = 1
    None = None
INVARIANTS
    OccurrenceIsNew
PROPERTIES
    RunsAreApproved
    
CHECK_DEADLOCK FALSE
