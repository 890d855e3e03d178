SPECIFICATION Spec
CONSTANTS
    j1 = j1
    j2 = j2
    j3 = j3
    Jobs = {j1, j2, j3}
    TotalBatches = 2
    BatchOf <- TwoThenOne
    FailureThreshold = 50
    Users = {u1}
    None = None
INVARIANTS
    
    ActiveCampaignIsApproved

    
    
CHECK_DEADLOCK FALSE
