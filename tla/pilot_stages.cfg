\* One program next to the pilot stage of its organization.
SPECIFICATION Spec
CONSTANTS
    None = None
    Destinations = {d1, d2}
    Programs = {p1}
    StageLimits <- MCStageLimits
    RunEvidence <- MCRunEvidence
    StageSizes <- MCStageSizes
    MaxFailurePercent = 10
    MaxRuns = 2
    MaxCanaries = 1
    MaxAssessments = 1
SYMMETRY PilotSymmetry
INVARIANTS
    StagesInOrder
    

    
