\* Two operators, one upgrade, two attestations of its version, a key, two policies; the
\* worker and a user that evaluate while operators move two incidents.  The incidents share
\* the users' names, and so their symmetry.
SPECIFICATION Spec
CONSTANTS
    None = None
    Absent = Absent
    Users = {x1, x2}
    Workers = {w1}
    Changes = {c1}
    Upgrades = {c1}
    Heavy = {c1}
    Releases = {r1, r2}
    VersionOf <- OneVersion
    Keys = {k1}
    MaxLog = 3
    Policies = {p1, p2}
    Worker = e1
    Evaluators = {e1, e2}
    Jobs = {j1}
    Incidents = {x1, x2}
    Reserve = 1
    Metrics = {}
    SloPolicies <- TwoPolicies
SYMMETRY Symmetry
INVARIANTS
    LogIsOneHistory
    
    NoCopyOfActiveIncident
PROPERTIES
    ProceedsOnEvidence
    IncidentsFollowAssessment
