SPECIFICATION Spec
CONSTANTS
    i1 = i1
    i2 = i2
    v1 = v1
    v2 = v2
    None = None
    Instances = {i1, i2}
    Refs = {v1, v2}
    Scenarios <- MCScenarios
    MaxDeadline = 6
INVARIANTS
    TypeOK
    ViewFollowsTracker
    NoneForgotten
    OffersAreOfUse
    DelayIsHeard
CHECK_DEADLOCK FALSE
