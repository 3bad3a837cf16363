SPECIFICATION FairSpec
CONSTANTS
    k = k
    w = w
    None = None
    Node = {k, w}
    SG = {1, 2}
    Deployments <- AllDeployments
    MaxFaults = 2
INVARIANTS
    GivenBack
    PidFileTruth
    PlanCovers
PROPERTIES
    TestsUnderLease
    GroupsServed
    StopEnds
CHECK_DEADLOCK FALSE
