SPECIFICATION Spec
CONSTANTS
    a = a
    b = b
    SG = {2, 10}
    Modem = {a, b}
    Channel = {1, 2}
    NameOrder <- MCNameOrder
    Response <- MCResponse
    Service <- MCService
    Request <- Requests
    Snapshot <- Snapshots
    MaxStores = 2
    MaxPolls = 2
    MaxOps = 1
    Faults = TRUE
INVARIANTS
    SettledVerdict
    FilterKeepsVerdict
    AnalysedFile
PROPERTY
    WildcardScope
CHECK_DEADLOCK FALSE
