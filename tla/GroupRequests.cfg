SPECIFICATION Spec
CONSTANTS
    m1 = m1
    m2 = m2
    Modems <- MCModems
    ServiceGroups <- MCServiceGroups
    Tables <- MCTables
    Requests <- MCRequests
    Pings = 2
    PageSize = 1
    PoolSize = 0
    MaxCycles = 2
    MaxRestarts = 1
INVARIANTS ResetVerified VerdictTrue AdvancedFresh
PROPERTIES RequestAnswered
