CONSTANTS
    r1 = r1
    r2 = r2
    None = None
    Replica = {r1, r2}
    SG = {1, 2}
    Mode <- BothCombined
    Target <- OneOrBoth
    LeaderTTL = 3
    LeaseTTL = 3
    MaxGap = 1
    MaxFaults = 2
SPECIFICATION Spec
CHECK_DEADLOCK FALSE
INVARIANTS
    BeliefBacked
PROPERTY Partitions
