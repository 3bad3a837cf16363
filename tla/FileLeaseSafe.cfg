CONSTANTS
    p1 = p1
    p2 = p2
    o1 = o1
    o2 = o2
    Proc = {p1, p2}
    Owner = {o1, o2}
    OwnerOf <- Distinct
    TTL = 1
    MaxHold = 2
    SoleBreaker = TRUE
    Crashes = TRUE
    WriteErrors = "raised"
    MaxClock = 4
SPECIFICATION LiveSpec
CHECK_DEADLOCK FALSE
INVARIANTS
    LeaseExclusive
    CriticalSectionExclusive
PROPERTIES
    LeaseSpec
    OrphanedLockIsBroken
