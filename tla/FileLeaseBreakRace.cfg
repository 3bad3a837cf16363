CONSTANTS
    p1 = p1
    p2 = p2
    o1 = o1
    o2 = o2
    Proc = {p1, p2}
    Owner = {o1, o2}
    OwnerOf <- Distinct
    TTL = 1
    MaxHold = 2
    SoleBreaker = FALSE
    Crashes = TRUE
    WriteErrors = "none"
    MaxClock = 5
SPECIFICATION Spec
CHECK_DEADLOCK FALSE
INVARIANT LeaseExclusive
