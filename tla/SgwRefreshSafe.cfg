CONSTANTS
    g1 = g1
    g2 = g2
    SG = {g1, g2}
    Light = 1
    Heavy = 2
    MaxJitter = 1
    MaxAge = 1
    MaxClock = 4
SPECIFICATION Spec
CHECK_DEADLOCK FALSE
SYMMETRY Symmetric
INVARIANTS
    AgeBounded
    RequestServed
PROPERTIES
    HeavyRequestKept
