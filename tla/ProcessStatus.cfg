SPECIFICATION StatusSpec
CONSTANTS
    Pids = {p1, p2, p3}
    NoPid = NoPid
    MaxStarts = 3
SYMMETRY Symmetry
INVARIANTS NotMissed AllKilled
