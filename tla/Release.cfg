SPECIFICATION Spec
CONSTANTS
    Releasers = {r1, r2}
    FirstDocs <- MCFirstDocs
    Explicit <- MCExplicit
    MaxRuns = 3
SYMMETRY Symmetry
INVARIANTS TagTruth TestRunUndone
PROPERTIES HistoryKept
CHECK_DEADLOCK FALSE
