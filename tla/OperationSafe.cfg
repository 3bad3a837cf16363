CONSTANTS
    m1 = m1
    m2 = m2
    c1 = c1
    Modem = {m1, m2}
    Client = {c1}
    MaxWorkers = 2
    RetryCount = 1
    Faults = TRUE
    Crashes = TRUE
SPECIFICATION LiveSpec
CHECK_DEADLOCK FALSE
INVARIANTS
    CompletedMeansCaptured
    AccountedFor
    CountersNeverAhead
PROPERTIES
    OperationSpec
    Terminates
