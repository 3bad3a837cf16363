CONSTANTS
    MaxErrors = 2
    MinInterval = 2
    MaxRestarts = 1
    Window = 3
    MaxManagers = 3
    MaxUptime = 2
SPECIFICATION LiveSpec
CHECK_DEADLOCK FALSE
INVARIANTS
    OneLoop
    OnlyShutdownStops
PROPERTIES
    StoreRefilled
    StopEndsLoop
