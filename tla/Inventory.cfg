SPECIFICATION InventorySpec
CONSTANTS
    a = a
    b = b
    x = x
    y = y
    None = None
    Group = {1, 2}
    Mac = {a, b}
    Addr = {x, y}
    Index = {1, 2, 3}
    Nodes <- MCNodes
    SetOf <- MCSetOf
    ListOf <- MCListOf
    Ofdm <- MCOfdm
    Qam <- MCQam
    Enabled = {1}
    Tables <- MCTables
    MaxEvents = 2
    MaxJobs = 2
PROPERTIES
    PairsHeld
    NothingDropped
    ChannelsTrue
CHECK_DEADLOCK FALSE
