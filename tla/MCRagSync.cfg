CONSTANTS
    d1 = d1
    d2 = d2
    d3 = d3
    p1 = p1
    p2 = p2
    Docs <- ThreeDocs
    Pack <- TwoFiles
    Sources <- TwoTables
    TableOf <- AllLeads
    ChunksOf <- Sizes
    Batch = 2
    Listed = 3
    MaxClock = 3
    MaxFaults = 1
CHECK_DEADLOCK FALSE
SPECIFICATION FairSpec
INVARIANTS
    CursorIsHonest
    OneMissIsNoticed
PROPERTIES
    CatchesUp
