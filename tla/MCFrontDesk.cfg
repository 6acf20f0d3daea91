CONSTANTS
    t1 = t1
    t2 = t2
    Turns <- TwoTurns
    Tools <- EveryTool
    Proposals <- SomeStages
    MaxTurns = 2
    MaxFaults = 1
CHECK_DEADLOCK FALSE
SPECIFICATION Spec
SYMMETRY Interchangeable
INVARIANTS
    ReportIsTrue
    LeadBoundFollowsUpsert
PROPERTIES
    RewindNeedsCause
    FactsLostNeedBlindTurn
