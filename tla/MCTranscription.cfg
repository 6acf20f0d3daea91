CONSTANTS
    t1 = t1
    t2 = t2
    Tasks <- TwoTasks
    MaxAttempts = 2
    MaxRequests = 2
    MaxFaults = 1
CHECK_DEADLOCK FALSE
SPECIFICATION FairSpec
INVARIANTS
    CallsWithinBudget
    NoAbandonedWork
    MirrorNotStuck
PROPERTIES
    CompletedLostOnlyToStaleReader
    ProcessingIsLeft
    PendingSettles
    RequestRecovers
