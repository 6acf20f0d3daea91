CONSTANTS
    t1 = t1
    t2 = t2
    Tasks <- TwoTasks
    MaxAttempts = 2
    MaxRequests = 2
    MaxFaults = 1
CHECK_DEADLOCK FALSE
SPECIFICATION PipelineSpec
INVARIANTS
    AnalysisHasEnded
PROPERTIES
    KeepsContract
