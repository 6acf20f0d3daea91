CONSTANTS
    MaxAttempts = 3
CHECK_DEADLOCK FALSE
SPECIFICATION Spec
INVARIANTS
    PoolClosedAtEnd
    JobsNeedBackend
    ReadyMeansRunning
