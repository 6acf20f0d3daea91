CONSTANTS
    c1 = c1
    c2 = c2
    c3 = c3
    Calls <- ThreeCalls
    Threshold = 2
    ResetTimeout = 2
    CountCap = 4
    Attempts = 2
SPECIFICATION FairSpec
INVARIANTS
    ClosedIffBelowThreshold
    TimerRunsFromLastFailure
PROPERTIES
    QuietBeforeTrial
    RecoversWithProvider
    EveryCallEnds
