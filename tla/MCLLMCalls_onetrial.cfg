CONSTANTS
    c1 = c1
    c2 = c2
    c3 = c3
    Calls <- TwoCalls
    Threshold = 2
    ResetTimeout = 2
    CountCap = 4
    Attempts = 2
SPECIFICATION Spec
INVARIANT OneTrialAtATime
