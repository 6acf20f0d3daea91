CONSTANTS
    t1 = t1
    t2 = t2
    Turns <- OneTurn
    Tools <- HandoffOrMeeting
    Proposals <- SomeStages
    MaxTurns = 2
    MaxFaults = 0
CHECK_DEADLOCK FALSE
SPECIFICATION Spec
PROPERTIES
    ForwardOnly
