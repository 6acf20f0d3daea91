CONSTANTS
    d1 = d1
    d2 = d2
    d3 = d3
    e1 = e1
    e2 = e2
    i1 = i1
    c1 = c1
    c2 = c2
    u1 = u1
    u2 = u2
    NoId = NoId
    Nobody = Nobody
    Users <- TwoUsers
    ActorOf <- FirstOwned
    Deliveries <- Three
    Entities <- TwoEntities
    EventIds <- NoIds
    Contents <- OneContent
    EntityOf <- SweepEntities
    IdOf <- Anonymous
    Sweep <- SweepOfTwo
    EventType = "daily_summary"
    Cooldown = 1
    MemoryLimit = 1
    MaxClock = 0
    MaxFaults = 1
CHECK_DEADLOCK FALSE
SPECIFICATION FairSpec
INVARIANTS
    OneActionPerRun
    CompletedIsAnswered
    FailedRunHasNoAction
PROPERTIES
    RunSettles
    SweepReachesAll
