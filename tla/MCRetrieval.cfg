CONSTANTS
    writer = writer
    reader = reader
    job = job
    s1 = s1
    s2 = s2
    lead1 = lead1
    lead2 = lead2
    user = user
    visitor = visitor
    pack = pack
    note = note
    Any = Any
    Callers <- TwoCallers
    Services <- TwoServices
    ServiceOf <- OwnService
    Uploads <- OneUpload
    PoolSize = 2
    MaxFaults = 1
    Writer = writer
    Sources <- TwoSources
    Entities <- FourEntities
    HomesOf <- Homes
    OriginOf <- Origins
    TableOf <- Tables
    OwnerOf <- Owners
    ChunksOf <- Sizes
    MaxVersions = 2
    Related <- Relations
    Users <- OneUser
    Visitor = visitor
    Workflows <- TwoWorkflows
    TopK = 1
    SummaryTopK = 2
    DeskTopK = 1
    OverFetch = 2
    MinFetch = 2
    Rankings <- TwoRankings
CHECK_DEADLOCK FALSE
SPECIFICATION FairSpec
INVARIANTS
    OneModel
    NobodyIsStranded
    StoredAsIndexed
    OneVersionPerDocument
    MissedOnlyIfOutranked
PROPERTIES
    EmbedReturns
