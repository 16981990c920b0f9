SPECIFICATION CommandsSpec
CONSTANTS
    MaxRing = 3
    MaxRingWeight = 3
    MaxRequests = 27
    t1 = t1
    t2 = t2
    Served = served
    Self = self
    NoSite = NoSite
    NoId = NoId
    Blank = Blank
    Tenants <- MCTenants
    Rids <- MCRids
    Commands <- MCCommands
    rid = rid
    MaxBatch = 2
    MaxRefused = 3
    w1 = w1
    w2 = w2
    o1 = o1
    o2 = o2
    cid = cid
    s1 = s1
    s2 = s2
    Daemon = Daemon
    Nothing = Nothing
    Carriers <- MCCarriers
    Origins <- MCOrigins
    Cids <- MCCids
    Services <- MCServices
    MaxSends = 2
    MaxAnswers = 2
    MaxRelayFaults = 1
    Channels <- MCOrigins
    Sites <- MCServices
    NoChannel = NoChannel
    Ttls = {0, 9}
    MaxTtl = 2
    DefaultTtl = 1
    MaxIdle = 3
    MaxClock = 5
    MaxCallFailures = 1
    e1 = e1
    e2 = e2
    e3 = e3
    Ids <- MCIds
    Threads <- MCCarriers
    Missing = Missing
    MaxWrites = 2
    MaxLapses = 1
SYMMETRY Symmetric
INVARIANTS RouteFair BatchAsSingles AnswerIsHome ChannelsKept 
PROPERTIES KeepsItsPromise 
CHECK_DEADLOCK FALSE
