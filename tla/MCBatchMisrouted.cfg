SPECIFICATION CommandsSpec
CONSTANTS
    MaxRing = 1
    MaxRingWeight = 1
    MaxRequests = 1
    t1 = t1
    t2 = t2
    Served = served
    Self = self
    NoSite = NoSite
    NoId = NoId
    Blank = Blank
    Tenants <- MCTenants
    Rids <- MCRids
    Commands <- MCCommands
    rid = rid
    MaxBatch = 2
    MaxRefused = 0
    w1 = w1
    w2 = w2
    o1 = o1
    o2 = o2
    cid = cid
    s1 = s1
    s2 = s2
    Daemon = Daemon
    Nothing = Nothing
    Carriers <- MCCarriers
    Origins <- MCOrigins
    Cids <- MCCids
    Services <- MCServices
    MaxSends = 0
    MaxAnswers = 0
    MaxRelayFaults = 0
    Channels <- MCOrigins
    Sites <- MCServices
    NoChannel = NoChannel
    Ttls = {0}
    MaxTtl = 1
    DefaultTtl = 1
    MaxIdle = 1
    MaxClock = 0
    MaxCallFailures = 0
    e1 = e1
    e2 = e2
    e3 = e3
    Ids <- MCIds
    Threads <- MCCarriers
    Missing = Missing
    MaxWrites = 0
    MaxLapses = 0
INVARIANTS ResponsesGoHome
CHECK_DEADLOCK FALSE
