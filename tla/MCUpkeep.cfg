SPECIFICATION UpkeepSpec
CONSTANTS
    n1 = n1
    n2 = n2
    Nobody = Nobody
    Daemons <- MCTwo
    ClaimCount = 2
    MaxAttempts = 1
    MaxEntries = 2
    MaxFailures = 1
    MaxBoots = 3
    fa = fa
    Readers <- MCTwo
    Formats <- MCFormats
    ReadCount = 1
    MaxNews = 2
    MaxOutages = 1
    MaxStarts = 3
    m1 = m1
    m2 = m2
    wk = wk
    core = core
    more = more
    Masters <- MCMasters
    Workers <- MCWorkers
    Libraries <- MCLibraries
    Carries <- MCCarries
    Extends <- MCExtends
    NoTree = NoTree
    MaxKeys = 2
    MaxRefusals = 1
    MaxBegins = 3
    Processes <- MCTwo
    NoProcess = NoProcess
    Ttl = 4
    Period = 3
    MaxMisses = 1
    pl = pl
    svc = svc
    verb = verb
    Samplers <- MCTwo
    Placements <- MCPlacements
    Service = svc
    Commands <- MCCommands
    Latencies = {0, 8}
    Window = 1
    BaselineWindow = 2
    RingSize = 2
    MinSamples = 1
    Guard = 1500
    Alpha = 20
    Horizon = 4
    Theta = 3000
    RuleTicks = 2
    DownTicks = 2
    IdleTicks = 2
    LeaseTicks = 2
    NoSampler = NoSampler
    MaxNow = 2
    MaxRouted = 3
    MaxMishaps = 1
    Builders <- MCTwo
    Main = main
    Others = {}
    Faces = faces
    Nothing = Nothing
    MaxEdits = 2
    MaxBreaks = 1
    Unset = Unset
    Junk = Junk
    Broken = Broken
    Host = 9
    Files <- MCFiles
    Args <- MCArgs
    Units <- MCUnits
    EditValues <- MCEdits
    MaxSettingEdits = 2
    MaxLoadFailures = 1
    MaxLaunches = 2
    gen = gen
    inf = inf
    Publishers = {m1}
    Fetchers = {wk}
    Types <- MCTypes
    General = gen
    First <- MCFirst
    Exposes <- MCExposes
    Compiled = Compiled
    NoConfig = NoConfig
    MaxVersions = 2
    MaxServes = 3
    MaxUpsets = 1
SYMMETRY Symmetric
INVARIANTS  FormatsArrive UpIsBacked KnownWhileUp AnnouncedIsServed   RemoteDecidesAsMaster
  
CHECK_DEADLOCK FALSE
