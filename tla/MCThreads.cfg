SPECIFICATION ThreadsSpec
CONSTANTS
    s1 = s1
    s2 = s2
    t1 = t1
    t2 = t2
    Streams = {s1, s2}
    Own = s1
    SweepCount = 1
    MaxLog = 1
    MaxNow = 1
    MaxEpoch = 1
    MaxGlitches = 1
    Threads = {t1, t2}
    NoThread = NoThread
    PoolSize = 2
    MaxKept = 2
    PoolTries = 2
    MaxRetries = 1
    MaxMishaps = 2
    c1 = c1
    Origin = Origin
    RelayServices = {sv}
    sv = sv
    OwnSite = OwnSite
    Unknown = Unknown
    Absent = Absent
    EmptyText = EmptyText
    Given = Given
    Junk = Junk
    NoObject = NoObject
    ClientIds <- MCRids
    Asked <- MCAsked
    Library = Library
    Spellings <- MCSpellings
    MaxJourney = 7
    u1 = u1
    u2 = u2
    Places <- MCPlaces
    Keys <- MCKeys
    Custom <- MCCustom
    Submitted <- MCSubmitted
    AnyKey = AnyKey
    NoKey = NoKey
    NoName = NoName
    Fails = Fails
    MaxHops = 3
    MaxChanges = 2
INVARIANTS NoLostWakeup JourneyKept TranslationKept
PROPERTIES CacheNeverOlder StreamsPickedUp EveryCallReturns
CHECK_DEADLOCK FALSE
