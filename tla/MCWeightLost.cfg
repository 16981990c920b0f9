SPECIFICATION Spec
CONSTANTS
    n = n
    m = m
    g = g
    s = s
    t = t
    beatS = beatS
    beatD = beatD
    r1 = r1
    None = None
    Ids = {n, g, s}
    Hosts = {n}
    Names = {beatS, beatD}
    DaemonName = beatD
    MaxWeight = 1
    GenModulus = 2
    Registrars = {r1}
    Declared <- StandbyDeclared
    Daemons = {n}
    Component = g
    Beats <- StandbyBeats
    EdgeRequests <- Nothing
    DerivedWrites <- Nothing
PROPERTIES RegisteredWeightKept
