SPECIFICATION Spec
CONSTANTS
    n = n
    m = m
    g = g
    s = s
    t = t
    beatS = beatS
    beatD = beatD
    r1 = r1
    None = None
    Ids = {n, g, s, t}
    Hosts = {n}
    Names = {beatS, beatD}
    DaemonName = beatD
    MaxWeight = 2
    GenModulus = 2
    Registrars = {r1}
    Declared <- MovingDeclared
    Daemons = {}
    Component = g
    Beats <- Nothing
    EdgeRequests <- MovingEdges
    DerivedWrites <- Nothing
INVARIANTS NoDependencyCycle
