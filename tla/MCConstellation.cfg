SPECIFICATION Spec
CONSTANTS
    n = n
    m = m
    g = g
    s = s
    t = t
    beatS = beatS
    beatD = beatD
    r1 = r1
    None = None
    Ids = {n, m, g, s}
    Hosts = {n, m}
    Names = {beatS, beatD}
    DaemonName = beatD
    MaxWeight = 1
    GenModulus = 2
    Registrars = {r1}
    Declared <- MCDeclared
    Daemons = {n}
    Component = g
    Beats <- MCBeats
    EdgeRequests <- MCEdges
    DerivedWrites <- MCDerived
INVARIANTS CountsExact IndexesAgree PlacementsAnchored RingExact EdgesWhole EdgesFollowPotential
PROPERTIES GenerationMoves DerivedSurvives
