SPECIFICATION FairSpec
CONSTANTS
    g = g
    v = v
    inference = inference
    NoNode = NoNode
    NoHint = NoHint
    Nodes <- MCNodes
    Hints <- MCHints
    Exposure <- MCExposure
    Shapes <- CmdShapes
    Sleepers = {}
    MaxEntries = 1
    BatchSize = 1
    ReclaimBatch = 1
    MaxLen = 1
    MaxFaults = 1
PROPERTIES OrphansRecovered
CHECK_DEADLOCK FALSE
