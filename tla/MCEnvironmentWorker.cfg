SPECIFICATION Spec
CONSTANTS
    g = g
    v = v
    inference = inference
    NoNode = NoNode
    NoHint = NoHint
    Nodes <- MCNodes
    Hints <- MCHints
    Exposure <- MCExposure
    Shapes <- AllShapes
    Sleepers <- MCSleepers
    MaxEntries = 2
    BatchSize = 2
    ReclaimBatch = 1
    MaxLen = 1
    MaxFaults = 1
INVARIANTS  AcknowledgedMeansExecuted
   
CHECK_DEADLOCK FALSE
