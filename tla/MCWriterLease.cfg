SPECIFICATION FairSpec
CONSTANTS
    a = a
    b = b
    c1 = c1
    c2 = c2
    NoNode = NoNode
    Nodes <- MCNodes
    Cons <- MCCons
    Served <- MCServed
    MaxCrashes = 1
    MaxLapses = 1
 
PROPERTIES DerivedValuesHold DeadHolderReplaced
