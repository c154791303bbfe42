SPECIFICATION Spec
CONSTANTS
    t1 = t1
    t2 = t2
    i1 = i1
    i2 = i2
    i3 = i3
    i4 = i4
    NoEntry = NoEntry
    Threads <- MCThreads
    Ids <- MCIds
    MaxCalls = 5
SYMMETRY Symmetric
INVARIANTS
    OwnLoopOnly
    ClosedOnOwnLoop
    OpenInUse
    AskedOnce
