CONSTANTS
    a = a
    aOld = aOld
    b = b
    bOld = bOld
    discA = discA
    discB = discB
    noDisc = noDisc
    Disc = {discA, discB}
    NoDisc = noDisc
    Path <- MCPath
    OldOf <- MCOldOf
    OutputOf <- MCOutputOf
    Batch <- MCBatch
    InitialFiles <- MCInitialFiles
    MaxCrashes = 0
SPECIFICATION Spec
PROPERTIES
    RenamedFirst
CHECK_DEADLOCK FALSE
