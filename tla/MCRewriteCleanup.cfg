CONSTANTS
    a = a
    aOld = aOld
    b = b
    bOld = bOld
    bNew = bNew
    discA = discA
    discB = discB
    noDisc = noDisc
    Disc = {discA, discB}
    NoDisc = noDisc
    Path <- MCPath
    OldOf <- MCOldOf
    OutputOf <- MCOutputOf
    Batch <- MCBatch
    InitialFiles <- MCInitialFiles
    MaxCrashes = 2
SPECIFICATION Spec
PROPERTIES
    OnlyPartialRemoved
CHECK_DEADLOCK FALSE
