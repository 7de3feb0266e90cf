\* Two images and three rewrites: one in place, one to another directory, and
\* the second image named again.  The program is killed up to twice.
CONSTANTS
    a = a
    aOld = aOld
    b = b
    bOld = bOld
    bNew = bNew
    discA = discA
    discB = discB
    noDisc = noDisc
    Disc = {discA, discB}
    NoDisc = noDisc
    Path <- MCPath
    OldOf <- MCOldOf
    OutputOf <- MCOutputOf
    Batch <- MCBatch
    InitialFiles <- MCInitialFiles
    MaxCrashes = 2
SPECIFICATION Spec
INVARIANTS
    TypeOK
    OriginalsSurvive
    OldFilesKept
    FailureRestores
    SuccessIsComplete
PROPERTIES
    ContractHolds
    BatchFinishes
\* The batch ends.
CHECK_DEADLOCK FALSE
