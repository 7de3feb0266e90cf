\* Directories of up to two entries, three below each other, links to parents; an
\* image in the directory; one file that changes.  Damaged images with two tables
\* that may contain themselves and each other.
CONSTANTS
    a = a
    A = A
    b = b
    long = long
    separator = separator
    update = update
    Key <- MCKey
    TooLong = {long}
    Unusable = {separator}
    Early <- MCEarly
    SystemUpdate = {update}
    NoRoot = NoRoot
    MaxPath = 3
    MaxSize = 2
    ImageSize = 1
    MaxChanges = 1
    MaxDepth = 1
    BufferSize = 2
    Batches <- MCBatches
    ForeignImages <- MCForeignImages
SPECIFICATION TripSpec
INVARIANTS
    TypeOK
    ImageHoldsTheSource
    FailureLeavesNoImage
    WalkSeesTheVolume
    StatisticsAreTrue
    ExtractRestoresTheSource
    MadeImagesAreReadable
PROPERTIES
    OperationsEnd
\* The operations end.
CHECK_DEADLOCK FALSE
