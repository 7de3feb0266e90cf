\* Tables of one or two sectors and files of none to two.  Eight sectors can be
\* numbered from the root on, fewer than the largest trees need.
CONSTANTS
    SectorSize = 2
    DwordSize = 1
    EntryHeaderSize = 2
    MaxNameLength = 0
    MaxLink = 3
    RootSector = 2
    SectorLimit = 10
    FileModulus = 2
    MaxItems = 5
    TableSizes = {2, 3}
    FileSizes = {0, 3}
    Trees <- MCTrees
SPECIFICATION Spec
INVARIANTS
    TypeOK
    SectorsAreNotShared
    TaggedImagesAreWhole
PROPERTIES
    NothingIsOverwritten
\* The writer ends.
CHECK_DEADLOCK FALSE
