\* Whatever is in the four dwords of two sectors: links to themselves and to each
\* other, into padding and behind the end.  The walk may read five entries.
CONSTANTS
    SectorSize = 4
    DwordSize = 2
    EntryHeaderSize = 3
    MaxNameLength = 1
    MaxLink = 3
    MaxRecords = 5
    TableDwords = 5
    Tables <- MCTables
    Elsewhere <- MCElsewhere
    CallbacksThrow = TRUE
SPECIFICATION Spec
INVARIANTS
    TypeOK
    EachRecordIsVisitedOnce
    ReadsFollowLinks
PROPERTIES
    WalkEnds
\* The walk ends.
CHECK_DEADLOCK FALSE
