\* All trees of up to four entries that take two, three or four of the four dwords
\* of a sector: entries that end at a sector end, gaps in front of one, and right
\* links within a sector, to the next one and beyond.
CONSTANTS
    SectorSize = 8
    DwordSize = 2
    EntryHeaderSize = 3
    MaxNameLength = 5
    MaxLink = 19
    MaxRecords = 20
    MaxEntries = 4
    NameLengths = {1, 2, 5}
    TableDwords = 20
    Tables <- WrittenTables
    Elsewhere <- MCElsewhere
    CallbacksThrow = FALSE
SPECIFICATION RoundTripSpec
INVARIANTS
    WrittenTablesAreSound
    EntriesAreReadInLayoutOrder
    EntriesAreVisitedInNameOrder
\* The walk ends.
CHECK_DEADLOCK FALSE
