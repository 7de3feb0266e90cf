\* Sectors of 4 dwords, entries of 2 to 4 dwords, 12 dwords that a link can
\* reach: a table is full after three sectors, with 3 to 6 entries.
CONSTANTS
    SectorSize = 8
    DwordSize = 2
    EntryHeaderSize = 3
    MaxNameLength = 5
    MaxLink = 11
    NameLengths = {1, 2, 3, 4, 5, 6}
SPECIFICATION Spec
INVARIANTS
    TypeOK
    NoEntryStraddles
    LinksUnambiguous
    WriterFollowsLayout
    TableFillsItsSectors
\* The layout ends when the table is written or refused.
CHECK_DEADLOCK FALSE
