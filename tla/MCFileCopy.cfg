\* Files of up to 6 bytes over the bytes of the pattern and the patch byte, read
\* through a buffer of 4 of which 2 can be held back: an occurrence can be cut
\* at every place and over up to three chunks, and there can be two of them.
CONSTANTS
    Byte = {1, 2, 3, 4}
    PatchByte = 4
    Pattern <- MCPattern
    Carry = 2
    BufferSize = 4
    SectorSize = 4
    DwordSize = 2
    EntryHeaderSize = 3
    MaxNameLength = 1
    MaxLink = 3
    MaxFileSize = 6
SPECIFICATION Spec
INVARIANTS
    CopyIsPatched
    NothingWrittenTooEarly
    SizeFitsTheData
\* The copy ends.
CHECK_DEADLOCK FALSE
