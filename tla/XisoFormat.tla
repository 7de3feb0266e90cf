------------------------------ MODULE XisoFormat ------------------------------
(* The numbers of the on-disk format (include/xiso/format.hpp) and the           *)
(* arithmetic that the writer and the reader share.  The numbers are constants: *)
(* TLC gives them small values of the same proportions, the proofs hold for     *)
(* every value that satisfies FormatAssumption, the real ones included:         *)
(*   SectorSize 2048, DwordSize 4, EntryHeaderSize 14, MaxNameLength 255,       *)
(*   MaxLink 16^^FFFF.                                                          *)
EXTENDS Integers

CONSTANTS SectorSize,       \* bytes of a sector
          DwordSize,        \* links count in units of this many bytes
          EntryHeaderSize,  \* fixed part of a directory table entry
          MaxNameLength,    \* longest name an entry can store
          MaxLink           \* largest value of the link field

\* Padding needed to bring value up to the next multiple of alignment.
PaddingFor(value, alignment) == (alignment - (value % alignment)) % alignment

\* Number of sectors needed to hold bytes.
SectorsFor(bytes) == (bytes + SectorSize - 1) \div SectorSize

\* A link field with all bits set is how the reader recognises padding.
PaddingMarker == MaxLink

\* Links are dword offsets, so no table entry can start behind this byte.
MaxTableSize == MaxLink * DwordSize

\* The reader takes a table that reaches further than this for corrupt.
MaxTableSpan == MaxTableSize + SectorSize

\* Bytes an entry with a name of nameLength bytes takes in its table: header
\* and name, rounded up to whole dwords.
EntryLength(nameLength) ==
    LET length == EntryHeaderSize + nameLength
    IN  length + PaddingFor(length, DwordSize)

\* Mistake: entries are packed without regard to sector boundaries.
PackedOffset(size, length) == size

\* Where an entry of length bytes goes in a table that has size bytes so far:
\* at its end or, when it would straddle a sector, at the next boundary.
EntryOffset(size, length) ==
    IF SectorsFor(size + length) > SectorsFor(size)
    THEN size + PaddingFor(size, SectorSize)
    ELSE size

\* What the code relies on: whole dwords in a sector, a link range that ends at
\* a sector boundary, an entry header longer than a dword, and room for the
\* longest entry in a sector.
ASSUME FormatAssumption ==
    /\ SectorSize \in Nat \ {0}
    /\ DwordSize \in Nat \ {0}
    /\ EntryHeaderSize \in Nat
    /\ MaxNameLength \in Nat
    /\ MaxLink \in Nat \ {0}
    /\ SectorSize % DwordSize = 0
    /\ (MaxTableSize + DwordSize) % SectorSize = 0
    /\ EntryHeaderSize > DwordSize
    /\ EntryLength(MaxNameLength) <= SectorSize
===============================================================================
