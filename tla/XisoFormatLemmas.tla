--------------------------- MODULE XisoFormatLemmas ---------------------------
(* Facts about the arithmetic of XisoFormat, for every value of the constants.  *)
EXTENDS XisoFormat, TLAPS

\* Rounding up to an alignment: the padding is shorter than the alignment and
\* ends at a multiple of it (padding_for).
LEMMA PaddingRoundsUp ==
    ASSUME NEW value \in Nat, NEW alignment \in Nat \ {0}
    PROVE  /\ PaddingFor(value, alignment) \in 0..(alignment - 1)
           /\ \E k \in Nat : value + PaddingFor(value, alignment) = k * alignment
<1> DEFINE q == value \div alignment
           r == value % alignment
<1>1. /\ q \in Nat
      /\ r \in 0..(alignment - 1)
      /\ value = q * alignment + r
      /\ r = value % alignment
    OBVIOUS
<1> HIDE DEF q, r
<1>2. CASE r = 0
    <2>1. PaddingFor(value, alignment) = 0
        BY <1>1, <1>2 DEF PaddingFor
    <2>2. QED
        BY <1>1, <1>2, <2>1
<1>3. CASE r # 0
    <2>1. PaddingFor(value, alignment) = alignment - r
        BY <1>1, <1>3 DEF PaddingFor
    <2>2. value + (alignment - r) = (q + 1) * alignment
        BY <1>1
    <2>3. q + 1 \in Nat /\ alignment - r \in 0..(alignment - 1)
        BY <1>1, <1>3
    <2>4. value + PaddingFor(value, alignment) = (q + 1) * alignment
        BY <2>1, <2>2
    <2>5. QED
        BY <2>1, <2>3, <2>4
<1>4. QED
    BY <1>2, <1>3

\* The sectors for some bytes hold them, and one sector less would not
\* (sectors_for).
LEMMA SectorsAreEnough ==
    ASSUME NEW bytes \in Nat
    PROVE  /\ SectorsFor(bytes) \in Nat
           /\ bytes <= SectorsFor(bytes) * SectorSize
           /\ SectorsFor(bytes) * SectorSize < bytes + SectorSize
BY FormatAssumption DEF SectorsFor

\* That determines the number of sectors.
LEMMA SectorsAreUnique ==
    ASSUME NEW bytes \in Nat, NEW k \in Nat,
           bytes <= k * SectorSize, k * SectorSize < bytes + SectorSize
    PROVE  SectorsFor(bytes) = k
<1>1. /\ SectorsFor(bytes) \in Nat
      /\ bytes <= SectorsFor(bytes) * SectorSize
      /\ SectorsFor(bytes) * SectorSize < bytes + SectorSize
    BY SectorsAreEnough
<1>2. CASE SectorsFor(bytes) < k
    <2>1. (SectorsFor(bytes) + 1) * SectorSize <= k * SectorSize
        BY <1>1, <1>2, FormatAssumption
    <2>2. QED
        BY <1>1, <2>1, FormatAssumption
<1>3. CASE k < SectorsFor(bytes)
    <2>1. (k + 1) * SectorSize <= SectorsFor(bytes) * SectorSize
        BY <1>1, <1>3, FormatAssumption
    <2>2. QED
        BY <1>1, <2>1, FormatAssumption
<1>4. QED
    BY <1>1, <1>2, <1>3

\* More bytes never take fewer sectors.
LEMMA MoreBytesMoreSectors ==
    ASSUME NEW a \in Nat, NEW b \in Nat, a <= b
    PROVE  SectorsFor(a) * SectorSize <= SectorsFor(b) * SectorSize
<1> DEFINE p == SectorsFor(a)
           q == SectorsFor(b)
<1>1. p \in Nat /\ p * SectorSize < a + SectorSize
    BY SectorsAreEnough
<1>2. q \in Nat /\ b <= q * SectorSize
    BY SectorsAreEnough
<1> HIDE DEF p, q
<1>3. SectorSize \in Nat \ {0}
    BY FormatAssumption
<1>4. ASSUME p <= q PROVE p * SectorSize <= q * SectorSize
    BY <1>1, <1>2, <1>3, <1>4
<1>5. ASSUME q < p PROVE p * SectorSize <= q * SectorSize
    <2>1. (q + 1) * SectorSize <= p * SectorSize
        BY <1>1, <1>2, <1>3, <1>5
    <2>2. q * SectorSize + SectorSize < a + SectorSize
        BY <1>1, <1>2, <1>3, <2>1
    <2>3. QED
        BY <1>2, <1>3, <2>2
<1>6. p * SectorSize <= q * SectorSize
    BY <1>1, <1>2, <1>4, <1>5
<1>7. QED
    BY <1>6 DEF p, q

\* Rounding up to whole sectors and counting the sectors agree.
LEMMA PaddingFillsTheSectors ==
    ASSUME NEW bytes \in Nat
    PROVE  bytes + PaddingFor(bytes, SectorSize) = SectorsFor(bytes) * SectorSize
<1>1. /\ PaddingFor(bytes, SectorSize) \in 0..(SectorSize - 1)
      /\ SectorSize \in Nat \ {0}
    BY PaddingRoundsUp, FormatAssumption
<1>2. PICK k \in Nat : bytes + PaddingFor(bytes, SectorSize) = k * SectorSize
    BY PaddingRoundsUp, FormatAssumption
<1>3. bytes <= k * SectorSize /\ k * SectorSize < bytes + SectorSize
    BY <1>1, <1>2
<1>4. SectorsFor(bytes) = k
    BY <1>3, SectorsAreUnique
<1>5. QED
    BY <1>2, <1>4

\* A multiple of d leaves no remainder.
LEMMA MultipleHasNoRemainder ==
    ASSUME NEW x \in Nat, NEW d \in Nat \ {0}
    PROVE  (x * d) % d = 0
OBVIOUS

\* Without a remainder, dividing loses nothing.
LEMMA WholeDwords ==
    ASSUME NEW value \in Nat, NEW d \in Nat \ {0}, value % d = 0
    PROVE  value \div d \in Nat /\ value = (value \div d) * d
OBVIOUS

\* The sum of two multiples of d is one.
LEMMA SumOfMultiples ==
    ASSUME NEW a \in Nat, NEW b \in Nat, NEW d \in Nat \ {0}, a % d = 0, b % d = 0
    PROVE  (a + b) % d = 0
<1> DEFINE p == a \div d
           q == b \div d
<1>1. p \in Nat /\ q \in Nat /\ a = p * d /\ b = q * d
    OBVIOUS
<1> HIDE DEF p, q
<1>2. a + b = (p + q) * d
    BY <1>1
<1>3. ((p + q) * d) % d = 0
    BY <1>1, MultipleHasNoRemainder
<1>4. QED
    BY <1>2, <1>3

\* Multiples of the sector size are multiples of the dword size.
LEMMA SectorsAreDwords ==
    ASSUME NEW k \in Nat
    PROVE  (k * SectorSize) % DwordSize = 0
<1> DEFINE m == SectorSize \div DwordSize
<1>1. m \in Nat /\ SectorSize = m * DwordSize
    BY FormatAssumption
<1>2. k * SectorSize = (k * m) * DwordSize
    BY <1>1, FormatAssumption
<1>3. k * m \in Nat
    BY <1>1
<1> HIDE DEF m
<1>4. ((k * m) * DwordSize) % DwordSize = 0
    BY <1>3, MultipleHasNoRemainder, FormatAssumption
<1>5. QED
    BY <1>2, <1>4

\* An entry takes whole dwords, at least its header and name, at most a sector.
LEMMA EntryLengthFits ==
    ASSUME NEW n \in Nat, n <= MaxNameLength
    PROVE  /\ EntryLength(n) \in Nat
           /\ EntryLength(n) % DwordSize = 0
           /\ EntryHeaderSize + n <= EntryLength(n)
           /\ EntryLength(n) <= SectorSize
<1> DEFINE h == EntryHeaderSize + n
           longest == EntryHeaderSize + MaxNameLength
<1>1. h \in Nat /\ longest \in Nat /\ h <= longest /\ DwordSize \in Nat \ {0}
    BY FormatAssumption
<1>2. PICK k \in Nat : h + PaddingFor(h, DwordSize) = k * DwordSize
    BY <1>1, PaddingRoundsUp
<1>3. PICK l \in Nat : longest + PaddingFor(longest, DwordSize) = l * DwordSize
    BY <1>1, PaddingRoundsUp
<1>4. /\ PaddingFor(h, DwordSize) \in 0..(DwordSize - 1)
      /\ PaddingFor(longest, DwordSize) \in 0..(DwordSize - 1)
    BY <1>1, PaddingRoundsUp
<1>5. EntryLength(n) = k * DwordSize /\ EntryLength(MaxNameLength) = l * DwordSize
    BY <1>2, <1>3 DEF EntryLength
<1>6. k <= l
    <2>1. SUFFICES ASSUME l < k PROVE FALSE
        OBVIOUS
    <2>2. (l + 1) * DwordSize <= k * DwordSize
        BY <1>1, <2>1
    <2>3. QED
        BY <1>1, <1>2, <1>3, <1>4, <2>2
<1>7. k * DwordSize <= l * DwordSize
    BY <1>1, <1>6
<1>8. (k * DwordSize) % DwordSize = 0
    BY <1>1
<1>9. h <= k * DwordSize
    BY <1>1, <1>2, <1>4
<1>10. k * DwordSize \in Nat
    BY <1>1
<1>11. l * DwordSize <= SectorSize
    BY <1>5, FormatAssumption
<1>12. SectorSize \in Nat /\ l * DwordSize \in Nat
    BY <1>1, FormatAssumption
<1> HIDE DEF h, longest
<1>13. h <= EntryLength(n) /\ EntryLength(n) <= SectorSize
    BY <1>1, <1>5, <1>7, <1>9, <1>10, <1>11, <1>12
<1>14. QED
    BY <1>5, <1>8, <1>10, <1>13 DEF h

\* An entry lies behind what is in the table already and inside one sector.
LEMMA EntryStaysInSector ==
    ASSUME NEW size \in Nat, NEW length \in Nat \ {0}, length <= SectorSize
    PROVE  /\ EntryOffset(size, length) \in Nat
           /\ EntryOffset(size, length) >= size
           /\ \E k \in Nat : /\ k * SectorSize <= EntryOffset(size, length)
                             /\ EntryOffset(size, length) + length <= (k + 1) * SectorSize
<1>1. CASE SectorsFor(size + length) > SectorsFor(size)
    <2>1. /\ EntryOffset(size, length) = size + PaddingFor(size, SectorSize)
          /\ PaddingFor(size, SectorSize) \in Nat
        BY <1>1, PaddingRoundsUp, FormatAssumption DEF EntryOffset
    <2>2. PICK k \in Nat : size + PaddingFor(size, SectorSize) = k * SectorSize
        BY PaddingRoundsUp, FormatAssumption
    <2>3. EntryOffset(size, length) + length <= (k + 1) * SectorSize
        BY <2>1, <2>2, FormatAssumption
    <2>4. QED
        BY <2>1, <2>2, <2>3
<1>2. CASE ~(SectorsFor(size + length) > SectorsFor(size))
    <2> DEFINE q == SectorsFor(size)
               p == SectorsFor(size + length)
    <2>1. EntryOffset(size, length) = size
        BY <1>2 DEF EntryOffset
    <2>2. /\ q \in Nat
          /\ size <= q * SectorSize
          /\ q * SectorSize < size + SectorSize
        BY SectorsAreEnough
    <2>3. p \in Nat /\ size + length <= p * SectorSize
        BY SectorsAreEnough
    <2>4. p <= q
        BY <1>2, <2>2, <2>3
    <2>5. p * SectorSize <= q * SectorSize
        BY <2>2, <2>3, <2>4, FormatAssumption
    <2>6. q # 0
        BY <2>3, <2>5, <2>2, FormatAssumption
    <2>7. q - 1 \in Nat
        BY <2>2, <2>6
    <2>8. (q - 1) * SectorSize <= size /\ size + length <= ((q - 1) + 1) * SectorSize
        <3> HIDE DEF q, p
        <3>1. (q - 1) * SectorSize = q * SectorSize - SectorSize
            BY <2>2, FormatAssumption
        <3>2. QED
            BY <2>2, <2>3, <2>5, <3>1, FormatAssumption
    <2>9. QED
        BY <2>1, <2>7, <2>8
<1>3. QED
    BY <1>1, <1>2

\* Entries stay on dword boundaries.
LEMMA EntryStaysOnDword ==
    ASSUME NEW size \in Nat, NEW length \in Nat, size % DwordSize = 0
    PROVE  EntryOffset(size, length) % DwordSize = 0
<1>1. PICK k \in Nat : size + PaddingFor(size, SectorSize) = k * SectorSize
    BY PaddingRoundsUp, FormatAssumption
<1>2. (k * SectorSize) % DwordSize = 0
    BY SectorsAreDwords
<1>3. QED
    BY <1>1, <1>2 DEF EntryOffset

\* The bound the table is checked against would let an entry start where its
\* link is the padding marker; that an entry is longer than a dword and stays in
\* one sector is what rules it out.
LEMMA LinkIsNotTheMarker ==
    ASSUME NEW offset \in Nat, offset <= MaxTableSize,
           NEW length \in Nat, length > DwordSize,
           NEW k \in Nat,
           k * SectorSize <= offset,
           offset + length <= (k + 1) * SectorSize
    PROVE  offset < MaxTableSize
<1> DEFINE c == (MaxTableSize + DwordSize) \div SectorSize
<1>1. MaxTableSize \in Nat /\ DwordSize \in Nat \ {0} /\ SectorSize \in Nat \ {0}
    BY FormatAssumption DEF MaxTableSize
<1>2. c \in Nat /\ MaxTableSize + DwordSize = c * SectorSize
    BY <1>1, FormatAssumption
<1> HIDE DEF c
<1>3. SUFFICES ASSUME offset = MaxTableSize PROVE FALSE
    BY <1>1
<1>4. k * SectorSize < c * SectorSize
    BY <1>1, <1>2, <1>3
<1>5. k < c
    BY <1>1, <1>2, <1>4
<1>6. (k + 1) * SectorSize <= c * SectorSize
    BY <1>1, <1>2, <1>5
<1>7. QED
    BY <1>1, <1>2, <1>3, <1>6
===============================================================================
