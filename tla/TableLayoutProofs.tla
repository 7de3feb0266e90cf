-------------------------- MODULE TableLayoutProofs ---------------------------
(* The properties of TableLayout for every value of the format's constants and  *)
(* every sequence of names.  The checks of the code bound where an entry starts,*)
(* not what its link says; IInv carries the sector each entry lies in, and from *)
(* that follows what the reader relies on.                                      *)
EXTENDS TableLayout, XisoFormatLemmas

\* The variables stay within their types, for any names.
THEOREM TypeCorrect == Spec => []TypeOK
<1>1. Init => TypeOK
    BY DEF Init, TypeOK, Entry
<1>2. TypeOK /\ [Next]_vars => TypeOK'
    <2> SUFFICES ASSUME TypeOK, [Next]_vars PROVE TypeOK'
        OBVIOUS
    <2> USE DEF TypeOK
    <2>1. ASSUME NEW n \in NameLengths, PlaceEntry(n) PROVE TypeOK'
        <3> DEFINE offset == EntryOffset(size, EntryLength(n))
        <3>1. n \in Nat /\ n <= MaxNameLength
            BY <2>1, NameLengthsAssumption DEF PlaceEntry, Fits
        <3>2. /\ EntryLength(n) \in Nat \ {0}
              /\ EntryLength(n) <= SectorSize
            BY <3>1, EntryLengthFits, FormatAssumption
        <3>3. offset \in Nat
            BY <3>2, EntryStaysInSector
        <3> HIDE DEF offset
        <3>4. /\ entries' = Append(entries, [offset |-> offset, name |-> n])
              /\ size' = offset + EntryLength(n)
              /\ UNCHANGED <<pc, written, position>>
            BY <2>1 DEF PlaceEntry, offset
        <3>5. [offset |-> offset, name |-> n] \in Entry
            BY <3>3 DEF Entry
        <3>6. entries' \in Seq(Entry) /\ Len(entries') = Len(entries) + 1
            BY <3>4, <3>5
        <3>7. size' \in Nat
            BY <3>2, <3>3, <3>4
        <3>8. QED
            BY <3>4, <3>6, <3>7
    <2>2. ASSUME NEW n \in NameLengths, RejectEntry(n) PROVE TypeOK'
        BY <2>2 DEF RejectEntry
    <2>3. CASE FinishLayout
        BY <2>3, FormatAssumption DEF FinishLayout
    <2>4. CASE WriteEntry
        <3>1. entries[written + 1] \in Entry
            BY <2>4 DEF WriteEntry
        <3>2. /\ entries[written + 1].offset \in Nat
              /\ entries[written + 1].name \in Nat
            BY <3>1, NameLengthsAssumption DEF Entry
        <3>3. /\ UNCHANGED <<size, entries>>
              /\ \/ pc' = "out_of_order" /\ UNCHANGED <<written, position>>
                 \/ /\ UNCHANGED pc
                    /\ written' = written + 1 /\ written < Len(entries)
                    /\ position' = entries[written + 1].offset + EntryHeaderSize
                                    + entries[written + 1].name
            BY <2>4 DEF WriteEntry
        <3>4. EntryHeaderSize \in Nat
            BY FormatAssumption
        <3>5. position' \in Nat
            BY <3>2, <3>3, <3>4
        <3>6. written' \in 0..Len(entries)
            BY <3>3
        <3>7. QED
            BY <3>3, <3>5, <3>6
    <2>5. CASE FinishTable
        <3>1. PaddingFor(position, SectorSize) \in 0..(SectorSize - 1)
            BY PaddingRoundsUp, FormatAssumption
        <3>2. QED
            BY <2>5, <3>1, FormatAssumption DEF FinishTable
    <2>6. CASE UNCHANGED vars
        BY <2>6 DEF vars
    <2>7. QED
        BY <2>1, <2>2, <2>3, <2>4, <2>5, <2>6 DEF Next
<1>3. QED
    BY <1>1, <1>2, PTL DEF Spec

-------------------------------------------------------------------------------
(* The inductive invariant. *)

End(i) == entries[i].offset + EntryLength(entries[i].name)

\* Sector k of the table holds all of entry i.
InSector(i, k) == /\ k * SectorSize <= entries[i].offset
                  /\ End(i) <= (k + 1) * SectorSize

WellPlaced ==
    \A i \in 1..Len(entries) :
        /\ entries[i].name <= MaxNameLength
        /\ entries[i].offset <= MaxTableSize
        /\ entries[i].offset % DwordSize = 0
        /\ \E k \in Nat : InSector(i, k)

Ascending ==
    \A i, j \in 1..Len(entries) : i < j => End(i) <= entries[j].offset

SizeIsTheEnd ==
    IF entries = << >>
    THEN pc = "layout" => size = 0
    ELSE size = End(Len(entries))

PositionFollows ==
    pc \in {"layout", "write", "out_of_order"} =>
        position = IF written = 0 THEN 0
                   ELSE entries[written].offset + EntryHeaderSize + entries[written].name

EmptyTableIsASector ==
    pc \in {"write", "done"} /\ entries = << >> => size = SectorSize

IInv ==
    /\ TypeOK
    /\ WellPlaced
    /\ Ascending
    /\ SizeIsTheEnd
    /\ PositionFollows
    /\ EmptyTableIsASector
    /\ pc = "layout" => written = 0
    /\ WriterFollowsLayout
    /\ TableFillsItsSectors

-------------------------------------------------------------------------------
(* What placing one entry does to the invariant. *)

LEMMA PlacedEntry ==
    ASSUME TypeOK, NEW n \in NameLengths, PlaceEntry(n)
    PROVE  /\ n \in Nat
           /\ entries' = Append(entries, [offset |-> EntryOffset(size, EntryLength(n)), name |-> n])
           /\ entries' \in Seq(Entry)
           /\ Len(entries') = Len(entries) + 1
           /\ entries' # << >>
           /\ \A i \in 1..Len(entries) : entries'[i] = entries[i]
           /\ entries'[Len(entries) + 1].name = n
           /\ entries'[Len(entries) + 1].offset = EntryOffset(size, EntryLength(n))
           /\ size' = EntryOffset(size, EntryLength(n)) + EntryLength(n)
           /\ EntryLength(n) \in Nat \ {0}
           /\ EntryLength(n) <= SectorSize
           /\ EntryOffset(size, EntryLength(n)) \in Nat
<1> USE DEF TypeOK
<1>1. n \in Nat /\ n <= MaxNameLength
    BY NameLengthsAssumption DEF PlaceEntry, Fits
<1>2. /\ EntryLength(n) \in Nat \ {0}
      /\ EntryLength(n) <= SectorSize
    BY <1>1, EntryLengthFits, FormatAssumption
<1>3. EntryOffset(size, EntryLength(n)) \in Nat
    BY <1>2, EntryStaysInSector
<1> DEFINE entry == [offset |-> EntryOffset(size, EntryLength(n)), name |-> n]
<1>4. /\ entry \in Entry
      /\ entry.name = n
      /\ entry.offset = EntryOffset(size, EntryLength(n))
    BY <1>3 DEF Entry
<1>5. /\ entries' = Append(entries, entry)
      /\ size' = EntryOffset(size, EntryLength(n)) + EntryLength(n)
    BY DEF PlaceEntry
<1> HIDE DEF entry
<1>6. /\ entries' \in Seq(Entry)
      /\ Len(entries') = Len(entries) + 1
      /\ \A i \in 1..Len(entries) : entries'[i] = entries[i]
      /\ entries'[Len(entries) + 1] = entry
    BY <1>4, <1>5
<1>7. entries' # << >>
    BY <1>6
<1>8. QED
    BY <1>1, <1>2, <1>3, <1>4, <1>5, <1>6, <1>7 DEF entry

\* Where the entries lie, as numbers.
LEMMA EntriesAreNumbers ==
    ASSUME TypeOK, WellPlaced
    PROVE  \A i \in 1..Len(entries) :
               /\ entries[i].offset \in Nat
               /\ entries[i].name \in Nat
               /\ EntryLength(entries[i].name) \in Nat
               /\ EntryLength(entries[i].name) % DwordSize = 0
               /\ EntryHeaderSize + entries[i].name <= EntryLength(entries[i].name)
               /\ End(i) \in Nat
<1> SUFFICES ASSUME NEW i \in 1..Len(entries)
    PROVE  /\ entries[i].offset \in Nat
           /\ entries[i].name \in Nat
           /\ EntryLength(entries[i].name) \in Nat
           /\ EntryLength(entries[i].name) % DwordSize = 0
           /\ EntryHeaderSize + entries[i].name <= EntryLength(entries[i].name)
           /\ End(i) \in Nat
    OBVIOUS
<1>1. entries[i] \in Entry
    BY DEF TypeOK
<1>2. /\ entries[i].offset \in Nat
      /\ entries[i].name \in Nat
      /\ entries[i].name <= MaxNameLength
    BY <1>1, NameLengthsAssumption DEF Entry, WellPlaced
<1>3. /\ EntryLength(entries[i].name) \in Nat
      /\ EntryLength(entries[i].name) % DwordSize = 0
      /\ EntryHeaderSize + entries[i].name <= EntryLength(entries[i].name)
    BY <1>2, EntryLengthFits
<1>4. QED
    BY <1>2, <1>3 DEF End

\* The table is a whole number of dwords while entries are placed.
LEMMA SizeIsWholeDwords ==
    ASSUME TypeOK, WellPlaced, SizeIsTheEnd, pc = "layout"
    PROVE  size % DwordSize = 0
<1>1. CASE entries = << >>
    BY <1>1, FormatAssumption DEF SizeIsTheEnd
<1>2. CASE entries # << >>
    <2> DEFINE last == Len(entries)
    <2>1. last \in 1..Len(entries)
        BY <1>2 DEF TypeOK
    <2>2. size = entries[last].offset + EntryLength(entries[last].name)
        BY <1>2 DEF SizeIsTheEnd, End
    <2>3. /\ entries[last].offset \in Nat
          /\ entries[last].offset % DwordSize = 0
          /\ EntryLength(entries[last].name) \in Nat
          /\ EntryLength(entries[last].name) % DwordSize = 0
        BY <2>1, EntriesAreNumbers DEF WellPlaced
    <2>4. QED
        BY <2>2, <2>3, SumOfMultiples, FormatAssumption
<1>3. QED
    BY <1>1, <1>2

LEMMA PlaceKeepsInvariant ==
    ASSUME IInv, NEW n \in NameLengths, PlaceEntry(n), TypeOK'
    PROVE  IInv'
<1>0. PICK new \in Nat : new = Len(entries) + 1
    BY DEF IInv, TypeOK
<1>1. /\ TypeOK /\ WellPlaced /\ Ascending /\ SizeIsTheEnd
      /\ pc = "layout" /\ pc' = "layout"
      /\ written = 0 /\ written' = 0
      /\ position' = position
      /\ n <= MaxNameLength
      /\ EntryOffset(size, EntryLength(n)) <= MaxTableSize
    BY DEF IInv, PlaceEntry, Fits
<1>2. /\ entries' \in Seq(Entry)
      /\ Len(entries') = new
      /\ \A i \in 1..Len(entries) : entries'[i] = entries[i]
      /\ entries'[new].name = n
      /\ entries'[new].offset = EntryOffset(size, EntryLength(n))
      /\ size' = EntryOffset(size, EntryLength(n)) + EntryLength(n)
      /\ entries' # << >>
    BY <1>0, <1>1, PlacedEntry
<1>3. /\ n \in Nat
      /\ EntryLength(n) \in Nat \ {0}
      /\ EntryLength(n) <= SectorSize
      /\ EntryOffset(size, EntryLength(n)) \in Nat
      /\ size \in Nat
      /\ Len(entries) \in Nat
    <2>1. size \in Nat /\ Len(entries) \in Nat
        BY <1>1 DEF TypeOK
    <2>2. QED
        BY <1>1, <2>1, PlacedEntry
<1>4. /\ EntryOffset(size, EntryLength(n)) >= size
      /\ \E k \in Nat : /\ k * SectorSize <= EntryOffset(size, EntryLength(n))
                        /\ EntryOffset(size, EntryLength(n)) + EntryLength(n)
                               <= (k + 1) * SectorSize
    BY <1>3, EntryStaysInSector
<1>5. EntryOffset(size, EntryLength(n)) % DwordSize = 0
    BY <1>1, <1>3, SizeIsWholeDwords, EntryStaysOnDword
<1>6. \A i \in 1..Len(entries) : End(i)' = End(i)
    BY <1>2 DEF End
<1>7. End(new)' = size'
    BY <1>2 DEF End
<1>8. \A i \in 1..Len(entries') : i \in 1..Len(entries) \/ i = new
    BY <1>0, <1>2, <1>3
<1>9. WellPlaced'
    <2>1. ASSUME NEW i \in 1..Len(entries)
          PROVE  /\ entries'[i].name <= MaxNameLength
                 /\ entries'[i].offset <= MaxTableSize
                 /\ entries'[i].offset % DwordSize = 0
                 /\ \E k \in Nat : InSector(i, k)'
        BY <1>1, <1>2, <1>6 DEF WellPlaced, InSector
    <2>2. \E k \in Nat : InSector(new, k)'
        BY <1>2, <1>4, <1>7 DEF InSector
    <2>3. QED
        BY <1>1, <1>2, <1>5, <1>8, <2>1, <2>2 DEF WellPlaced
<1>10. \A i \in 1..Len(entries) : End(i) <= size
    <2>1. SUFFICES ASSUME NEW i \in 1..Len(entries) PROVE End(i) <= size
        OBVIOUS
    <2> DEFINE last == Len(entries)
    <2>2. last \in 1..Len(entries) /\ size = End(last)
        BY <1>1, <1>3 DEF SizeIsTheEnd
    <2>3. /\ End(i) \in Nat /\ entries[last].offset \in Nat
          /\ entries[last].offset <= End(last)
        BY <1>1, <2>2, EntriesAreNumbers DEF End
    <2>4. i < last => End(i) <= entries[last].offset
        BY <1>1, <2>2 DEF Ascending
    <2>5. QED
        BY <1>3, <2>2, <2>3, <2>4
<1>11. Ascending'
    <2>1. SUFFICES ASSUME NEW i \in 1..Len(entries'), NEW j \in 1..Len(entries'), i < j
                   PROVE  End(i)' <= entries'[j].offset
        BY DEF Ascending
    <2>2. i \in 1..Len(entries)
        BY <1>0, <1>2, <1>3, <2>1
    <2>3. CASE j = new
        <3>1. End(i) <= size /\ End(i)' = End(i)
            BY <1>6, <1>10, <2>2
        <3>2. End(i) \in Nat
            BY <1>1, <2>2, EntriesAreNumbers
        <3>3. QED
            BY <1>2, <1>3, <1>4, <2>3, <3>1, <3>2
    <2>4. CASE j \in 1..Len(entries)
        BY <1>1, <1>2, <1>6, <2>1, <2>2, <2>4 DEF Ascending
    <2>5. QED
        BY <1>8, <2>3, <2>4
<1>12. SizeIsTheEnd'
    BY <1>2, <1>7 DEF SizeIsTheEnd
<1>13. PositionFollows'
    BY <1>1 DEF IInv, PositionFollows
<1>14. QED
    BY <1>1, <1>2, <1>9, <1>11, <1>12, <1>13
    DEF IInv, EmptyTableIsASector, WriterFollowsLayout, TableFillsItsSectors

LEMMA FinishLayoutKeepsInvariant ==
    ASSUME IInv, FinishLayout, TypeOK'
    PROVE  IInv'
<1>1. /\ pc = "layout" /\ pc' = "write"
      /\ UNCHANGED <<entries, written, position>>
      /\ entries # << >> => size' = size
      /\ entries = << >> => size' = SectorSize
    BY DEF FinishLayout
<1>2. \A i : End(i)' = End(i)
    BY <1>1 DEF End
<1>3. WellPlaced' /\ Ascending'
    BY <1>1, <1>2 DEF IInv, WellPlaced, Ascending, InSector
<1>4. SizeIsTheEnd'
    BY <1>1, <1>2 DEF IInv, SizeIsTheEnd
<1>5. PositionFollows'
    BY <1>1 DEF IInv, PositionFollows
<1>6. QED
    BY <1>1, <1>3, <1>4, <1>5
    DEF IInv, EmptyTableIsASector, WriterFollowsLayout, TableFillsItsSectors

\* The bytes written for the entries so far end before the next entry starts.
LEMMA NextEntryIsAhead ==
    ASSUME IInv, pc = "write", written < Len(entries)
    PROVE  entries[written + 1].offset >= position
<1>1. /\ TypeOK /\ WellPlaced /\ Ascending
      /\ position = IF written = 0 THEN 0
                    ELSE entries[written].offset + EntryHeaderSize + entries[written].name
    BY DEF IInv, PositionFollows
<1>2. /\ written \in Nat /\ written + 1 \in 1..Len(entries)
      /\ Len(entries) \in Nat /\ position \in Nat
    BY <1>1 DEF TypeOK
<1>3. entries[written + 1].offset \in Nat
    BY <1>1, <1>2, EntriesAreNumbers
<1>4. CASE written = 0
    BY <1>1, <1>3, <1>4
<1>5. CASE written # 0
    <2>1. written \in 1..Len(entries) /\ written < written + 1
        BY <1>2, <1>5
    <2>2. End(written) <= entries[written + 1].offset
        BY <1>1, <1>2, <2>1 DEF Ascending
    <2>3. /\ entries[written].offset \in Nat
          /\ entries[written].name \in Nat
          /\ EntryLength(entries[written].name) \in Nat
          /\ EntryHeaderSize + entries[written].name <= EntryLength(entries[written].name)
          /\ End(written) \in Nat
        BY <1>1, <2>1, EntriesAreNumbers
    <2>4. position <= End(written)
        <3> DEFINE e == entries[written].offset
                   n == entries[written].name
                   length == EntryLength(n)
        <3>1. position = e + EntryHeaderSize + n /\ End(written) = e + length
            BY <1>1, <1>5 DEF End
        <3>2. /\ e \in Nat /\ n \in Nat /\ length \in Nat
              /\ EntryHeaderSize + n <= length /\ EntryHeaderSize \in Nat
            BY <2>3, FormatAssumption
        <3> HIDE DEF e, n, length
        <3>3. QED
            BY <3>1, <3>2
    <2>5. QED
        BY <1>2, <1>3, <2>2, <2>3, <2>4
<1>6. QED
    BY <1>4, <1>5

LEMMA WriteKeepsInvariant ==
    ASSUME IInv, WriteEntry, TypeOK'
    PROVE  IInv'
<1>1. /\ TypeOK /\ pc = "write" /\ written < Len(entries)
      /\ UNCHANGED <<size, entries>>
    BY DEF IInv, WriteEntry
<1>2. entries[written + 1].offset \in Nat /\ position \in Nat
    <2>1. written + 1 \in 1..Len(entries)
        BY <1>1 DEF TypeOK
    <2>2. QED
        BY <1>1, <2>1, EntriesAreNumbers DEF IInv, TypeOK
<1>3. ~(entries[written + 1].offset < position)
    BY <1>1, <1>2, NextEntryIsAhead
<1>4. /\ pc' = "write"
      /\ written' = written + 1
      /\ position' = entries[written + 1].offset + EntryHeaderSize + entries[written + 1].name
    BY <1>1, <1>3 DEF WriteEntry
<1>5. \A i : End(i)' = End(i)
    BY <1>1 DEF End
<1>6. WellPlaced' /\ Ascending' /\ SizeIsTheEnd'
    BY <1>1, <1>4, <1>5 DEF IInv, WellPlaced, Ascending, InSector, SizeIsTheEnd
<1>7. PositionFollows'
    <2>1. written' # 0
        BY <1>1, <1>4 DEF TypeOK
    <2>2. QED
        BY <1>1, <1>4, <2>1 DEF PositionFollows
<1>8. QED
    BY <1>1, <1>4, <1>6, <1>7
    DEF IInv, EmptyTableIsASector, WriterFollowsLayout, TableFillsItsSectors

\* The last byte of the last entry and the end of the table are in the same
\* sector, so padding the one fills the sectors of the other.
LEMMA LastEntryFillsItsSector ==
    ASSUME IInv, pc = "write", written = Len(entries), entries # << >>
    PROVE  position + PaddingFor(position, SectorSize) = SectorsFor(size) * SectorSize
<1> DEFINE last == Len(entries)
<1>1. TypeOK /\ WellPlaced /\ last \in 1..Len(entries) /\ last # 0
    BY DEF IInv, TypeOK
<1>2. /\ position = entries[last].offset + EntryHeaderSize + entries[last].name
      /\ size = End(last)
    BY <1>1 DEF IInv, PositionFollows, SizeIsTheEnd
<1>3. PICK k \in Nat : InSector(last, k)
    BY <1>1 DEF WellPlaced
<1>4. /\ entries[last].offset \in Nat
      /\ entries[last].name \in Nat
      /\ EntryLength(entries[last].name) \in Nat
      /\ EntryHeaderSize + entries[last].name <= EntryLength(entries[last].name)
    BY <1>1, EntriesAreNumbers
<1> HIDE DEF last
<1>5. /\ EntryHeaderSize \in Nat \ {0} /\ SectorSize \in Nat \ {0}
      /\ k * SectorSize \in Nat
      /\ (k + 1) * SectorSize = k * SectorSize + SectorSize
    BY FormatAssumption
<1>6. /\ position \in Nat /\ size \in Nat
      /\ k * SectorSize < position /\ position <= size
      /\ size <= (k + 1) * SectorSize
    <2> DEFINE low == k * SectorSize
               high == (k + 1) * SectorSize
    <2>1. /\ size = entries[last].offset + EntryLength(entries[last].name)
          /\ low <= entries[last].offset /\ size <= high
        BY <1>2, <1>3 DEF InSector, End
    <2>2. low \in Nat /\ EntryHeaderSize \in Nat /\ EntryHeaderSize > 0
        BY <1>5
    <2> DEFINE e == entries[last].offset
               n == entries[last].name
               length == EntryLength(n)
    <2> HIDE DEF low, high
    <2>3. /\ position \in Nat /\ size \in Nat
          /\ low < position /\ position <= size
        <3>1. /\ position = e + EntryHeaderSize + n /\ size = e + length
              /\ e \in Nat /\ n \in Nat /\ length \in Nat
              /\ EntryHeaderSize + n <= length /\ low <= e
            BY <1>2, <1>4, <2>1
        <3> HIDE DEF e, n, length
        <3>2. QED
            BY <2>2, <3>1
    <2>4. QED
        BY <2>1, <2>3 DEF low, high
<1>7. /\ k + 1 \in Nat
      /\ position <= (k + 1) * SectorSize
      /\ (k + 1) * SectorSize < position + SectorSize
      /\ (k + 1) * SectorSize < size + SectorSize
    BY <1>5, <1>6
<1>8. SectorsFor(position) = k + 1 /\ SectorsFor(size) = k + 1
    BY <1>6, <1>7, SectorsAreUnique
<1>9. QED
    BY <1>6, <1>8, PaddingFillsTheSectors

LEMMA FinishTableKeepsInvariant ==
    ASSUME IInv, FinishTable, TypeOK'
    PROVE  IInv'
<1>1. /\ TypeOK /\ pc = "write" /\ pc' = "done" /\ written = Len(entries)
      /\ UNCHANGED <<size, entries, written>>
      /\ position' = IF entries = << >> THEN SectorSize
                     ELSE position + PaddingFor(position, SectorSize)
    BY DEF IInv, FinishTable
<1>2. \A i : End(i)' = End(i)
    BY <1>1 DEF End
<1>3. WellPlaced' /\ Ascending' /\ SizeIsTheEnd'
    BY <1>1, <1>2 DEF IInv, WellPlaced, Ascending, InSector, SizeIsTheEnd
<1>4. position' = SectorsFor(size) * SectorSize
    <2>1. CASE entries = << >>
        <3>1. size = SectorSize
            BY <1>1, <2>1 DEF IInv, EmptyTableIsASector
        <3>2. SectorsFor(SectorSize) = 1
            BY SectorsAreUnique, FormatAssumption
        <3>3. QED
            BY <1>1, <2>1, <3>1, <3>2, FormatAssumption
    <2>2. CASE entries # << >>
        BY <1>1, <2>2, LastEntryFillsItsSector
    <2>3. QED
        BY <2>1, <2>2
<1>5. QED
    BY <1>1, <1>3, <1>4
    DEF IInv, EmptyTableIsASector, PositionFollows, WriterFollowsLayout, TableFillsItsSectors

\* IInv holds in every state.
LEMMA InvariantIsInductive == Spec => []IInv
<1>1. Init => IInv
    <2> SUFFICES ASSUME Init PROVE IInv
        OBVIOUS
    <2>1. TypeOK
        BY DEF Init, TypeOK, Entry
    <2>2. QED
        BY <2>1 DEF Init, IInv, WellPlaced, Ascending, SizeIsTheEnd, PositionFollows,
                    EmptyTableIsASector, WriterFollowsLayout, TableFillsItsSectors
<1>2. IInv /\ TypeOK' /\ [Next]_vars => IInv'
    <2> SUFFICES ASSUME IInv, TypeOK', [Next]_vars PROVE IInv'
        OBVIOUS
    <2>1. ASSUME NEW n \in NameLengths, PlaceEntry(n) PROVE IInv'
        BY <2>1, PlaceKeepsInvariant
    <2>2. ASSUME NEW n \in NameLengths, RejectEntry(n) PROVE IInv'
        BY <2>2 DEF RejectEntry, IInv, WellPlaced, Ascending, InSector, End, SizeIsTheEnd,
                    PositionFollows, EmptyTableIsASector, WriterFollowsLayout,
                    TableFillsItsSectors
    <2>3. CASE FinishLayout
        BY <2>3, FinishLayoutKeepsInvariant
    <2>4. CASE WriteEntry
        BY <2>4, WriteKeepsInvariant
    <2>5. CASE FinishTable
        BY <2>5, FinishTableKeepsInvariant
    <2>6. CASE UNCHANGED vars
        BY <2>6 DEF vars, IInv, WellPlaced, Ascending, InSector, End, SizeIsTheEnd,
                    PositionFollows, EmptyTableIsASector, WriterFollowsLayout,
                    TableFillsItsSectors
    <2>7. QED
        BY <2>1, <2>2, <2>3, <2>4, <2>5, <2>6 DEF Next
<1>3. QED
    BY <1>1, <1>2, TypeCorrect, PTL DEF Spec

-------------------------------------------------------------------------------
(* What a reader of the table relies on. *)

\* The two visits of the directory never disagree and the bytes of the table are
\* exactly the sectors reserved for it.
THEOREM TableIsWrittenWhole == Spec => [](WriterFollowsLayout /\ TableFillsItsSectors)
<1>1. IInv => WriterFollowsLayout /\ TableFillsItsSectors
    BY DEF IInv
<1>2. QED
    BY <1>1, InvariantIsInductive, PTL

\* No entry reaches across a sector boundary.
THEOREM EntriesStayInSectors == Spec => []NoEntryStraddles
<1>1. IInv => NoEntryStraddles
    <2> SUFFICES ASSUME IInv, NEW i \in 1..Len(entries)
                 PROVE  SectorOf(entries[i].offset)
                          = SectorOf(entries[i].offset + EntryHeaderSize + entries[i].name - 1)
        BY DEF NoEntryStraddles
    <2> DEFINE first == entries[i].offset
               final == entries[i].offset + EntryHeaderSize + entries[i].name - 1
    <2>1. TypeOK /\ WellPlaced
        BY DEF IInv
    <2>2. PICK k \in Nat : InSector(i, k)
        BY <2>1 DEF WellPlaced
    <2>3. /\ first \in Nat /\ entries[i].name \in Nat
          /\ EntryHeaderSize + entries[i].name <= EntryLength(entries[i].name)
          /\ EntryLength(entries[i].name) \in Nat
        BY <2>1, EntriesAreNumbers
    <2>4. EntryHeaderSize \in Nat \ {0} /\ SectorSize \in Nat \ {0}
        BY FormatAssumption
    <2>5. /\ final \in Nat /\ first <= final
          /\ k * SectorSize <= first /\ final < (k + 1) * SectorSize
        <3> DEFINE low == k * SectorSize
                   high == (k + 1) * SectorSize
        <3>1. low <= first /\ first + EntryLength(entries[i].name) <= high
            BY <2>2 DEF InSector, End
        <3>2. low \in Nat /\ high \in Nat
            BY <2>4
        <3> HIDE DEF low, high
        <3>3. final \in Nat /\ first <= final /\ final < high
            <4> DEFINE n == entries[i].name
                       length == EntryLength(n)
            <4>1. /\ first \in Nat /\ n \in Nat /\ length \in Nat
                  /\ EntryHeaderSize + n <= length /\ first + length <= high
                  /\ final = first + EntryHeaderSize + n - 1
                BY <2>3, <3>1
            <4> HIDE DEF first, final, n, length
            <4>2. QED
                BY <2>4, <3>2, <4>1
        <3>4. QED
            BY <3>1, <3>3 DEF low, high
    <2> HIDE DEF first, final
    <2>6. SectorOf(first) = k /\ SectorOf(final) = k
        BY <2>3, <2>4, <2>5 DEF SectorOf
    <2>7. QED
        BY <2>6 DEF first, final
<1>2. QED
    BY <1>1, InvariantIsInductive, PTL

\* Every link the writer can store stands for one place in the table and is
\* neither "no child" nor the padding marker.
THEOREM LinksReadBack == Spec => []LinksUnambiguous
<1>1. IInv => LinksUnambiguous
    <2> SUFFICES ASSUME IInv, NEW i \in 1..Len(entries)
                 PROVE  /\ entries[i].offset % DwordSize = 0
                        /\ entries[i].offset \div DwordSize < PaddingMarker
                        /\ i > 1 => entries[i].offset \div DwordSize > 0
        BY DEF LinksUnambiguous
    <2> DEFINE offset == entries[i].offset
               length == EntryLength(entries[i].name)
               link == offset \div DwordSize
    <2>1. TypeOK /\ WellPlaced /\ Ascending
        BY DEF IInv
    <2>2. PICK k \in Nat : InSector(i, k)
        BY <2>1 DEF WellPlaced
    <2>3. /\ offset \in Nat /\ entries[i].name \in Nat /\ length \in Nat
          /\ EntryHeaderSize + entries[i].name <= length
        BY <2>1, EntriesAreNumbers
    <2>4. /\ EntryHeaderSize \in Nat /\ EntryHeaderSize > DwordSize
          /\ DwordSize \in Nat \ {0} /\ MaxLink \in Nat
        BY FormatAssumption
    <2>5. /\ offset % DwordSize = 0 /\ offset <= MaxTableSize
          /\ k * SectorSize <= offset /\ offset + length <= (k + 1) * SectorSize
        BY <2>1, <2>2 DEF WellPlaced, InSector, End
    <2>6. length > DwordSize
        BY <2>3, <2>4
    <2> HIDE DEF offset, length, link
    <2>7. offset < MaxTableSize
        BY <2>2, <2>3, <2>5, <2>6, LinkIsNotTheMarker
    <2>8. link \in Nat /\ offset = link * DwordSize
        BY <2>3, <2>4, <2>5, WholeDwords DEF link
    <2>9. link < MaxLink
        BY <2>4, <2>7, <2>8 DEF MaxTableSize
    <2>10. ASSUME i > 1 PROVE link > 0
        <3>1. 1 \in 1..Len(entries) /\ 1 < i
            BY <2>10
        <3>2. End(1) <= entries[i].offset
            BY <2>1, <3>1 DEF Ascending
        <3>3. /\ entries[1].offset \in Nat /\ entries[1].name \in Nat
              /\ EntryLength(entries[1].name) \in Nat
              /\ EntryHeaderSize + entries[1].name <= EntryLength(entries[1].name)
            BY <2>1, <3>1, EntriesAreNumbers
        <3>4. offset > 0
            BY <2>3, <2>4, <3>2, <3>3 DEF offset, End
        <3>5. QED
            BY <2>4, <2>8, <3>4
    <2>11. QED
        BY <2>5, <2>9, <2>10 DEF PaddingMarker, offset, link
<1>2. QED
    BY <1>1, InvariantIsInductive, PTL
===============================================================================
