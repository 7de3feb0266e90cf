--------------------------- MODULE ImageLayoutProofs --------------------------
(* Proofs about ImageLayout: for trees of any size and any number of sectors,   *)
(* no two items share a sector, nothing that was written is written over, and   *)
(* an image with the tag is whole.                                              *)
EXTENDS ImageLayout, XisoFormatLemmas, SequenceTheorems, TLAPS

Room(i) == SectorsFor(items[i].size)

\* While there are sectors left, no number has lost bits, and the items follow
\* each other.
Ascending ==
    /\ next_sector >= RootSector
    /\ starts = << >> => next_sector = RootSector
    /\ starts # << >> => starts[1] = RootSector
    /\ next_sector < SectorLimit =>
          \A i \in 1..Len(starts) :
             /\ starts[i] + Room(i) <= next_sector
             /\ \A j \in 1..Len(starts) : i < j => starts[i] + Room(i) <= starts[j]

Running == pc \notin {"assign", "failed"}

LaidOut == Running => Len(starts) = Len(items)

-------------------------------------------------------------------------------
(* The tree *)

LEMMA TreesAreTrees ==
    ASSUME IsTree(items)
    PROVE  /\ items \in Seq(Item)
           /\ Len(items) \in Nat \ {0}
           /\ \A i \in Items : items[i] \in Item /\ items[i].size \in Nat
           /\ \A i \in 2..Len(items) : items[i].parent \in 1..(i - 1)
           /\ \A i \in 2..Len(items) : items[items[i].parent].is_directory
           /\ items[1].is_directory /\ items[1].parent = 0
<1>1. items \in Seq(Item) /\ Len(items) > 0 /\ items[1].is_directory /\ items[1].parent = 0
  BY Zenon DEF IsTree
<1>2. \A i \in 2..Len(items) : items[i].parent \in 1..(i - 1) /\ items[items[i].parent].is_directory
  BY Zenon DEF IsTree
<1>3. Len(items) \in Nat \ {0}
  BY <1>1
<1>4. \A i \in 1..Len(items) : items[i] \in Item
  BY <1>1
<1>5. \A i \in Items : items[i] \in Item /\ items[i].size \in Nat
  BY <1>4 DEF Items, Item
<1> QED
  BY <1>1, <1>2, <1>3, <1>5

\* A number of sectors is a natural number, and at least one for bytes.
LEMMA RoomIsNat ==
    ASSUME IsTree(items), NEW i \in Items
    PROVE  Room(i) \in Nat
BY TreesAreTrees, SectorsAreEnough DEF Room

LEMMA SectorNumbersAreCounted ==
    ASSUME NEW n \in Nat
    PROVE  /\ Truncated(n) \in 0..(SectorLimit - 1)
           /\ n < SectorLimit => Truncated(n) = n
BY LayoutAssumption DEF Truncated

\* More bytes never take fewer sectors.
LEMMA SectorsAreMonotone ==
    ASSUME NEW a \in Nat, NEW b \in Nat, a <= b
    PROVE  SectorsFor(a) <= SectorsFor(b)
<1> DEFINE p == SectorsFor(a)
           q == SectorsFor(b)
<1>1. p \in Nat /\ q \in Nat /\ SectorSize \in Nat \ {0}
  BY SectorsAreEnough, FormatAssumption
<1>2. p * SectorSize < a + SectorSize /\ b <= q * SectorSize
  BY SectorsAreEnough
<1> HIDE DEF p, q
<1>3. p * SectorSize < (q + 1) * SectorSize
  BY <1>1, <1>2
<1>4. p < q + 1
  BY <1>1, <1>3
<1> QED
  BY <1>1, <1>4 DEF p, q

\* A directory without entries takes one sector.
LEMMA EmptyTableTakesASector == SectorsFor(SectorSize) = 1
BY SectorsAreUnique, FormatAssumption

\* Rounding up takes no more sectors.
LEMMA PaddingTakesNoSector ==
    ASSUME NEW bytes \in Nat
    PROVE  SectorsFor(bytes + PaddingFor(bytes, SectorSize)) = SectorsFor(bytes)
<1> DEFINE k == SectorsFor(bytes)
<1>1. k \in Nat /\ bytes + PaddingFor(bytes, SectorSize) = k * SectorSize
  BY SectorsAreEnough, PaddingFillsTheSectors
<1>2. SectorSize \in Nat \ {0}
  BY FormatAssumption
<1> HIDE DEF k
<1>3. k * SectorSize \in Nat /\ k * SectorSize < k * SectorSize + SectorSize
  BY <1>1, <1>2
<1>4. SectorsFor(k * SectorSize) = k
  BY <1>1, <1>3, SectorsAreUnique
<1> QED
  BY <1>1, <1>4 DEF k

-------------------------------------------------------------------------------
(* Type correctness *)

LEMMA TypeInit == Init => TypeOK
<1> SUFFICES ASSUME Init PROVE TypeOK
  OBVIOUS
<1>1. IsTree(items)
  BY LayoutAssumption DEF Init
<1>2. sizes \in [Items -> Nat]
  BY <1>1, TreesAreTrees DEF Init, Items
<1>3. Len(items) \in Nat \ {0} /\ RootSector \in Nat /\ 0 \in 0..(SectorLimit - 1)
  BY <1>1, TreesAreTrees, LayoutAssumption
<1>4. /\ pc = "assign" /\ next_sector = RootSector /\ starts = << >> /\ visiting = 1
      /\ open = << >> /\ DOMAIN image = Sector /\ descriptor = NoRoot
      /\ length = 0 /\ space_size = 0 /\ tagged = FALSE
  BY DEF Init
<1>5. starts \in Seq(0..(SectorLimit - 1)) /\ Len(starts) <= Len(items) /\ open \in Seq(Items)
  BY <1>3, <1>4
<1>6. descriptor \in [start : Nat, size : Nat]
  BY <1>4 DEF NoRoot
<1> QED
  <2>1. pc \in {"assign", "tree", "volume", "tag", "close", "done", "failed"} /\ tagged \in BOOLEAN
    BY <1>4
  <2>2. next_sector \in Nat /\ visiting \in 1..(Len(items) + 1) /\ length \in Nat
    BY <1>3, <1>4
  <2> QED
    BY <1>1, <1>2, <1>3, <1>4, <1>5, <1>6, <2>1, <2>2 DEF TypeOK

\* A number in a directory or for a file that is still to be copied.
LEMMA StartsAreNumbers ==
    ASSUME TypeOK, LaidOut, Running, NEW i \in Items
    PROVE  /\ starts[i] \in 0..(SectorLimit - 1) /\ starts[i] \in Nat
           /\ sizes[i] \in Nat
<1>1. starts \in Seq(0..(SectorLimit - 1)) /\ i \in 1..Len(starts)
  BY DEF TypeOK, LaidOut, Items
<1>2. starts[i] \in 0..(SectorLimit - 1)
  BY <1>1, ElementOfSeq
<1>3. sizes[i] \in Nat
  BY DEF TypeOK
<1> QED
  BY <1>2, <1>3, LayoutAssumption

\* The innermost directory is an item, and the rest of those open are as before.
LEMMA OpenOnes ==
    ASSUME TypeOK, open # << >>
    PROVE  /\ Len(open) \in Nat \ {0}
           /\ Innermost \in Items
           /\ SubSeq(open, 1, Len(open) - 1) \in Seq(Items)
           /\ Len(SubSeq(open, 1, Len(open) - 1)) = Len(open) - 1
           /\ \A j \in 1..(Len(open) - 1) : SubSeq(open, 1, Len(open) - 1)[j] = open[j]
<1>1. open \in Seq(Items)
  BY DEF TypeOK
<1>2. Len(open) \in Nat \ {0}
  BY <1>1, EmptySeq
<1>3. \A j \in 1..Len(open) : open[j] \in Items
  BY <1>1, ElementOfSeq
<1>4. /\ SubSeq(open, 1, Len(open) - 1) \in Seq(Items)
      /\ Len(SubSeq(open, 1, Len(open) - 1)) = Len(open) - 1
      /\ \A j \in 1..(Len(open) - 1) : SubSeq(open, 1, Len(open) - 1)[j] = open[j]
  BY <1>2, <1>3, SubSeqProperties
<1> QED
  BY <1>2, <1>3, <1>4 DEF Innermost

LEMMA LengthIsNat ==
    ASSUME TypeOK, NEW start \in Nat, NEW bytes \in Nat, NEW content,
           Write(start, bytes, content)
    PROVE  length' \in Nat /\ DOMAIN image' = Sector
<1>1. SectorsFor(bytes) \in Nat /\ length \in Nat
  BY SectorsAreEnough DEF TypeOK
<1> QED
  BY <1>1 DEF Write

LEMMA TypeNext ==
    ASSUME TypeOK, LaidOut, [Next]_vars
    PROVE  TypeOK'
<1>0. /\ items' = items /\ IsTree(items) /\ Items = 1..Len(items) /\ Items' = Items
      /\ Len(items) \in Nat \ {0}
  BY TreesAreTrees DEF TypeOK, Items, vars, Next, AssignSectors, ImageIsTooLarge,
     WriteDescriptor, EnterDirectory, CopyFile, WriteTable, PadImage,
     WriteVolumeDescriptors, WriteOptimizedTag, Close, Fail
<1>1. CASE AssignSectors
  <2>1. Len(starts) + 1 \in Items /\ Room(Len(starts) + 1) \in Nat
    BY <1>0, <1>1, RoomIsNat DEF AssignSectors, TypeOK
  <2>2. /\ next_sector' \in Nat
        /\ starts' \in Seq(0..(SectorLimit - 1)) /\ Len(starts') <= Len(items)
    <3>1. next_sector \in Nat /\ Truncated(next_sector) \in 0..(SectorLimit - 1)
      BY SectorNumbersAreCounted DEF TypeOK
    <3>2. starts \in Seq(0..(SectorLimit - 1))
      BY DEF TypeOK
    <3> QED
      BY <1>0, <1>1, <2>1, <3>1, <3>2 DEF AssignSectors, Room
  <2> QED
    BY <1>0, <1>1, <2>2 DEF AssignSectors, TypeOK
<1>2. CASE ImageIsTooLarge \/ Close \/ Fail
  BY <1>0, <1>2 DEF ImageIsTooLarge, Close, Fail, TypeOK
<1>3. CASE WriteDescriptor
  <2>1. starts[1] \in 0..(SectorLimit - 1) /\ sizes[1] \in Nat
    <3>1. starts \in Seq(0..(SectorLimit - 1)) /\ Len(starts) = Len(items)
      BY <1>3 DEF WriteDescriptor, TypeOK
    <3>2. 1 \in Items /\ sizes \in [Items -> Nat]
      BY <1>0 DEF TypeOK
    <3>3. 1 \in 1..Len(starts)
      BY <1>0, <3>1
    <3> QED
      BY <3>1, <3>2, <3>3, ElementOfSeq
  <2>2. starts[1] \in Nat
    BY <2>1, LayoutAssumption
  <2> QED
    BY <1>0, <1>3, <2>1, <2>2 DEF WriteDescriptor, TypeOK
<1>4. CASE EnterDirectory
  BY <1>0, <1>4 DEF EnterDirectory, TypeOK
<1>5. CASE CopyFile
  <2>1. PICK size \in 0..items[visiting].size :
           /\ Write(starts[visiting], size, [kind |-> "file", item |-> visiting])
           /\ sizes' = [sizes EXCEPT ![visiting] = size]
    BY <1>5 DEF CopyFile
  <2>2. visiting \in Items /\ size \in Nat /\ starts[visiting] \in Nat
    BY <1>0, <1>5, <2>1, TreesAreTrees, StartsAreNumbers DEF CopyFile, Running
  <2>3. length' \in Nat /\ DOMAIN image' = Sector
    BY <2>1, <2>2, LengthIsNat
  <2> QED
    BY <1>0, <1>5, <2>1, <2>2, <2>3 DEF CopyFile, TypeOK
<1>6. CASE WriteTable
  <2>1. Innermost \in Items /\ open' \in Seq(Items)
    BY <1>6, OpenOnes DEF WriteTable
  <2>2. starts[Innermost] \in Nat /\ sizes[Innermost] \in Nat
    BY <1>6, <2>1, StartsAreNumbers DEF WriteTable, Running
  <2>3. length' \in Nat /\ DOMAIN image' = Sector
    BY <1>6, <2>2, LengthIsNat DEF WriteTable
  <2> QED
    BY <1>0, <1>6, <2>1, <2>3 DEF WriteTable, TypeOK
<1>7. CASE PadImage
  <2>1. length' \in Nat
    <3>1. length \in Nat /\ FileModulus \in Nat \ {0}
      BY LayoutAssumption DEF TypeOK
    <3>2. PaddingFor(length, FileModulus) \in 0..(FileModulus - 1)
      BY <3>1, PaddingRoundsUp
    <3> QED
      BY <1>7, <3>1, <3>2 DEF PadImage
  <2> QED
    BY <1>0, <1>7, <2>1 DEF PadImage, TypeOK
<1>8. CASE WriteVolumeDescriptors
  BY <1>0, <1>8, SectorNumbersAreCounted DEF WriteVolumeDescriptors, TypeOK
<1>9. CASE WriteOptimizedTag
  BY <1>0, <1>9 DEF WriteOptimizedTag, TypeOK
<1>10. CASE UNCHANGED vars
  BY <1>0, <1>10 DEF vars, TypeOK
<1> QED
  BY <1>1, <1>2, <1>3, <1>4, <1>5, <1>6, <1>7, <1>8, <1>9, <1>10 DEF Next

-------------------------------------------------------------------------------
(* Sectors *)

LEMMA NumbersNext ==
    ASSUME TypeOK, LaidOut, [Next]_vars
    PROVE  /\ LaidOut'
           /\ ~AssignSectors => UNCHANGED <<items, next_sector, starts>>
<1>1. ~AssignSectors => UNCHANGED <<items, next_sector, starts>>
  BY DEF vars, Next, ImageIsTooLarge, WriteDescriptor, EnterDirectory, CopyFile, WriteTable,
     PadImage, WriteVolumeDescriptors, WriteOptimizedTag, Close, Fail
<1>2. LaidOut'
  BY DEF LaidOut, Running, vars, Next, AssignSectors, ImageIsTooLarge, WriteDescriptor,
     EnterDirectory, CopyFile, WriteTable, PadImage, WriteVolumeDescriptors,
     WriteOptimizedTag, Close, Fail
<1> QED
  BY <1>1, <1>2

LEMMA AscendingNext ==
    ASSUME TypeOK, LaidOut, Ascending, [Next]_vars
    PROVE  Ascending'
<1>1. CASE ~AssignSectors
  BY <1>1, NumbersNext DEF Ascending, Room
<1>2. CASE AssignSectors
  <2> DEFINE n == Len(starts)
  <2>1. /\ n \in Nat /\ n + 1 \in Items /\ Room(n + 1) \in Nat /\ next_sector \in Nat
        /\ starts \in Seq(0..(SectorLimit - 1))
    BY <1>2, TreesAreTrees, RoomIsNat DEF AssignSectors, TypeOK, Items
  <2>2. /\ starts' = Append(starts, Truncated(next_sector))
        /\ next_sector' = next_sector + Room(n + 1) /\ items' = items
    BY <1>2 DEF AssignSectors, Room
  <2>3. /\ Len(starts') = n + 1
        /\ \A i \in 1..n : starts'[i] = starts[i]
        /\ starts'[n + 1] = Truncated(next_sector)
        /\ starts' # << >>
    BY <2>1, <2>2
  <2>4. next_sector < SectorLimit => Truncated(next_sector) = next_sector
    BY <2>1, SectorNumbersAreCounted
  <2>5. next_sector' >= RootSector
    BY <2>1, <2>2, LayoutAssumption DEF Ascending
  <2>6. starts'[1] = RootSector
    <3>1. CASE starts = << >>
      <4>1. n = 0 /\ next_sector = RootSector
        BY <3>1 DEF Ascending
      <4> QED
        BY <4>1, <2>3, <2>4, LayoutAssumption
    <3>2. CASE starts # << >>
      <4>1. 1 \in 1..n
        BY <3>2, <2>1, EmptySeq
      <4> QED
        BY <4>1, <3>2, <2>3 DEF Ascending
    <3> QED
      BY <3>1, <3>2
  <2>7. ASSUME next_sector' < SectorLimit, NEW i \in 1..(n + 1)
        PROVE  /\ starts'[i] + Room(i)' <= next_sector'
               /\ \A j \in 1..(n + 1) : i < j => starts'[i] + Room(i)' <= starts'[j]
    <3>1. next_sector < SectorLimit
      BY <2>1, <2>2, <2>7, LayoutAssumption
    <3>2. Room(i)' = Room(i) /\ i \in Items
      BY <2>1, <2>2, <2>7 DEF Room, Items
    <3>3. Room(i) \in Nat
      BY <3>2, RoomIsNat DEF TypeOK
    <3>4. CASE i = n + 1
      BY <2>1, <2>2, <2>3, <2>4, <3>1, <3>2, <3>3, <3>4
    <3>5. CASE i \in 1..n
      <4>1. starts[i] \in Nat
        <5>1. starts[i] \in 0..(SectorLimit - 1)
          BY <2>1, <3>5, ElementOfSeq
        <5> QED
          BY <5>1, LayoutAssumption
      <4>2. starts[i] + Room(i) <= next_sector
        BY <3>1, <3>5 DEF Ascending
      <4>3. ASSUME NEW j \in 1..(n + 1), i < j
            PROVE  starts[i] + Room(i) <= starts'[j]
        <5>1. CASE j = n + 1
          BY <4>2, <5>1, <2>3, <2>4, <3>1
        <5>2. CASE j \in 1..n
          BY <4>3, <5>2, <3>1, <3>5, <2>3 DEF Ascending
        <5> QED
          BY <4>3, <5>1, <5>2, <2>1
      <4>4. starts'[i] = starts[i] /\ Room(i)' = Room(i)
        BY <2>3, <3>2, <3>5
      <4>5. starts[i] + Room(i) <= next_sector'
        <5> DEFINE a == starts[i]
                   b == Room(i)
                   c == Room(n + 1)
        <5>1. a \in Nat /\ b \in Nat /\ c \in Nat /\ next_sector \in Nat
          BY <2>1, <3>3, <4>1
        <5>2. a + b <= next_sector /\ next_sector' = next_sector + c
          BY <2>2, <4>2
        <5> HIDE DEF a, b, c
        <5>3. a + b <= next_sector'
          BY <5>1, <5>2
        <5> QED
          BY <5>3 DEF a, b
      <4> QED
        BY <4>3, <4>4, <4>5
    <3> QED
      BY <3>4, <3>5, <2>1, <2>7
  <2> QED
    BY <2>3, <2>5, <2>6, <2>7 DEF Ascending
<1> QED
  BY <1>1, <1>2

\* When the sectors have been handed out and are not too many, they are disjoint
\* and have numbers.  Only a root without entries is not looked at.
LEMMA SectorsAreDisjoint ==
    ASSUME TypeOK, Ascending, Len(starts) = Len(items), ~TooLarge
    PROVE  /\ starts[1] = RootSector
           /\ \A i, j \in Items : i < j => starts[i] + Room(i) <= starts[j]
           /\ \A i \in Items : starts[i] + Room(i) <= SectorLimit
<1>1. /\ Len(items) \in Nat \ {0} /\ starts \in Seq(0..(SectorLimit - 1))
      /\ IsTree(items) /\ Items = 1..Len(items) /\ next_sector \in Nat
  BY TreesAreTrees DEF TypeOK, Items
<1>2. starts[1] = RootSector
  BY <1>1, EmptySeq DEF Ascending
<1>3. \A i \in Items : starts[i] \in Nat /\ Room(i) \in Nat
  <2> TAKE i \in Items
  <2>1. starts[i] \in 0..(SectorLimit - 1)
    BY <1>1, ElementOfSeq
  <2> QED
    BY <1>1, <2>1, LayoutAssumption, RoomIsNat
<1>4. CASE next_sector < SectorLimit
  BY <1>1, <1>2, <1>3, <1>4, LayoutAssumption DEF Ascending
<1>5. CASE ~(next_sector < SectorLimit)
  <2>1. IsEmpty(1)
    BY <1>1, <1>5, LayoutAssumption DEF TooLarge
  <2>2. Len(items) = 1
    <3>1. ASSUME Len(items) >= 2 PROVE FALSE
      <4>1. 2 \in 2..Len(items) /\ 2 \in Items
        BY <1>1, <3>1
      <4>2. items[2].parent \in 1..(2 - 1)
        BY <1>1, <4>1, TreesAreTrees
      <4>3. 2 \in Children(1)
        BY <4>1, <4>2 DEF Children
      <4> QED
        BY <2>1, <4>3 DEF IsEmpty
    <3> QED
      BY <1>1, <3>1
  <2>3. Room(1) = 1
    <3>1. items[1].size = SectorSize
      <4>1. 1 \in 1..Len(items) /\ items[1].is_directory
        BY <1>1, TreesAreTrees
      <4>2. \A i \in 1..Len(items) : items[i].parent # 1
        BY <2>1, <1>1 DEF IsEmpty, Children
      <4> QED
        BY <1>1, <4>1, <4>2 DEF IsTree
    <3> QED
      BY <3>1, EmptyTableTakesASector DEF Room
  <2> QED
    BY <1>1, <1>2, <2>2, <2>3, LayoutAssumption
<1> QED
  BY <1>4, <1>5

LEMMA SectorsNext ==
    ASSUME TypeOK, LaidOut, Ascending, SectorsAreNotShared, [Next]_vars
    PROVE  SectorsAreNotShared'
<1>1. CASE WriteDescriptor
  <2>1. UNCHANGED <<items, starts>> /\ Len(starts) = Len(items) /\ ~TooLarge
    BY <1>1 DEF WriteDescriptor
  <2> QED
    BY <2>1, SectorsAreDisjoint DEF SectorsAreNotShared, Room, Items
<1>2. CASE pc' = "assign" \/ pc' = "failed"
  BY <1>2 DEF SectorsAreNotShared
<1>3. CASE ~WriteDescriptor /\ pc' # "assign" /\ pc' # "failed"
  <2>1. UNCHANGED <<items, starts>> /\ pc # "assign" /\ pc # "failed"
    BY <1>3 DEF vars, Next, AssignSectors, ImageIsTooLarge, EnterDirectory, CopyFile,
       WriteTable, PadImage, WriteVolumeDescriptors, WriteOptimizedTag, Close, Fail
  <2> QED
    BY <2>1 DEF SectorsAreNotShared, Items
<1> QED
  BY <1>1, <1>2, <1>3

SectorInv == TypeOK /\ LaidOut /\ Ascending /\ SectorsAreNotShared

LEMMA SectorInvInit ==
    ASSUME Init
    PROVE  SectorInv
<1>1. TypeOK /\ LaidOut /\ SectorsAreNotShared
  BY TypeInit DEF Init, LaidOut, Running, SectorsAreNotShared
<1>2. starts = << >> /\ next_sector = RootSector
  BY DEF Init
<1>3. Ascending
  BY <1>2, LayoutAssumption DEF Ascending
<1> QED
  BY <1>1, <1>3 DEF SectorInv

LEMMA SectorInvNext ==
    ASSUME SectorInv, [Next]_vars
    PROVE  SectorInv'
BY TypeNext, NumbersNext, AscendingNext, SectorsNext DEF SectorInv

LEMMA SectorInvHolds == Spec => []SectorInv
BY SectorInvInit, SectorInvNext, PTL DEF Spec

\* The variables stay within their types, for trees of any size.
THEOREM TypeCorrect == Spec => []TypeOK
<1>1. SectorInv => TypeOK
  BY DEF SectorInv
<1> QED
  BY <1>1, SectorInvHolds, PTL

\* assign_sectors never hands out a sector twice, nor a number that does not fit
\* in 32 bits, in an image that is then written.
THEOREM SectorsAreHandedOutOnce == Spec => []SectorsAreNotShared
<1>1. SectorInv => SectorsAreNotShared
  BY DEF SectorInv
<1> QED
  BY <1>1, SectorInvHolds, PTL

-------------------------------------------------------------------------------
(* What is on the image.  Of the items before the one that is visited, those    *)
(* that are not open are done: each of their sectors holds what belongs there,  *)
(* and nothing else has been written.                                           *)

Done(i) == i < visiting /\ \A a \in 1..Len(open) : open[a] # i

Place(i) == Extent(starts[i], sizes[i])

ContentOf(i) == IF items[i].is_directory THEN Table(i) ELSE [kind |-> "file", item |-> i]

\* The open directories are in each other, and have been come to.
OpenInOrder ==
    /\ \A a \in 1..Len(open) : open[a] < visiting /\ items[open[a]].is_directory
    /\ \A a, b \in 1..Len(open) : a < b => open[a] < open[b]

\* Sizes only shrink, and only those of files that have been copied.
SizesFit ==
    \A i \in Items :
       /\ sizes[i] <= items[i].size
       /\ items[i].is_directory \/ i >= visiting => sizes[i] = items[i].size

\* Whatever a table names has been come to before the table is written.
Closed == \A d \in Items : items[d].is_directory /\ Done(d) => \A i \in Children(d) : i < visiting

Filled == Running => \A i \in Items : Done(i) => \A s \in Place(i) : image[s] = ContentOf(i)

NothingElse ==
    Running => \A s \in Sector : image[s] # Nothing => \E i \in Items : Done(i) /\ s \in Place(i)

NotBegun == pc = "assign" => image = [s \in Sector |-> Nothing] /\ visiting = 1 /\ open = << >>

\* Every item is in the sectors from RootSector to SectorLimit, and in others than
\* the rest, as long as it takes no more bytes than it was laid out with.
LEMMA ExtentsAreApart ==
    ASSUME TypeOK, LaidOut, SectorsAreNotShared, Running,
           NEW i \in Items, NEW a \in Nat, a <= items[i].size
    PROVE  /\ Extent(starts[i], a) \subseteq Sector
           /\ \A j \in Items \ {i} : \A b \in Nat :
                b <= items[j].size => Extent(starts[i], a) \cap Extent(starts[j], b) = {}
<1>1. /\ IsTree(items) /\ Items = 1..Len(items) /\ Len(items) \in Nat \ {0} /\ 1 \in Items
      /\ \A j \in Items : starts[j] \in Nat /\ items[j].size \in Nat
  BY TreesAreTrees, StartsAreNumbers DEF TypeOK, Items
<1>2. /\ starts[1] = RootSector
      /\ \A j, k \in Items : j < k => starts[j] + SectorsFor(items[j].size) <= starts[k]
      /\ \A j \in Items : starts[j] + SectorsFor(items[j].size) <= SectorLimit
  BY DEF SectorsAreNotShared, Running
<1>3. ASSUME NEW j \in Items, NEW b \in Nat, b <= items[j].size
      PROVE  /\ SectorsFor(b) \in Nat /\ SectorsFor(items[j].size) \in Nat
             /\ SectorsFor(b) <= SectorsFor(items[j].size)
  BY <1>1, <1>3, SectorsAreMonotone, SectorsAreEnough
<1>4. starts[i] >= RootSector
  <2>1. CASE i = 1
    BY <1>2, <2>1, LayoutAssumption
  <2>2. CASE i # 1
    <3>1. 1 < i
      BY <1>1, <2>2
    <3>2. starts[1] + SectorsFor(items[1].size) <= starts[i]
      BY <1>1, <1>2, <3>1
    <3>3. SectorsFor(items[1].size) \in Nat
      BY <1>1, SectorsAreEnough
    <3> QED
      BY <1>1, <1>2, <3>2, <3>3, LayoutAssumption
  <2> QED
    BY <2>1, <2>2
<1>5. Extent(starts[i], a) \subseteq Sector
  <2>1. starts[i] + SectorsFor(a) <= SectorLimit
    BY <1>1, <1>2, <1>3, LayoutAssumption
  <2>2. SectorsFor(a) \in Nat /\ starts[i] \in Nat /\ SectorLimit \in Nat /\ RootSector \in Nat
    BY <1>1, <1>3, LayoutAssumption
  <2> QED
    BY <1>4, <2>1, <2>2 DEF Extent, Sector
<1>6. ASSUME NEW j \in Items \ {i}, NEW b \in Nat, b <= items[j].size
      PROVE  Extent(starts[i], a) \cap Extent(starts[j], b) = {}
  <2>1. /\ SectorsFor(a) \in Nat /\ SectorsFor(b) \in Nat /\ starts[i] \in Nat /\ starts[j] \in Nat
        /\ SectorsFor(items[i].size) \in Nat /\ SectorsFor(items[j].size) \in Nat
        /\ SectorsFor(a) <= SectorsFor(items[i].size)
        /\ SectorsFor(b) <= SectorsFor(items[j].size)
    BY <1>1, <1>3, <1>6
  <2>2. starts[i] + SectorsFor(a) <= starts[j] \/ starts[j] + SectorsFor(b) <= starts[i]
    <3>1. CASE i < j
      BY <1>2, <2>1, <3>1
    <3>2. CASE j < i
      BY <1>2, <2>1, <3>2
    <3> QED
      BY <1>1, <1>6, <3>1, <3>2
  <2> QED
    BY <2>1, <2>2 DEF Extent
<1> QED
  BY <1>5, <1>6

\* A step of write that is none of write_tree's leaves the items done as they are.
LEMMA OtherSteps ==
    ASSUME TypeOK, [Next]_vars, ~EnterDirectory, ~CopyFile, ~WriteTable
    PROVE  /\ UNCHANGED <<items, sizes, visiting, open, image>>
           /\ ~AssignSectors => UNCHANGED starts
           /\ pc' = "assign" => pc = "assign"
           /\ Running' /\ ~Running => pc = "assign" /\ WriteDescriptor
BY DEF Running, vars, Next, AssignSectors, ImageIsTooLarge, WriteDescriptor, PadImage,
   WriteVolumeDescriptors, WriteOptimizedTag, Close, Fail, TypeOK


\* EnterDirectory, CopyFile and WriteTable move on and keep their places.
LEMMA TreeSteps ==
    ASSUME TypeOK, EnterDirectory \/ CopyFile \/ WriteTable
    PROVE  /\ UNCHANGED <<items, pc, starts, next_sector>>
           /\ pc = "tree" /\ Running /\ Running'
BY DEF Running, EnterDirectory, CopyFile, WriteTable

LEMMA OpenInOrderNext ==
    ASSUME TypeOK, NotBegun, OpenInOrder, [Next]_vars
    PROVE  OpenInOrder'
<1>1. /\ open \in Seq(Items) /\ Len(open) \in Nat /\ visiting \in Nat
      /\ \A a \in 1..Len(open) : open[a] \in Nat
  BY DEF TypeOK, Items
<1>2. CASE EnterDirectory
  <2>1. /\ open' = Append(open, visiting) /\ visiting' = visiting + 1 /\ items' = items
        /\ items[visiting].is_directory
    BY <1>2 DEF EnterDirectory
  <2>2. /\ Len(open') = Len(open) + 1
        /\ \A a \in 1..Len(open) : open'[a] = open[a]
        /\ open'[Len(open) + 1] = visiting
    BY <1>1, <2>1
  <2>3. \A a \in 1..Len(open') : a \in 1..Len(open) \/ a = Len(open) + 1
    BY <1>1, <2>2
  <2> QED
    BY <1>1, <2>1, <2>2, <2>3 DEF OpenInOrder
<1>3. CASE CopyFile
  BY <1>1, <1>3 DEF CopyFile, OpenInOrder
<1>4. CASE WriteTable
  <2>1. open # << >> /\ open' = SubSeq(open, 1, Len(open) - 1) /\ UNCHANGED <<visiting, items>>
    BY <1>4 DEF WriteTable
  <2>2. /\ Len(open') = Len(open) - 1
        /\ \A a \in 1..(Len(open) - 1) : open'[a] = open[a]
    BY <2>1, OpenOnes
  <2> QED
    BY <1>1, <2>1, <2>2 DEF OpenInOrder
<1>5. CASE ~EnterDirectory /\ ~CopyFile /\ ~WriteTable
  BY <1>5, OtherSteps DEF OpenInOrder
<1> QED
  BY <1>2, <1>3, <1>4, <1>5

LEMMA SizesFitNext ==
    ASSUME TypeOK, SizesFit, [Next]_vars
    PROVE  SizesFit'
<1>1. /\ IsTree(items) /\ visiting \in Nat /\ sizes \in [Items -> Nat]
      /\ \A i \in Items : i \in Nat /\ items[i].size \in Nat
  BY TreesAreTrees DEF TypeOK, Items
<1>2. CASE EnterDirectory
  BY <1>1, <1>2 DEF EnterDirectory, SizesFit, Items
<1>3. CASE CopyFile
  <2>1. PICK size \in 0..items[visiting].size : sizes' = [sizes EXCEPT ![visiting] = size]
    BY <1>3 DEF CopyFile
  <2>2. visiting \in Items /\ ~items[visiting].is_directory /\ visiting' = visiting + 1 /\ items' = items
    BY <1>3 DEF CopyFile
  <2>3. ASSUME NEW i \in Items
        PROVE  /\ sizes'[i] <= items[i].size
               /\ items[i].is_directory \/ i >= visiting' => sizes'[i] = items[i].size
    <3>1. CASE i = visiting
      BY <1>1, <2>1, <2>2, <3>1
    <3>2. CASE i # visiting
      BY <1>1, <2>1, <2>2, <3>2 DEF SizesFit
    <3> QED
      BY <3>1, <3>2
  <2> QED
    BY <2>2, <2>3 DEF SizesFit, Items
<1>4. CASE WriteTable
  BY <1>4 DEF WriteTable, SizesFit, Items
<1>5. CASE ~EnterDirectory /\ ~CopyFile /\ ~WriteTable
  BY <1>5, OtherSteps DEF SizesFit, Items
<1> QED
  BY <1>2, <1>3, <1>4, <1>5

\* What a step makes done, and what was before.
LEMMA DoneNext ==
    ASSUME TypeOK, OpenInOrder, NEW i \in Items
    PROVE  /\ EnterDirectory => (Done(i)' <=> Done(i))
           /\ CopyFile => (Done(i)' <=> Done(i) \/ i = visiting)
           /\ WriteTable => (Done(i)' <=> Done(i) \/ i = Innermost) /\ ~Done(Innermost)
<1>1. /\ open \in Seq(Items) /\ Len(open) \in Nat /\ visiting \in Nat /\ i \in Nat
      /\ \A a \in 1..Len(open) : open[a] \in Nat
  BY DEF TypeOK, Items
<1>2. ASSUME EnterDirectory PROVE Done(i)' <=> Done(i)
  <2>1. open' = Append(open, visiting) /\ visiting' = visiting + 1
    BY <1>2 DEF EnterDirectory
  <2>2. /\ Len(open') = Len(open) + 1
        /\ \A a \in 1..Len(open) : open'[a] = open[a]
        /\ open'[Len(open) + 1] = visiting
    BY <1>1, <2>1
  <2>3. ASSUME Done(i) PROVE Done(i)'
    <3>1. \A a \in 1..Len(open') : a \in 1..Len(open) \/ a = Len(open) + 1
      BY <1>1, <2>2
    <3> QED
      BY <1>1, <2>1, <2>2, <2>3, <3>1 DEF Done
  <2>4. ASSUME Done(i)' PROVE Done(i)
    <3>1. i # visiting
      <4>1. Len(open) + 1 \in 1..Len(open')
        BY <1>1, <2>2
      <4> QED
        BY <2>2, <2>4, <4>1 DEF Done
    <3>2. i < visiting
      BY <1>1, <2>1, <2>4, <3>1 DEF Done
    <3>3. \A a \in 1..Len(open) : a \in 1..Len(open')
      BY <1>1, <2>2
    <3> QED
      BY <2>2, <2>4, <3>2, <3>3 DEF Done
  <2> QED
    BY <2>3, <2>4
<1>3. ASSUME CopyFile PROVE Done(i)' <=> Done(i) \/ i = visiting
  <2>1. open' = open /\ visiting' = visiting + 1
    BY <1>3 DEF CopyFile
  <2>2. \A a \in 1..Len(open) : open[a] # visiting
    BY <1>1 DEF OpenInOrder
  <2> QED
    BY <1>1, <2>1, <2>2 DEF Done
<1>4. ASSUME WriteTable PROVE (Done(i)' <=> Done(i) \/ i = Innermost) /\ ~Done(Innermost)
  <2>1. open # << >> /\ open' = SubSeq(open, 1, Len(open) - 1) /\ visiting' = visiting
    BY <1>4 DEF WriteTable
  <2>2. /\ Len(open') = Len(open) - 1 /\ Len(open) \in Nat \ {0}
        /\ \A a \in 1..(Len(open) - 1) : open'[a] = open[a]
    BY <2>1, OpenOnes
  <2>3. Len(open) \in 1..Len(open) /\ Innermost < visiting
    BY <2>2 DEF OpenInOrder, Innermost
  <2>4. \A a \in 1..(Len(open) - 1) : a \in 1..Len(open) /\ open[a] < Innermost
    BY <2>2, <2>3 DEF OpenInOrder, Innermost
  <2>5. ~Done(Innermost)
    BY <2>3 DEF Done, Innermost
  <2>6. ASSUME Done(i)' PROVE Done(i) \/ i = Innermost
    <3>1. \A a \in 1..Len(open) : a \in 1..(Len(open) - 1) \/ a = Len(open)
      BY <2>2
    <3>2. \A a \in 1..(Len(open) - 1) : open[a] # i
      BY <2>2, <2>6 DEF Done
    <3> QED
      BY <2>1, <2>6, <3>1, <3>2 DEF Done, Innermost
  <2>7. ASSUME Done(i) PROVE Done(i)'
    BY <2>1, <2>2, <2>4, <2>7 DEF Done
  <2>8. ASSUME i = Innermost PROVE Done(i)'
    <3>1. Innermost \in Nat
      BY <1>1, <2>3 DEF Innermost
    <3>2. \A a \in 1..(Len(open) - 1) : open'[a] # i
      BY <1>1, <2>2, <2>4, <2>8, <3>1
    <3> QED
      BY <2>1, <2>2, <2>3, <2>8, <3>2 DEF Done
  <2> QED
    BY <2>5, <2>6, <2>7, <2>8
<1> QED
  BY <1>2, <1>3, <1>4

\* When the next item is not the innermost directory's, none that follows is.
LEMMA InnermostIsComplete ==
    ASSUME TypeOK, OpenInOrder, Closed, WriteTable, NEW k \in Children(Innermost)
    PROVE  k < visiting
<1> DEFINE d == Innermost
           v == visiting
<1>1. /\ IsTree(items) /\ Items = 1..Len(items) /\ Len(items) \in Nat
      /\ v \in 1..(Len(items) + 1) /\ d \in Items /\ k \in Items /\ items[k].parent = d
      /\ open \in Seq(Items) /\ Len(open) \in Nat \ {0} /\ v \notin Children(d)
  BY TreesAreTrees, OpenOnes DEF WriteTable, TypeOK, Items, Children
<1>2. d < v /\ items[d].is_directory
  BY <1>1 DEF OpenInOrder, Innermost
<1> HIDE DEF d, v
<1>3. SUFFICES ASSUME k >= v PROVE FALSE
  BY <1>1 DEF v
<1>4. v \in Items /\ k # v /\ v < k
  BY <1>1, <1>3 DEF Children, v
<1>5. v \in 2..Len(items) /\ items[v].parent \in 1..(v - 1) /\ items[items[v].parent].is_directory
  <2>1. v \in 2..Len(items)
    BY <1>1, <1>2, <1>4
  <2> QED
    BY <1>1, <2>1, TreesAreTrees
<1>6. items[v].parent # d
  BY <1>1, <1>4 DEF Children, v
<1>7. CASE items[v].parent < d
  <2>1. items[k].parent \notin d..(v - 1)
    <3>1. \A i, j, l \in 1..Len(items) :
             i < j /\ j < l /\ items[j].parent < i => items[l].parent \notin i..(j - 1)
      BY <1>1 DEF IsTree
    <3> QED
      BY <1>1, <1>2, <1>4, <1>7, <3>1
  <2> QED
    BY <1>1, <1>2, <2>1
<1>8. CASE items[v].parent > d
  <2> DEFINE p == items[v].parent
  <2>1. p \in Items /\ p < v /\ p > d /\ items[p].is_directory /\ v \in Children(p)
    BY <1>1, <1>4, <1>5, <1>8 DEF Children
  <2>2. Done(p)
    <3>1. ASSUME NEW a \in 1..Len(open) PROVE open[a] # p
      <4>1. open[a] \in Nat /\ a \in Nat /\ d \in Nat /\ p \in Nat
        BY <1>1, <2>1, ElementOfSeq
      <4>2. CASE a = Len(open)
        BY <2>1, <4>1, <4>2 DEF d, Innermost
      <4>3. CASE a < Len(open)
        <5>1. open[a] < d
          BY <1>1, <4>3 DEF OpenInOrder, d, Innermost
        <5> QED
          BY <2>1, <4>1, <5>1
      <4> QED
        BY <1>1, <4>1, <4>2, <4>3
    <3> QED
      BY <2>1, <3>1 DEF Done, v
  <2>3. v < v
    BY <2>1, <2>2 DEF Closed, v
  <2> QED
    BY <1>1, <2>3
<1> QED
  BY <1>1, <1>5, <1>6, <1>7, <1>8

LEMMA ClosedNext ==
    ASSUME TypeOK, OpenInOrder, Closed, [Next]_vars
    PROVE  Closed'
<1>1. /\ visiting \in Nat /\ \A i \in Items : i \in Nat
      /\ \A d : Children(d) \subseteq Items
  BY DEF TypeOK, Items, Children
<1>2. CASE EnterDirectory \/ CopyFile
  <2>1. visiting' = visiting + 1 /\ items' = items
    BY <1>2 DEF EnterDirectory, CopyFile
  <2>2. CopyFile => ~items[visiting].is_directory
    BY DEF CopyFile
  <2>3. ASSUME NEW d \in Items, items[d].is_directory, Done(d)', NEW i \in Children(d)
        PROVE  i < visiting'
    <3>1. Done(d)
      BY <1>2, <2>2, <2>3, DoneNext
    <3>2. i < visiting
      BY <2>3, <3>1 DEF Closed
    <3> QED
      BY <1>1, <2>1, <3>2
  <2> QED
    BY <2>1, <2>3 DEF Closed, Items, Children
<1>3. CASE WriteTable
  <2>1. visiting' = visiting /\ items' = items
    BY <1>3 DEF WriteTable
  <2>2. ASSUME NEW d \in Items, items[d].is_directory, Done(d)', NEW i \in Children(d)
        PROVE  i < visiting
    <3>1. CASE Done(d)
      BY <2>2, <3>1 DEF Closed
    <3>2. CASE d = Innermost
      BY <1>3, <2>2, <3>2, InnermostIsComplete
    <3> QED
      BY <1>3, <2>2, <3>1, <3>2, DoneNext
  <2> QED
    BY <2>1, <2>2 DEF Closed, Items, Children
<1>4. CASE ~EnterDirectory /\ ~CopyFile /\ ~WriteTable
  BY <1>4, OtherSteps DEF Closed, Items, Children, Done
<1> QED
  BY <1>2, <1>3, <1>4

\* A file is copied after the tables that do not name it have been written, and
\* before the others are.
LEMMA ContentIsFinal ==
    ASSUME TypeOK, Closed, EnterDirectory \/ CopyFile \/ WriteTable, NEW i \in Items, Done(i)
    PROVE  /\ Place(i)' = Place(i)
           /\ ContentOf(i)' = ContentOf(i)
<1>1. UNCHANGED <<items, starts>> /\ visiting \in Nat /\ i \in Nat /\ i < visiting
  BY TreeSteps DEF TypeOK, Items, Done
<1>2. \A j \in Items : j # visiting => sizes'[j] = sizes[j]
  <2>1. CASE CopyFile
    <3>1. PICK size : sizes' = [sizes EXCEPT ![visiting] = size]
      BY <2>1 DEF CopyFile
    <3> QED
      BY <3>1 DEF TypeOK
  <2>2. CASE EnterDirectory \/ WriteTable
    BY <2>2 DEF EnterDirectory, WriteTable
  <2> QED
    BY <2>1, <2>2
<1>3. Place(i)' = Place(i)
  BY <1>1, <1>2 DEF Place, Extent
<1>4. CASE ~items[i].is_directory
  <2>1. ~items'[i].is_directory
    BY <1>1, <1>4
  <2>2. ContentOf(i)' = [kind |-> "file", item |-> i]
    BY <2>1 DEF ContentOf
  <2>3. ContentOf(i) = [kind |-> "file", item |-> i]
    BY <1>4 DEF ContentOf
  <2> QED
    BY <1>3, <2>2, <2>3
<1>5. CASE items[i].is_directory
  <2>1. Children(i)' = Children(i)
    BY <1>1 DEF Children, Items
  <2>2. \A j \in Children(i) : j \in Items /\ j < visiting
    BY <1>5 DEF Closed, Children
  <2>3. \A j \in Children(i) : j # visiting
    BY <1>1, <2>2 DEF Items
  <2>4. \A j \in Children(i) : Record(j)' = Record(j)
    BY <1>1, <1>2, <2>2, <2>3 DEF Record
  <2>5. Table(i)' = Table(i)
    BY <2>1, <2>4 DEF Table
  <2> QED
    <3>1. items'[i].is_directory
      BY <1>1, <1>5
    <3>2. ContentOf(i)' = Table(i)'
      BY <3>1 DEF ContentOf
    <3>3. ContentOf(i) = Table(i)
      BY <1>5 DEF ContentOf
    <3> QED
      BY <1>3, <2>5, <3>2, <3>3
<1> QED
  BY <1>1, <1>3, <1>4, <1>5

\* CopyFile and WriteTable each put the content of one item in its place, and
\* that is nowhere else.
LEMMA OnePlaceIsWritten ==
    ASSUME TypeOK, LaidOut, SectorsAreNotShared, OpenInOrder, SizesFit, Closed,
           CopyFile \/ WriteTable
    PROVE  \E i \in Items :
              /\ ~Done(i) /\ \A j \in Items : Done(j)' <=> Done(j) \/ j = i
              /\ Place(i)' \subseteq Sector
              /\ image' = [s \in Sector |-> IF s \in Place(i)' THEN ContentOf(i)' ELSE image[s]]
              /\ \A j \in Items \ {i} : Done(j) => Place(i)' \cap Place(j) = {}
<1>0. /\ IsTree(items) /\ UNCHANGED <<items, starts>> /\ Running
      /\ \A j \in Items : sizes[j] \in Nat /\ sizes[j] <= items[j].size /\ items[j].size \in Nat
  BY TreesAreTrees, TreeSteps DEF TypeOK, SizesFit
<1>1. CASE CopyFile
  <2>1. PICK v \in Items : v = visiting
    BY <1>1 DEF CopyFile
  <2>2. PICK size \in 0..items[v].size :
           /\ Write(starts[v], size, [kind |-> "file", item |-> v])
           /\ sizes' = [sizes EXCEPT ![v] = size]
    BY <1>1, <2>1 DEF CopyFile
  <2>3. ~items'[v].is_directory
    BY <1>0, <1>1, <2>1 DEF CopyFile
  <2>4. size \in Nat /\ size <= items[v].size /\ sizes'[v] = size
    BY <1>0, <2>1, <2>2 DEF TypeOK
  <2>5. Place(v)' = Extent(starts[v], size)
    BY <1>0, <2>4 DEF Place, Extent
  <2>6. ContentOf(v)' = [kind |-> "file", item |-> v]
    BY <2>3 DEF ContentOf
  <2>7. image' = [s \in Sector |-> IF s \in Place(v)' THEN ContentOf(v)' ELSE image[s]]
    BY <2>2, <2>5, <2>6 DEF Write
  <2>8. Place(v)' \subseteq Sector
    BY <1>0, <2>4, <2>5, ExtentsAreApart
  <2>9. ASSUME NEW j \in Items \ {v} PROVE Place(v)' \cap Place(j) = {}
    BY <1>0, <2>4, <2>5, ExtentsAreApart DEF Place
  <2>10. ~Done(v)
    BY <2>1 DEF Done, TypeOK, Items
  <2>11. \A j \in Items : Done(j)' <=> Done(j) \/ j = v
    BY <1>1, <2>1, DoneNext
  <2> QED
    BY <2>1, <2>7, <2>8, <2>9, <2>10, <2>11
<1>2. CASE WriteTable
  <2>1. PICK d \in Items : d = Innermost
    BY <1>2, OpenOnes DEF WriteTable
  <2>2. items[d].is_directory
    <3>1. open # << >>
      BY <1>2 DEF WriteTable
    <3>2. Len(open) \in 1..Len(open)
      BY <3>1, OpenOnes
    <3> QED
      BY <2>1, <3>2 DEF OpenInOrder, Innermost
  <2>3. Write(starts[d], sizes[d], Table(d)) /\ sizes' = sizes
    BY <1>2, <2>1 DEF WriteTable
  <2>4. Place(d)' = Extent(starts[d], sizes[d])
    BY <1>0, <2>3 DEF Place, Extent
  <2>5. ContentOf(d)' = Table(d)
    <3>1. items'[d].is_directory
      BY <1>0, <2>2
    <3>2. ContentOf(d)' = Table(d)'
      BY <3>1 DEF ContentOf
    <3>3. Table(d)' = Table(d)
      <4>1. Children(d)' = Children(d)
        BY <1>0 DEF Children, Items
      <4>2. \A j \in Children(d) : Record(j)' = Record(j)
        BY <1>0, <2>3 DEF Record
      <4> QED
        BY <4>1, <4>2 DEF Table
    <3> QED
      BY <3>2, <3>3
  <2>6. image' = [s \in Sector |-> IF s \in Place(d)' THEN ContentOf(d)' ELSE image[s]]
    BY <2>3, <2>4, <2>5 DEF Write
  <2>7. Place(d)' \subseteq Sector
    BY <1>0, <2>4, ExtentsAreApart
  <2>8. ASSUME NEW j \in Items \ {d} PROVE Place(d)' \cap Place(j) = {}
    BY <1>0, <2>4, ExtentsAreApart DEF Place
  <2>9. ~Done(d) /\ \A j \in Items : Done(j)' <=> Done(j) \/ j = d
    BY <1>2, <2>1, DoneNext
  <2> QED
    BY <2>1, <2>6, <2>7, <2>8, <2>9
<1> QED
  BY <1>1, <1>2

LEMMA FilledNext ==
    ASSUME TypeOK, LaidOut, SectorsAreNotShared, OpenInOrder, SizesFit, Closed, NotBegun,
           Filled, NothingElse, [Next]_vars
    PROVE  Filled' /\ NothingElse'
<1>1. CASE CopyFile \/ WriteTable
  <2>1. PICK i \in Items :
              /\ ~Done(i) /\ \A j \in Items : Done(j)' <=> Done(j) \/ j = i
              /\ Place(i)' \subseteq Sector
              /\ image' = [s \in Sector |-> IF s \in Place(i)' THEN ContentOf(i)' ELSE image[s]]
              /\ \A j \in Items \ {i} : Done(j) => Place(i)' \cap Place(j) = {}
    BY <1>1, OnePlaceIsWritten
  <2>2. Running /\ Items' = Items
    BY <1>1, TreeSteps DEF Items
  <2>3. \A j \in Items : Done(j) => Place(j)' = Place(j) /\ ContentOf(j)' = ContentOf(j)
    BY <1>1, ContentIsFinal
  <2>4. \A j \in Items : Done(j) => Place(j) \subseteq Sector
    <3> TAKE j \in Items
    <3>1. sizes[j] \in Nat /\ sizes[j] <= items[j].size
      BY DEF TypeOK, SizesFit
    <3> QED
      BY <2>2, <3>1, ExtentsAreApart DEF Place
  <2>5. ASSUME NEW j \in Items, Done(j)', NEW s \in Place(j)'
        PROVE  image'[s] = ContentOf(j)'
    <3>1. CASE j = i
      BY <2>1, <2>5, <3>1
    <3>2. CASE j # i
      <4>1. Done(j)
        BY <2>1, <2>5, <3>2
      <4>2. s \in Place(j) /\ s \in Sector /\ ContentOf(j)' = ContentOf(j)
        BY <2>3, <2>4, <2>5, <4>1
      <4>3. s \notin Place(i)'
        BY <2>1, <3>2, <4>1, <4>2
      <4>4. image[s] = ContentOf(j)
        BY <2>2, <4>1, <4>2 DEF Filled
      <4> QED
        BY <2>1, <4>2, <4>3, <4>4
    <3> QED
      BY <3>1, <3>2
  <2>6. ASSUME NEW s \in Sector, image'[s] # Nothing
        PROVE  \E j \in Items : Done(j)' /\ s \in Place(j)'
    <3>1. CASE s \in Place(i)'
      BY <2>1, <3>1
    <3>2. CASE s \notin Place(i)'
      <4>1. image[s] # Nothing
        BY <2>1, <2>6, <3>2
      <4>2. PICK j \in Items : Done(j) /\ s \in Place(j)
        BY <2>2, <4>1 DEF NothingElse
      <4> QED
        BY <2>1, <2>3, <4>2
    <3> QED
      BY <3>1, <3>2
  <2> QED
    BY <2>2, <2>5, <2>6 DEF Filled, NothingElse
<1>2. CASE EnterDirectory
  <2>1. Running /\ Items' = Items /\ image' = image
    BY <1>2, TreeSteps DEF Items, EnterDirectory
  <2>2. \A j \in Items : Done(j)' <=> Done(j)
    BY <1>2, DoneNext
  <2>3. \A j \in Items : Done(j) => Place(j)' = Place(j) /\ ContentOf(j)' = ContentOf(j)
    BY <1>2, ContentIsFinal
  <2> QED
    BY <2>1, <2>2, <2>3 DEF Filled, NothingElse
<1>3. CASE ~EnterDirectory /\ ~CopyFile /\ ~WriteTable
  <2>1. UNCHANGED <<items, sizes, visiting, open, image>>
    BY <1>3, OtherSteps
  <2>2. CASE Running /\ Running'
    <3>1. UNCHANGED starts
      BY <1>3, <2>2, OtherSteps DEF Running, AssignSectors
    <3>2. Items' = Items /\ \A j \in Items : Done(j)' <=> Done(j)
      BY <2>1 DEF Items, Done
    <3>3. \A j \in Items : Place(j)' = Place(j)
      BY <2>1, <3>1 DEF Place, Extent
    <3>4. \A j \in Items : ContentOf(j)' = ContentOf(j)
      BY <2>1, <3>1 DEF ContentOf, Table, Children, Items, Record
    <3> QED
      BY <2>1, <2>2, <3>2, <3>3, <3>4 DEF Filled, NothingElse
  <2>3. CASE ~Running /\ Running'
    <3>1. image' = [s \in Sector |-> Nothing] /\ visiting' = 1 /\ items' = items
      BY <1>3, <2>1, <2>3, OtherSteps DEF NotBegun
    <3>2. \A j \in Items' : ~Done(j)'
      BY <3>1 DEF Done, Items
    <3> QED
      BY <3>1, <3>2 DEF Filled, NothingElse
  <2>4. CASE ~Running'
    BY <2>4 DEF Filled, NothingElse
  <2> QED
    BY <2>2, <2>3, <2>4
<1> QED
  BY <1>1, <1>2, <1>3

WritingInv ==
    SectorInv /\ OpenInOrder /\ SizesFit /\ Closed /\ NotBegun /\ Filled /\ NothingElse

LEMMA NotBegunNext ==
    ASSUME NotBegun, TypeOK, [Next]_vars
    PROVE  NotBegun'
<1>1. CASE EnterDirectory \/ CopyFile \/ WriteTable
  BY <1>1, TreeSteps DEF NotBegun
<1>2. CASE ~EnterDirectory /\ ~CopyFile /\ ~WriteTable
  BY <1>2, OtherSteps DEF NotBegun
<1> QED
  BY <1>1, <1>2

LEMMA WritingInvHolds == Spec => []WritingInv
<1>1. Init => WritingInv
  <2> SUFFICES ASSUME Init PROVE WritingInv
    OBVIOUS
  <2>1. IsTree(items) /\ \A i \in Items : i \in Nat /\ items[i].size \in Nat /\ i >= 1
    BY LayoutAssumption, TreesAreTrees DEF Init, Items
  <2>2. SectorInv
    BY SectorInvInit
  <2>3. OpenInOrder /\ NotBegun /\ Filled /\ NothingElse
    BY DEF Init, OpenInOrder, NotBegun, Filled, NothingElse, Running
  <2>4. SizesFit
    BY <2>1 DEF Init, SizesFit, Items
  <2>5. Closed
    BY <2>1 DEF Init, Closed, Done
  <2> QED
    BY <2>2, <2>3, <2>4, <2>5 DEF WritingInv
<1>2. WritingInv /\ [Next]_vars => WritingInv'
  <2> SUFFICES ASSUME WritingInv, [Next]_vars PROVE WritingInv'
    OBVIOUS
  <2>1. SectorInv' /\ TypeOK /\ LaidOut /\ SectorsAreNotShared
    BY SectorInvNext DEF WritingInv, SectorInv
  <2>2. OpenInOrder' /\ SizesFit' /\ Closed' /\ NotBegun'
    BY <2>1, OpenInOrderNext, SizesFitNext, ClosedNext, NotBegunNext DEF WritingInv
  <2>3. Filled' /\ NothingElse'
    BY <2>1, FilledNext DEF WritingInv
  <2> QED
    BY <2>1, <2>2, <2>3 DEF WritingInv
<1> QED
  BY <1>1, <1>2, PTL DEF Spec

\* No sector that has been written is written again with something else, by
\* write_file or by write_tree, for trees of any size.
THEOREM WhatIsWrittenStays == Spec => NothingIsOverwritten
<1>1. ASSUME WritingInv, [Next]_vars
      PROVE  [\A s \in Sector : image[s] # Nothing => image'[s] = image[s]]_vars
  <2> SUFFICES ASSUME NEW s \in Sector, image[s] # Nothing
               PROVE  image'[s] = image[s]
    OBVIOUS
  <2>1. CASE CopyFile \/ WriteTable
    <3>1. PICK i \in Items :
              /\ ~Done(i)
              /\ image' = [t \in Sector |-> IF t \in Place(i)' THEN ContentOf(i)' ELSE image[t]]
              /\ \A j \in Items \ {i} : Done(j) => Place(i)' \cap Place(j) = {}
      BY <1>1, <2>1, OnePlaceIsWritten DEF WritingInv, SectorInv
    <3>2. PICK j \in Items : Done(j) /\ s \in Place(j)
      BY <1>1, <2>1, TreeSteps DEF WritingInv, SectorInv, NothingElse
    <3> QED
      BY <3>1, <3>2
  <2>2. CASE EnterDirectory
    BY <2>2 DEF EnterDirectory
  <2>3. CASE ~EnterDirectory /\ ~CopyFile /\ ~WriteTable
    BY <1>1, <2>3, OtherSteps DEF WritingInv, SectorInv
  <2> QED
    BY <2>1, <2>2, <2>3
<1> QED
  BY <1>1, WritingInvHolds, PTL DEF Spec, NothingIsOverwritten

-------------------------------------------------------------------------------
(* What is said of the image when all of it has been written. *)

Described == Running => descriptor = [start |-> starts[1], size |-> items[1].size]

\* The output reaches as far as what has been written.
LongEnough == Running => \A s \in Sector : image[s] # Nothing => s < length

Finished ==
    pc \in {"volume", "tag", "close", "done"} =>
        visiting = Len(items) + 1 /\ open = << >> /\ length % FileModulus = 0

Stated == pc \in {"tag", "close", "done"} /\ length < SectorLimit => space_size = length

\* The tag is written last.
TaggedLast == pc \in {"assign", "tree", "volume", "tag"} => ~tagged

LEMMA DescribedNext ==
    ASSUME TypeOK, SizesFit, LaidOut, Described, [Next]_vars
    PROVE  Described'
<1>1. CASE WriteDescriptor
  <2>1. 1 \in Items /\ sizes[1] = items[1].size
    BY TreesAreTrees DEF TypeOK, SizesFit, Items
  <2> QED
    BY <1>1, <2>1 DEF WriteDescriptor, Described
<1>2. CASE AssignSectors \/ ImageIsTooLarge \/ Fail
  BY <1>2 DEF AssignSectors, ImageIsTooLarge, Fail, Described, Running
<1>3. CASE ~WriteDescriptor /\ ~AssignSectors /\ ~ImageIsTooLarge /\ ~Fail
  <2>1. UNCHANGED <<items, starts, descriptor>> /\ (Running' => Running)
    BY <1>3 DEF vars, Next, EnterDirectory, CopyFile, WriteTable, PadImage,
       WriteVolumeDescriptors, WriteOptimizedTag, Close, Running
  <2> QED
    BY <2>1 DEF Described
<1> QED
  BY <1>1, <1>2, <1>3

LEMMA WritingLengthens ==
    ASSUME TypeOK, NEW start \in Nat, NEW bytes \in Nat, NEW content,
           Write(start, bytes, content)
    PROVE  /\ length' \in Nat /\ length \in Nat /\ length' >= length
           /\ \A s \in Extent(start, bytes) : s < length'
<1>1. /\ SectorsFor(bytes) \in Nat /\ length \in Nat
      /\ bytes <= SectorsFor(bytes) * SectorSize
      /\ SectorsFor(bytes) * SectorSize < bytes + SectorSize
  BY SectorsAreEnough DEF TypeOK
<1>2. bytes = 0 => SectorsFor(bytes) = 0
  BY SectorsAreUnique, FormatAssumption
<1>3. length' = IF bytes > 0 /\ start + SectorsFor(bytes) > length
                THEN start + SectorsFor(bytes) ELSE length
  BY DEF Write
<1>4. length' \in Nat /\ length' >= length
  BY <1>1, <1>3
<1>5. ASSUME NEW s \in Extent(start, bytes) PROVE s < length'
  <2>1. s \in Int /\ s >= start /\ s < start + SectorsFor(bytes) /\ bytes > 0
    BY <1>1, <1>2, <1>5 DEF Extent
  <2> QED
    BY <1>1, <1>3, <1>4, <2>1
<1> QED
  BY <1>1, <1>4, <1>5

LEMMA LongEnoughNext ==
    ASSUME TypeOK, LaidOut, NotBegun, LongEnough, [Next]_vars
    PROVE  LongEnough'
<1>0. length \in Nat /\ \A s \in Sector : s \in Nat
  BY LayoutAssumption DEF TypeOK, Sector
<1>1. CASE CopyFile \/ WriteTable
  <2>1. Running
    BY <1>1, TreeSteps
  <2>2. \E i \in Items : \E bytes \in Nat : \E content : Write(starts[i], bytes, content)
    <3>1. CASE CopyFile
      <4>1. PICK size \in 0..items[visiting].size :
               Write(starts[visiting], size, [kind |-> "file", item |-> visiting])
        BY <3>1 DEF CopyFile
      <4>2. visiting \in Items /\ items[visiting].size \in Nat
        BY <3>1, TreesAreTrees DEF CopyFile, TypeOK
      <4>3. size \in Nat
        BY <4>1, <4>2
      <4> QED
        BY <4>1, <4>2, <4>3
    <3>2. CASE WriteTable
      <4>1. Innermost \in Items
        BY <3>2, OpenOnes DEF WriteTable
      <4>2. sizes[Innermost] \in Nat
        BY <4>1 DEF TypeOK
      <4> QED
        BY <3>2, <4>1, <4>2 DEF WriteTable
    <3> QED
      BY <1>1, <3>1, <3>2
  <2>3. PICK i \in Items, bytes \in Nat : \E content : Write(starts[i], bytes, content)
    BY <2>2
  <2>4. PICK content : Write(starts[i], bytes, content)
    BY <2>3
  <2>5. starts[i] \in Nat
    BY <2>1, StartsAreNumbers
  <2>6. length' \in Nat /\ length' >= length /\ \A s \in Extent(starts[i], bytes) : s < length'
    BY <2>4, <2>5, WritingLengthens
  <2>7. image' = [s \in Sector |-> IF s \in Extent(starts[i], bytes) THEN content ELSE image[s]]
    BY <2>4 DEF Write
  <2> QED
    BY <1>0, <2>1, <2>6, <2>7 DEF LongEnough
<1>2. CASE EnterDirectory
  BY <1>2 DEF EnterDirectory, LongEnough, Running
<1>3. CASE WriteDescriptor
  BY <1>3 DEF WriteDescriptor, LongEnough, NotBegun
<1>4. CASE PadImage
  <2>1. PaddingFor(length, FileModulus) \in Nat
    BY <1>0, PaddingRoundsUp, LayoutAssumption
  <2>2. length' \in Nat /\ length' >= length /\ image' = image /\ Running
    BY <1>0, <1>4, <2>1 DEF PadImage, Running
  <2> QED
    BY <1>0, <2>2 DEF LongEnough
<1>5. CASE AssignSectors \/ ImageIsTooLarge \/ Fail
  BY <1>5 DEF AssignSectors, ImageIsTooLarge, Fail, LongEnough, Running
<1>6. CASE UNCHANGED vars \/ WriteVolumeDescriptors \/ WriteOptimizedTag \/ Close
  BY <1>6 DEF vars, WriteVolumeDescriptors, WriteOptimizedTag, Close, LongEnough, Running
<1> QED
  BY <1>1, <1>2, <1>3, <1>4, <1>5, <1>6 DEF Next

LEMMA FinishedNext ==
    ASSUME TypeOK, Finished, [Next]_vars
    PROVE  Finished'
<1>1. CASE PadImage
  <2>1. length \in Nat /\ FileModulus \in Nat \ {0} /\ visiting \in 1..(Len(items) + 1)
        /\ Len(items) \in Nat
    BY LayoutAssumption, TreesAreTrees DEF TypeOK
  <2>2. PICK k \in Nat : length + PaddingFor(length, FileModulus) = k * FileModulus
    BY <2>1, PaddingRoundsUp
  <2>3. length' = k * FileModulus
    BY <1>1, <2>2 DEF PadImage
  <2>4. length' % FileModulus = 0
    BY <2>1, <2>3, MultipleHasNoRemainder
  <2>5. visiting = Len(items) + 1 /\ open = << >> /\ UNCHANGED <<items, visiting, open>>
    BY <1>1, <2>1 DEF PadImage
  <2> QED
    BY <2>4, <2>5 DEF Finished
<1>2. CASE ~PadImage
  BY <1>2 DEF Finished, vars, Next, AssignSectors, ImageIsTooLarge, WriteDescriptor,
     EnterDirectory, CopyFile, WriteTable, WriteVolumeDescriptors, WriteOptimizedTag, Close, Fail
<1> QED
  BY <1>1, <1>2

LEMMA StatedNext ==
    ASSUME TypeOK, Stated, [Next]_vars
    PROVE  Stated'
<1>1. CASE WriteVolumeDescriptors
  BY <1>1, SectorNumbersAreCounted DEF WriteVolumeDescriptors, Stated, TypeOK
<1>2. CASE ~WriteVolumeDescriptors
  BY <1>2 DEF Stated, vars, Next, AssignSectors, ImageIsTooLarge, WriteDescriptor,
     EnterDirectory, CopyFile, WriteTable, PadImage, WriteOptimizedTag, Close, Fail
<1> QED
  BY <1>1, <1>2

LEMMA TaggedLastNext ==
    ASSUME TypeOK, TaggedLast, [Next]_vars
    PROVE  TaggedLast'
BY DEF TaggedLast, vars, Next, AssignSectors, ImageIsTooLarge, WriteDescriptor, EnterDirectory,
   CopyFile, WriteTable, PadImage, WriteVolumeDescriptors, WriteOptimizedTag, Close, Fail

\* All is there when the tag is written.
LEMMA AllIsThere ==
    ASSUME WritingInv, Described, LongEnough, Finished, Stated, pc = "tag"
    PROVE  /\ descriptor = [start |-> starts[1], size |-> items[1].size]
           /\ \A d \in Items : items[d].is_directory =>
              \A s \in Extent(starts[d], items[d].size) :
                  /\ image[s].kind = "table" /\ image[s].item = d
                  /\ \A i \in Children(d) :
                        /\ image[s].records[i].start = starts[i]
                        /\ SectorsFor(image[s].records[i].size) <= SectorsFor(items[i].size)
                        /\ ~items[i].is_directory =>
                              {t \in Sector : image[t] = [kind |-> "file", item |-> i]}
                                = Extent(starts[i], image[s].records[i].size)
           /\ \A s \in Sector : image[s] # Nothing => s < length
           /\ length % FileModulus = 0
           /\ length < SectorLimit => space_size = length
<1>1. /\ TypeOK /\ LaidOut /\ SectorsAreNotShared /\ SizesFit /\ Filled /\ NothingElse /\ Running
      /\ IsTree(items) /\ Items = 1..Len(items)
  BY DEF WritingInv, SectorInv, Running, TypeOK, Items
<1>2. \A i \in Items : Done(i) /\ i \in Nat /\ items[i].size \in Nat /\ sizes[i] \in Nat
                       /\ sizes[i] <= items[i].size
  <2>1. \A i \in Items : items[i].size \in Nat /\ sizes[i] \in Nat
    BY <1>1, TreesAreTrees DEF TypeOK
  <2>2. visiting = Len(items) + 1 /\ open = << >> /\ Len(items) \in Nat
    BY <1>1, TreesAreTrees DEF Finished
  <2>3. \A i \in Items : i < visiting /\ i \in Nat
    BY <1>1, <2>2
  <2> QED
    BY <1>1, <2>1, <2>2, <2>3 DEF Done, SizesFit
<1>3. ASSUME NEW d \in Items, items[d].is_directory, NEW s \in Extent(starts[d], items[d].size)
      PROVE  image[s] = Table(d)
  <2>1. s \in Place(d)
    BY <1>1, <1>3 DEF SizesFit, Place
  <2>2. ContentOf(d) = Table(d)
    BY <1>3 DEF ContentOf
  <2> QED
    BY <1>1, <1>2, <2>1, <2>2 DEF Filled
<1>4. ASSUME NEW i \in Items, ~items[i].is_directory
      PROVE  {t \in Sector : image[t] = [kind |-> "file", item |-> i]} = Place(i)
  <2>1. ContentOf(i) = [kind |-> "file", item |-> i]
    BY <1>4 DEF ContentOf
  <2>2. \A t \in Place(i) : image[t] = [kind |-> "file", item |-> i] /\ t \in Sector
    <3>1. Place(i) \subseteq Sector
      BY <1>1, <1>2, ExtentsAreApart DEF Place
    <3> QED
      BY <1>1, <1>2, <2>1, <3>1 DEF Filled
  <2>3. ASSUME NEW t \in Sector, image[t] = [kind |-> "file", item |-> i]
        PROVE  t \in Place(i)
    <3>1. image[t] # Nothing
      <4>1. image[t].kind = "file" /\ Nothing.kind = "nothing"
        BY <2>3 DEF Nothing
      <4> QED
        BY <4>1
    <3>2. PICK j \in Items : t \in Place(j)
      BY <1>1, <3>1 DEF NothingElse
    <3>3. image[t] = ContentOf(j)
      BY <1>1, <1>2, <3>2 DEF Filled
    <3>4. ContentOf(j).item = j
      <4>1. CASE items[j].is_directory
        <5>1. ContentOf(j) = Table(j)
          BY <4>1 DEF ContentOf
        <5> QED
          BY <5>1 DEF Table
      <4>2. CASE ~items[j].is_directory
        <5>1. ContentOf(j) = [kind |-> "file", item |-> j]
          BY <4>2 DEF ContentOf
        <5> QED
          BY <5>1
      <4> QED
        BY <4>1, <4>2
    <3>5. j = i
      BY <2>3, <3>3, <3>4
    <3> QED
      BY <3>2, <3>5
  <2> QED
    BY <2>2, <2>3
<1>5. ASSUME NEW i \in Items
      PROVE  /\ Record(i).start = starts[i]
             /\ SectorsFor(Record(i).size) <= SectorsFor(items[i].size)
             /\ ~items[i].is_directory => Record(i).size = sizes[i]
  <2>1. Record(i).start = starts[i] /\ (~items[i].is_directory => Record(i).size = sizes[i])
    BY DEF Record
  <2>2. CASE items[i].is_directory
    <3>1. Record(i).size = items[i].size + PaddingFor(items[i].size, SectorSize)
      BY <1>1, <2>2 DEF Record, SizesFit
    <3>2. SectorsFor(Record(i).size) = SectorsFor(items[i].size)
      BY <1>2, <3>1, PaddingTakesNoSector
    <3>3. SectorsFor(items[i].size) \in Nat
      BY <1>2, SectorsAreEnough
    <3> QED
      BY <2>1, <2>2, <3>2, <3>3
  <2>3. CASE ~items[i].is_directory
    BY <1>2, <2>1, <2>3, SectorsAreMonotone
  <2> QED
    BY <2>2, <2>3, <2>1
<1>6. ASSUME NEW d \in Items, items[d].is_directory, NEW s \in Extent(starts[d], items[d].size)
      PROVE  /\ image[s].kind = "table" /\ image[s].item = d
             /\ \A i \in Children(d) : image[s].records[i] = Record(i) /\ i \in Items
  <2>1. image[s] = Table(d)
    BY <1>3, <1>6
  <2> QED
    BY <2>1 DEF Table, Children
<1>7. \A i \in Items : ~items[i].is_directory =>
         {t \in Sector : image[t] = [kind |-> "file", item |-> i]} = Extent(starts[i], Record(i).size)
  BY <1>4, <1>5 DEF Place
<1>8. ASSUME NEW d \in Items, items[d].is_directory, NEW s \in Extent(starts[d], items[d].size),
             NEW i \in Children(d)
      PROVE  /\ image[s].records[i].start = starts[i]
             /\ SectorsFor(image[s].records[i].size) <= SectorsFor(items[i].size)
             /\ ~items[i].is_directory =>
                   {t \in Sector : image[t] = [kind |-> "file", item |-> i]}
                      = Extent(starts[i], image[s].records[i].size)
  <2>1. image[s].records[i] = Record(i) /\ i \in Items
    BY <1>6, <1>8
  <2> QED
    BY <2>1, <1>5, <1>7
<1>9. /\ descriptor = [start |-> starts[1], size |-> items[1].size]
      /\ \A s \in Sector : image[s] # Nothing => s < length
      /\ length % FileModulus = 0
      /\ length < SectorLimit => space_size = length
  BY <1>1 DEF Described, LongEnough, Finished, Stated
<1> QED
  BY <1>6, <1>8, <1>9

LEMMA TaggedNext ==
    ASSUME WritingInv, Described, LongEnough, Finished, Stated, TaggedLast,
           TaggedImagesAreWhole, [Next]_vars
    PROVE  TaggedImagesAreWhole'
<1>1. CASE WriteOptimizedTag
  <2>1. pc = "tag" /\ UNCHANGED <<items, starts, image, descriptor, length, space_size>>
    BY <1>1 DEF WriteOptimizedTag
  <2> QED
    BY <2>1, AllIsThere DEF TaggedImagesAreWhole, Items, Children, Extent
<1>2. CASE tagged /\ ~WriteOptimizedTag
  <2>1. UNCHANGED <<items, starts, image, descriptor, length, space_size>> /\ tagged' = tagged
    BY <1>2 DEF TaggedLast, vars, Next, AssignSectors, ImageIsTooLarge, WriteDescriptor,
       EnterDirectory, CopyFile, WriteTable, PadImage, WriteVolumeDescriptors, Close, Fail
  <2> QED
    BY <1>2, <2>1 DEF TaggedImagesAreWhole, Items, Children, Extent
<1>3. CASE ~tagged /\ ~WriteOptimizedTag
  <2>1. ~tagged'
    BY <1>3 DEF vars, Next, AssignSectors, ImageIsTooLarge, WriteDescriptor, EnterDirectory,
       CopyFile, WriteTable, PadImage, WriteVolumeDescriptors, Close, Fail
  <2> QED
    BY <2>1 DEF TaggedImagesAreWhole
<1> QED
  BY <1>1, <1>2, <1>3

IInv ==
    /\ WritingInv
    /\ Described /\ LongEnough /\ Finished /\ Stated /\ TaggedLast
    /\ TaggedImagesAreWhole

LEMMA InvariantIsInductive == Spec => []IInv
<1>1. Init /\ WritingInv => IInv
  BY DEF Init, IInv, Described, LongEnough, Finished, Stated, TaggedLast, Running,
     TaggedImagesAreWhole
<1>2. IInv /\ WritingInv' /\ [Next]_vars => IInv'
  <2> SUFFICES ASSUME IInv, WritingInv', [Next]_vars PROVE IInv'
    OBVIOUS
  <2>1. /\ WritingInv /\ TypeOK /\ LaidOut /\ SizesFit /\ NotBegun
        /\ Described /\ LongEnough /\ Finished /\ Stated /\ TaggedLast /\ TaggedImagesAreWhole
    BY DEF IInv, WritingInv, SectorInv
  <2>2. Described' /\ LongEnough' /\ Finished' /\ Stated' /\ TaggedLast'
    BY <2>1, DescribedNext, LongEnoughNext, FinishedNext, StatedNext, TaggedLastNext
  <2>3. TaggedImagesAreWhole'
    BY <2>1, TaggedNext
  <2> QED
    BY <2>2, <2>3 DEF IInv
<1> QED
  BY <1>1, <1>2, WritingInvHolds, PTL DEF Spec

\* An image that carries the tag is whole, wherever the writer was stopped: the
\* promise rewrite_image relies on when it skips an image.
THEOREM TaggedImagesAreComplete == Spec => []TaggedImagesAreWhole
<1>1. IInv => TaggedImagesAreWhole
  BY DEF IInv
<1> QED
  BY <1>1, InvariantIsInductive, PTL
===============================================================================
