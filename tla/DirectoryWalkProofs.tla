-------------------------- MODULE DirectoryWalkProofs -------------------------
(* Every entry that a walk reads is visited once, and every read is where a     *)
(* link points, for any table at all.  Of a table that was written, everything  *)
(* is read, in the order of the layout, and visited in the order of the names.  *)
EXTENDS DirectoryRoundTrip, XisoFormatLemmas, SequenceTheorems, WellFoundedInduction

\* Every entry read is either still to be visited or has been, and is so once.
EachOnce ==
    /\ \A i, j \in 1..Len(visited) : visited[i] = visited[j] => i = j
    /\ \A i, j \in 1..Len(stack) : stack[i] = stack[j] => i = j
    /\ Waiting \cap Visited = {}
    /\ pc = "visit" => current \in 1..Len(records) /\ current \notin Waiting \cup Visited
    /\ pc = "visited" => current \in 1..Len(records) /\ current \in Visited
    /\ pc # "failed" =>
           1..Len(records) = Waiting \cup Visited \cup (IF pc = "visit" THEN {current} ELSE {})
    /\ pc = "done" => stack = << >>

\* Entries are read where the table has one.
RecordsAreEntries == \A i \in 1..Len(records) : IsEntryAt(records[i])

IInv ==
    /\ TypeOK
    /\ EachOnce
    /\ RecordsAreEntries
    /\ ReadsFollowLinks

-------------------------------------------------------------------------------
(* Sequences without repetition. *)

Elements(s) == {s[i] : i \in 1..Len(s)}
Distinct(s) == \A i, j \in 1..Len(s) : s[i] = s[j] => i = j

LEMMA AppendedOnce ==
    ASSUME NEW S, NEW s \in Seq(S), NEW x \in S
    PROVE  /\ Append(s, x) \in Seq(S)
           /\ Elements(Append(s, x)) = Elements(s) \cup {x}
           /\ Distinct(s) /\ x \notin Elements(s) => Distinct(Append(s, x))
<1> DEFINE t == Append(s, x)
<1>1. /\ t \in Seq(S) /\ Len(t) = Len(s) + 1 /\ t[Len(s) + 1] = x
      /\ \A i \in 1..Len(s) : t[i] = s[i]
      /\ Len(s) \in Nat
  OBVIOUS
<1> HIDE DEF t
<1>2. Elements(t) = Elements(s) \cup {x}
  BY <1>1 DEF Elements
<1>3. ASSUME Distinct(s), x \notin Elements(s)
      PROVE  Distinct(t)
  BY <1>1, <1>3 DEF Distinct, Elements
<1> QED
  BY <1>1, <1>2, <1>3 DEF t

LEMMA AllButLast ==
    ASSUME NEW S, NEW s \in Seq(S), s # << >>
    PROVE  /\ SubSeq(s, 1, Len(s) - 1) \in Seq(S)
           /\ Len(SubSeq(s, 1, Len(s) - 1)) = Len(s) - 1
           /\ \A i \in 1..(Len(s) - 1) : SubSeq(s, 1, Len(s) - 1)[i] = s[i]
<1> DEFINE t == SubSeq(s, 1, Len(s) - 1)
<1>0. Len(s) \in Nat /\ Len(s) >= 1 /\ \A i \in 1..Len(s) : s[i] \in S
  OBVIOUS
<1>1. 1 \in Int /\ Len(s) - 1 \in Int /\ \A i \in 1..(Len(s) - 1) : s[i] \in S
  BY <1>0
<1>2. /\ t \in Seq(S)
      /\ Len(t) = IF 1 <= Len(s) - 1 THEN (Len(s) - 1) - 1 + 1 ELSE 0
      /\ \A i \in 1..((Len(s) - 1) - 1 + 1) : t[i] = s[1 + i - 1]
  BY <1>1, SubSeqProperties
<1> HIDE DEF t
<1>3. Len(t) = Len(s) - 1
  <2> DEFINE n == Len(s) - 1
  <2>1. n \in Nat
    BY <1>0
  <2>2. Len(t) = IF 1 <= n THEN n - 1 + 1 ELSE 0
    BY <1>2
  <2> HIDE DEF n
  <2>3. Len(t) = n
    BY <2>1, <2>2
  <2> QED
    BY <2>3 DEF n
<1>4. ASSUME NEW i \in 1..(Len(s) - 1)
      PROVE  t[i] = s[i]
  <2>1. i \in 1..((Len(s) - 1) - 1 + 1) /\ 1 + i - 1 = i
    BY <1>0
  <2> QED
    BY <1>2, <2>1
<1> QED
  BY <1>2, <1>3, <1>4

LEMMA LastTaken ==
    ASSUME NEW S, NEW s \in Seq(S), s # << >>, Distinct(s)
    PROVE  /\ s[Len(s)] \in S
           /\ SubSeq(s, 1, Len(s) - 1) \in Seq(S)
           /\ Elements(SubSeq(s, 1, Len(s) - 1)) = Elements(s) \ {s[Len(s)]}
           /\ s[Len(s)] \in Elements(s)
           /\ Distinct(SubSeq(s, 1, Len(s) - 1))
<1> DEFINE t == SubSeq(s, 1, Len(s) - 1)
<1>1. Len(s) \in Nat /\ Len(s) >= 1 /\ \A i \in 1..Len(s) : s[i] \in S
  OBVIOUS
<1>2. /\ t \in Seq(S) /\ Len(t) = Len(s) - 1
      /\ \A i \in 1..(Len(s) - 1) : t[i] = s[i]
  BY AllButLast
<1> HIDE DEF t
<1>3. Elements(t) = Elements(s) \ {s[Len(s)]} /\ s[Len(s)] \in Elements(s)
  BY <1>1, <1>2 DEF Elements, Distinct
<1>4. Distinct(t)
  BY <1>1, <1>2 DEF Distinct
<1> QED
  BY <1>1, <1>2, <1>3, <1>4 DEF t

LEMMA MoreRecords ==
    ASSUME NEW n \in Nat, NEW s \in Seq(1..n)
    PROVE  s \in Seq(1..(n + 1))
<1>1. Len(s) \in Nat /\ s = [i \in 1..Len(s) |-> s[i]] /\ \A i \in 1..Len(s) : s[i] \in 1..n
  OBVIOUS
<1>2. \A i \in 1..Len(s) : s[i] \in 1..(n + 1)
  BY <1>1
<1> QED
  BY <1>1, <1>2

-------------------------------------------------------------------------------
(* Links and where they lead. *)

LEMMA EntryFields ==
    ASSUME TypeOK, NEW offset, IsEntryAt(offset)
    PROVE  /\ EntryAt(offset).left \in 0..(MaxLink - 1)
           /\ EntryAt(offset).right \in 0..MaxLink
           /\ EntryAt(offset).name \in 1..MaxNameLength
BY DEF TypeOK, IsEntryAt, EntryAt, Slot

LEMMA LinkReaches ==
    ASSUME NEW link \in 0..MaxLink
    PROVE  link * DwordSize \in Nat /\ link * DwordSize <= MaxTableSpan
<1>1. /\ MaxLink \in Nat /\ DwordSize \in Nat /\ SectorSize \in Nat /\ link \in Nat
      /\ link <= MaxLink
  BY FormatAssumption
<1>2. link * DwordSize \in Nat /\ link * DwordSize <= MaxLink * DwordSize
  BY <1>1
<1>3. MaxLink * DwordSize \in Nat
  BY <1>1
<1> QED
  BY <1>1, <1>2, <1>3 DEF MaxTableSpan, MaxTableSize

\* The start of the sector behind lies between the reader and the link.
LEMMA RightLinkReaches ==
    ASSUME TypeOK, NEW right \in 0..MaxLink
    PROVE  RightLink(right) \in Nat /\ RightLink(right) <= MaxTableSpan
<1> DEFINE sector == position_after_entry \div SectorSize
           target == right * DwordSize
<1>1. SectorSize \in Nat \ {0} /\ position_after_entry \in Nat
  BY FormatAssumption DEF TypeOK
<1>2. sector \in Nat
  BY <1>1
<1>3. target \in Nat /\ target <= MaxTableSpan
  BY LinkReaches
<1> HIDE DEF sector, target
<1>4. CASE target \div SectorSize > sector
  <2> DEFINE last == target \div SectorSize
  <2>1. last \in Nat /\ last * SectorSize <= target
    BY <1>1, <1>3
  <2> HIDE DEF last
  <2>2. sector + 1 <= last
    BY <1>2, <1>4, <2>1 DEF last
  <2>3. (sector + 1) * SectorSize \in Nat /\ (sector + 1) * SectorSize <= last * SectorSize
    BY <1>1, <1>2, <2>1, <2>2
  <2>4. (sector + 1) * SectorSize \in Nat /\ (sector + 1) * SectorSize <= target
    BY <1>1, <1>3, <2>1, <2>3
  <2>5. (sector + 1) * SectorSize <= MaxTableSpan
    <3>1. MaxTableSpan \in Int
      BY FormatAssumption DEF MaxTableSpan, MaxTableSize
    <3> QED
      BY <1>3, <2>4, <3>1
  <2> QED
    BY <1>3, <2>4, <2>5 DEF RightLink, sector, target
<1>5. CASE ~(target \div SectorSize > sector)
  BY <1>3, <1>5 DEF RightLink, sector, target
<1> QED
  BY <1>4, <1>5

LEMMA NextSectorIsAPosition ==
    ASSUME TypeOK
    PROVE  NextSector \in Nat
BY FormatAssumption DEF TypeOK, NextSector

-------------------------------------------------------------------------------
LEMMA InvInit ==
    ASSUME Init
    PROVE  IInv
<1>1. TypeOK
  BY WalkAssumption DEF Init, Start, TypeOK
<1>2. EachOnce
  BY DEF Init, Start, EachOnce, Waiting, Visited
<1>3. RecordsAreEntries /\ ReadsFollowLinks
  BY FormatAssumption DEF Init, Start, RecordsAreEntries, ReadsFollowLinks, MaxTableSpan,
     MaxTableSize
<1> QED
  BY <1>1, <1>2, <1>3 DEF IInv

\* The end of a walk changes nothing else.
LEMMA FinishKeepsInv ==
    ASSUME IInv, NEW result \in {"done", "failed"}, Finish(result),
           result = "done" => stack = << >> /\ pc # "failed" /\ pc # "visit"
    PROVE  IInv'
<1>1. TypeOK'
  BY DEF IInv, TypeOK, Finish
<1>2. EachOnce'
  BY DEF IInv, EachOnce, Finish, Waiting, Visited
<1>3. (RecordsAreEntries /\ ReadsFollowLinks)'
  BY DEF IInv, RecordsAreEntries, ReadsFollowLinks, Finish, IsEntryAt
<1> QED
  BY <1>1, <1>2, <1>3 DEF IInv

LEMMA ElementsOf == Waiting = Elements(stack) /\ Visited = Elements(visited)
BY DEF Waiting, Visited, Elements

\* The same for the next state.
LEMMA ElementsOfPrime == Waiting' = Elements(stack') /\ Visited' = Elements(visited')
BY DEF Waiting, Visited, Elements

LEMMA ReadKeepsRecords ==
    ASSUME IInv, ReadRecord, table' = table
    PROVE  /\ Len(records) \in Nat /\ Len(records') = Len(records) + 1
           /\ records' \in Seq(Nat)
           /\ records'[Len(records) + 1] = position
           /\ stack \in Seq(1..Len(records')) /\ visited \in Seq(1..Len(records'))
           /\ RecordsAreEntries'
           /\ position \in Nat
<1>1. pc = "read" /\ IsEntryAt(position) /\ records' = Append(records, position)
  BY DEF ReadRecord
<1>2. TypeOK /\ position \in Nat
  BY <1>1 DEF IInv, ReadsFollowLinks, TypeOK
<1>3. /\ Len(records) \in Nat /\ Len(records') = Len(records) + 1
      /\ records' \in Seq(Nat)
      /\ records'[Len(records) + 1] = position
      /\ \A i \in 1..Len(records) : records'[i] = records[i]
  BY <1>1, <1>2 DEF TypeOK
<1>4. stack \in Seq(1..Len(records')) /\ visited \in Seq(1..Len(records'))
  BY <1>2, <1>3, MoreRecords DEF TypeOK
<1>5. RecordsAreEntries'
  <2>1. \A i \in 1..(Len(records) + 1) : IsEntryAt(records'[i])
    BY <1>1, <1>3 DEF IInv, RecordsAreEntries
  <2> QED
    BY <1>3, <2>1 DEF RecordsAreEntries, IsEntryAt
<1> QED
  BY <1>2, <1>3, <1>4, <1>5

LEMMA InvNext ==
    ASSUME IInv, [Next]_vars
    PROVE  IInv'
<1>0. TypeOK /\ Len(records) \in Nat /\ Len(visited) \in Nat /\ Len(stack) \in Nat
  BY DEF IInv, TypeOK
<1>1. CASE EmptyDirectory
  BY <1>1, FinishKeepsInv DEF EmptyDirectory
<1>2. CASE PaddingTooLong \/ ReadFails \/ TooManyRecords \/ CallbackThrows
  BY <1>2, FinishKeepsInv DEF PaddingTooLong, ReadFails, TooManyRecords, CallbackThrows
<1>3. CASE Return
  BY <1>3, FinishKeepsInv DEF Return
<1>4. CASE SkipPadding
  <2>1. NextSector \in Nat /\ NextSector <= MaxTableSpan
    BY <1>0, <1>4, NextSectorIsAPosition DEF SkipPadding
  <2>2. TypeOK'
    BY <1>0, <1>4, <2>1 DEF SkipPadding, Follow, TypeOK
  <2>3. EachOnce'
    <3>1. Waiting' = Waiting /\ Visited' = Visited
      BY <1>4 DEF SkipPadding, Waiting, Visited
    <3> QED
      BY <1>4, <3>1 DEF IInv, SkipPadding, EachOnce
  <2>4. RecordsAreEntries'
    <3>1. table' = table /\ records' = records
      BY <1>4 DEF SkipPadding
    <3> QED
      BY <3>1 DEF IInv, RecordsAreEntries, IsEntryAt
  <2>5. ReadsFollowLinks'
    BY <1>4, <2>1 DEF SkipPadding, Follow, ReadsFollowLinks
  <2> QED
    BY <2>2, <2>3, <2>4, <2>5 DEF IInv
<1>5. CASE DescendLeft
  <2>1. /\ ReadRecord /\ table' = table /\ pc = "read" /\ pc' = "read" /\ IsEntryAt(position)
        /\ stack' = Append(stack, Len(records) + 1)
        /\ position' = EntryAt(position).left * DwordSize /\ link_bytes' = position'
        /\ linked_list_compat' = FALSE
        /\ UNCHANGED <<current, visited, position_after_entry>>
    BY <1>5 DEF DescendLeft, ReadRecord, Follow
  <2>2. /\ Len(records') = Len(records) + 1 /\ records' \in Seq(Nat)
        /\ stack \in Seq(1..Len(records')) /\ visited \in Seq(1..Len(records'))
        /\ RecordsAreEntries'
    BY <2>1, ReadKeepsRecords
  <2>3. EntryAt(position).left \in 0..MaxLink
    BY <1>0, <2>1, EntryFields, FormatAssumption
  <2>4. position' \in Nat /\ position' <= MaxTableSpan
    BY <2>1, <2>3, LinkReaches
  <2>5. Len(records) + 1 \in 1..Len(records')
    BY <1>0, <2>2
  <2>6. /\ stack' \in Seq(1..Len(records'))
        /\ Elements(stack') = Elements(stack) \cup {Len(records) + 1}
        /\ Distinct(stack) /\ Len(records) + 1 \notin Elements(stack) => Distinct(stack')
    BY <2>1, <2>2, <2>5, AppendedOnce
  <2>7. TypeOK'
    <3>1. current' \in 0..Len(records')
      BY <1>0, <2>1, <2>2 DEF TypeOK
    <3>2. /\ table' = table /\ pc' = "read" /\ link_bytes' = position'
          /\ linked_list_compat' = FALSE
          /\ UNCHANGED <<visited, position_after_entry>>
      BY <2>1
    <3> QED
      BY <1>0, <2>2, <2>4, <2>6, <3>1, <3>2 DEF TypeOK
  <2>8. EachOnce'
    <3>1. /\ Distinct(visited) /\ Distinct(stack)
          /\ Elements(stack) \cap Elements(visited) = {}
          /\ 1..Len(records) = Elements(stack) \cup Elements(visited)
      BY <2>1, ElementsOf DEF IInv, EachOnce, Distinct
    <3>2. Len(records) + 1 \notin 1..Len(records)
      BY <1>0
    <3>3. 1..Len(records') = 1..Len(records) \cup {Len(records) + 1}
      BY <1>0, <2>2
    <3>4. /\ Distinct(visited') /\ Distinct(stack')
          /\ Elements(stack') \cap Elements(visited') = {}
          /\ 1..Len(records') = Elements(stack') \cup Elements(visited')
      BY <2>1, <2>6, <3>1, <3>2, <3>3
    <3> QED
      BY <2>1, <3>4, ElementsOfPrime DEF EachOnce, Distinct
  <2> QED
    BY <2>1, <2>2, <2>4, <2>7, <2>8 DEF IInv, ReadsFollowLinks
<1>6. CASE ReadLeaf
  <2>1. /\ ReadRecord /\ table' = table /\ pc = "read" /\ pc' = "visit" /\ IsEntryAt(position)
        /\ position' = position + EntryHeaderSize + EntryAt(position).name
        /\ position_after_entry' \in {position', 0}
        /\ current' = Len(records) + 1
        /\ UNCHANGED <<link_bytes, stack, visited, linked_list_compat>>
    BY <1>6 DEF ReadLeaf, ReadRecord
  <2>2. /\ Len(records') = Len(records) + 1 /\ records' \in Seq(Nat)
        /\ stack \in Seq(1..Len(records')) /\ visited \in Seq(1..Len(records'))
        /\ RecordsAreEntries' /\ position \in Nat
    BY <2>1, ReadKeepsRecords
  <2>3. position' \in Nat /\ position_after_entry' \in Nat
    <3>1. EntryAt(position).name \in Nat /\ EntryHeaderSize \in Nat
      BY <1>0, <2>1, EntryFields, FormatAssumption
    <3> QED
      BY <2>1, <2>2, <3>1
  <2>4. TypeOK'
    BY <1>0, <2>1, <2>2, <2>3 DEF TypeOK
  <2>5. EachOnce'
    <3>1. /\ Distinct(visited) /\ Distinct(stack)
          /\ Elements(stack) \cap Elements(visited) = {}
          /\ 1..Len(records) = Elements(stack) \cup Elements(visited)
      BY <2>1, ElementsOf DEF IInv, EachOnce, Distinct
    <3>2. Len(records) + 1 \notin 1..Len(records) /\ Len(records) + 1 \in 1..Len(records')
      BY <1>0, <2>2
    <3>3. 1..Len(records') = 1..Len(records) \cup {Len(records) + 1}
      BY <1>0, <2>2
    <3> QED
      BY <2>1, <3>1, <3>2, <3>3, ElementsOfPrime DEF EachOnce, Distinct
  <2> QED
    BY <2>1, <2>2, <2>4, <2>5 DEF IInv, ReadsFollowLinks
<1>7. CASE Visit
  <2>1. /\ pc = "visit" /\ pc' = "visited" /\ visited' = Append(visited, current)
        /\ position' \in {position, Elsewhere}
        /\ UNCHANGED <<table, link_bytes, records, stack, current, linked_list_compat,
                       position_after_entry>>
    BY <1>7 DEF Visit
  <2>2. /\ current \in 1..Len(records) /\ current \notin Elements(stack) \cup Elements(visited)
        /\ Distinct(visited) /\ Distinct(stack)
        /\ Elements(stack) \cap Elements(visited) = {}
        /\ 1..Len(records) = Elements(stack) \cup Elements(visited) \cup {current}
    BY <2>1, ElementsOf DEF IInv, EachOnce, Distinct
  <2>3. /\ visited' \in Seq(1..Len(records))
        /\ Elements(visited') = Elements(visited) \cup {current}
        /\ Distinct(visited')
    BY <1>0, <2>1, <2>2, AppendedOnce DEF TypeOK
  <2>4. TypeOK'
    BY <1>0, <2>1, <2>3 DEF TypeOK
  <2>5. EachOnce'
    BY <2>1, <2>2, <2>3, ElementsOfPrime DEF EachOnce, Distinct
  <2>6. (RecordsAreEntries /\ ReadsFollowLinks)'
    BY <2>1 DEF IInv, RecordsAreEntries, ReadsFollowLinks, IsEntryAt
  <2> QED
    BY <2>4, <2>5, <2>6 DEF IInv
<1>8. CASE DescendRight
  <2>1. /\ pc = "visited" /\ pc' = "read"
        /\ position' = RightLink(Right) /\ link_bytes' = RightLink(Right)
        /\ UNCHANGED <<table, records, stack, current, visited, linked_list_compat,
                       position_after_entry>>
    BY <1>8 DEF DescendRight, Follow
  <2>2. Right \in 0..MaxLink
    BY <1>0, <2>1, EntryFields DEF IInv, EachOnce, RecordsAreEntries, Right
  <2>3. RightLink(Right) \in Nat /\ RightLink(Right) <= MaxTableSpan
    BY <1>0, <2>2, RightLinkReaches
  <2>4. TypeOK'
    BY <1>0, <2>1, <2>3 DEF TypeOK
  <2>5. EachOnce'
    <3>1. Waiting' = Waiting /\ Visited' = Visited
      BY <2>1 DEF Waiting, Visited
    <3> QED
      BY <2>1, <3>1 DEF IInv, EachOnce
  <2>6. RecordsAreEntries'
    BY <2>1 DEF IInv, RecordsAreEntries, IsEntryAt
  <2>7. ReadsFollowLinks'
    BY <2>1, <2>3 DEF ReadsFollowLinks
  <2> QED
    BY <2>4, <2>5, <2>6, <2>7 DEF IInv
<1>9. CASE Ascend
  <2>1. /\ pc = "visited" /\ pc' = "visit" /\ stack # << >>
        /\ current' = stack[Len(stack)] /\ stack' = SubSeq(stack, 1, Len(stack) - 1)
        /\ UNCHANGED <<table, position, link_bytes, records, visited, linked_list_compat,
                       position_after_entry>>
    BY <1>9 DEF Ascend
  <2>2. /\ Distinct(visited) /\ Distinct(stack)
        /\ Elements(stack) \cap Elements(visited) = {}
        /\ 1..Len(records) = Elements(stack) \cup Elements(visited)
    BY <2>1, ElementsOf DEF IInv, EachOnce, Distinct
  <2>3. /\ current' \in 1..Len(records) /\ current' \in Elements(stack)
        /\ stack' \in Seq(1..Len(records))
        /\ Elements(stack') = Elements(stack) \ {current'}
        /\ Distinct(stack')
    BY <1>0, <2>1, <2>2, LastTaken DEF TypeOK
  <2>4. TypeOK'
    BY <1>0, <2>1, <2>3 DEF TypeOK
  <2>5. EachOnce'
    BY <2>1, <2>2, <2>3, ElementsOfPrime DEF EachOnce, Distinct
  <2>6. (RecordsAreEntries /\ ReadsFollowLinks)'
    BY <2>1 DEF IInv, RecordsAreEntries, ReadsFollowLinks, IsEntryAt
  <2> QED
    BY <2>4, <2>5, <2>6 DEF IInv
<1>10. CASE UNCHANGED vars
  <2>1. TypeOK'
    BY <1>0, <1>10 DEF vars, TypeOK
  <2>2. EachOnce'
    <3>1. Waiting' = Waiting /\ Visited' = Visited
      BY <1>10 DEF vars, Waiting, Visited
    <3> QED
      BY <1>10, <3>1 DEF vars, IInv, EachOnce
  <2>3. (RecordsAreEntries /\ ReadsFollowLinks)'
    BY <1>10 DEF vars, IInv, RecordsAreEntries, ReadsFollowLinks, IsEntryAt
  <2> QED
    BY <2>1, <2>2, <2>3 DEF IInv
<1> QED
  BY <1>1, <1>2, <1>3, <1>4, <1>5, <1>6, <1>7, <1>8, <1>9, <1>10 DEF Next, Step

LEMMA InvariantIsInductive == Spec => []IInv
<1>1. Init => IInv
  BY InvInit
<1>2. IInv /\ [Next]_vars => IInv'
  BY InvNext
<1> QED
  BY <1>1, <1>2, PTL DEF Spec

\* The variables stay within their types, whatever table is read.
THEOREM TypeCorrect == Spec => []TypeOK
<1>1. IInv => TypeOK
  BY DEF IInv
<1> QED
  BY <1>1, InvariantIsInductive, PTL

\* walk_directory visits every entry it has read once before it returns, for
\* tables of any size whose links run in any way.
THEOREM EveryRecordIsVisitedOnce == Spec => []EachRecordIsVisitedOnce
<1>1. stack = << >> => Waiting = {}
  BY DEF Waiting
<1>2. IInv => EachRecordIsVisitedOnce
  BY <1>1 DEF IInv, EachOnce, EachRecordIsVisitedOnce
<1> QED
  BY <1>2, InvariantIsInductive, PTL

\* walk_directory reads where a link points and nowhere else, although on_visit
\* moves the file position that both share.
THEOREM ReadsAreSought == Spec => []ReadsFollowLinks
<1>1. IInv => ReadsFollowLinks
  BY DEF IInv
<1> QED
  BY <1>1, InvariantIsInductive, PTL

-------------------------------------------------------------------------------
(* Where layout_directory puts the entries. *)

LEMMA LeastNumber ==
    ASSUME NEW S \in SUBSET Nat, S # {}
    PROVE  \E n \in S : \A m \in S : n <= m
<1>1. IsWellFoundedOn(OpToRel(<, Nat), Nat)
  BY NatLessThanWellFounded
<1>2. PICK n \in S : \A m \in S : ~(<<m, n>> \in OpToRel(<, Nat))
  BY <1>1, WFMin
<1>3. \A m \in S : ~(m < n)
  BY <1>2 DEF OpToRel
<1>4. n \in Nat /\ \A m \in S : m \in Nat
  OBVIOUS
<1> QED
  BY <1>3, <1>4

LEMMA Counting ==
    ASSUME NEW S, 0 \in S, \A n \in Nat : n \in S => n + 1 \in S
    PROVE  Nat \subseteq S
<1> SUFFICES ASSUME Nat \ S # {}
             PROVE  FALSE
  OBVIOUS
<1>1. PICK n \in Nat \ S : \A m \in Nat \ S : n <= m
  BY LeastNumber
<1>2. n # 0 /\ n - 1 \in Nat /\ ~(n <= n - 1)
  BY <1>1
<1> QED
  BY <1>1, <1>2

\* The size of the table up to an entry, from that up to the one before.
SizeFrom(size, names, i) ==
    IF i = 0 THEN 0
    ELSE EntryOffset(size[i - 1], EntryLength(names[i])) + EntryLength(names[i])

Sizes(names) ==
    CHOOSE size : size = [i \in 0..Len(names) |-> SizeFrom(size, names, i)]

LEMMA SizesExist ==
    ASSUME NEW names, Len(names) \in Nat
    PROVE  \A i \in 0..Len(names) : Sizes(names)[i] = SizeFrom(Sizes(names), names, i)
<1> DEFINE P(k) == \E f : f = [i \in 0..k |-> SizeFrom(f, names, i)]
           S == {k \in Nat : P(k)}
<1>1. \A f, g : SizeFrom(f, names, 0) = SizeFrom(g, names, 0)
  BY DEF SizeFrom
<1>2. \A f, g : \A i : f[i - 1] = g[i - 1] => SizeFrom(f, names, i) = SizeFrom(g, names, i)
  BY DEF SizeFrom
<1>3. P(0)
  <2> DEFINE f == [i \in 0..0 |-> SizeFrom(i, names, 0)]
  <2>1. f = [i \in 0..0 |-> SizeFrom(f, names, i)]
    <3>1. \A i \in 0..0 : SizeFrom(i, names, 0) = SizeFrom(f, names, i)
      BY <1>1
    <3> QED
      BY <3>1
  <2> QED
    BY <2>1
<1>4. ASSUME NEW k \in Nat, P(k)
      PROVE  P(k + 1)
  <2>1. PICK f : f = [i \in 0..k |-> SizeFrom(f, names, i)]
    BY <1>4
  <2> DEFINE g == [i \in 0..(k + 1) |-> IF i = k + 1 THEN SizeFrom(f, names, k + 1) ELSE f[i]]
  <2>2. \A i \in 0..k : g[i] = f[i]
    OBVIOUS
  <2>3. \A i \in 0..(k + 1) : g[i] = SizeFrom(g, names, i)
    <3> SUFFICES ASSUME NEW i \in 0..(k + 1)
                 PROVE  g[i] = SizeFrom(g, names, i)
      OBVIOUS
    <3> HIDE DEF g
    <3>1. i # 0 => f[i - 1] = g[i - 1]
      BY <2>2
    <3>2. SizeFrom(f, names, i) = SizeFrom(g, names, i)
      BY <3>1, <1>1, <1>2
    <3>3. g[i] = SizeFrom(f, names, i)
      BY <2>1 DEF g
    <3> QED
      BY <3>2, <3>3
  <2>4. g = [i \in 0..(k + 1) |-> SizeFrom(g, names, i)]
    BY <2>3
  <2> HIDE DEF g
  <2> QED
    BY <2>4
<1>5. Nat \subseteq S
  <2>1. 0 \in S
    BY <1>3
  <2>2. \A k \in Nat : k \in S => k + 1 \in S
    BY <1>4
  <2> HIDE DEF S, P
  <2> QED
    BY <2>1, <2>2, Counting
<1>6. P(Len(names))
  <2>1. Len(names) \in S
    BY <1>5
  <2> HIDE DEF P
  <2> QED
    BY <2>1 DEF S
<1>7. Sizes(names) = [i \in 0..Len(names) |-> SizeFrom(Sizes(names), names, i)]
  BY <1>6 DEF Sizes
<1> QED
  BY <1>7

LEMMA OffsetsOfSizes ==
    ASSUME NEW names
    PROVE  Offsets(names) = [i \in 1..Len(names) |->
                                EntryOffset(Sizes(names)[i - 1], EntryLength(names[i]))]
BY DEF Offsets, Sizes, SizeFrom

\* Where an entry starts and where the next one may.
At(names, i) == Offsets(names)[i]
End(names, i) == At(names, i) + EntryLength(names[i])

Names == Seq(1..MaxNameLength)

LEMMA NameLengthsFit ==
    ASSUME NEW names \in Names, NEW i \in 1..Len(names)
    PROVE  /\ names[i] \in 1..MaxNameLength
           /\ EntryLength(names[i]) \in Nat \ {0}
           /\ EntryLength(names[i]) % DwordSize = 0
           /\ EntryHeaderSize + names[i] <= EntryLength(names[i])
           /\ EntryLength(names[i]) > DwordSize
           /\ EntryLength(names[i]) <= SectorSize
<1>1. names[i] \in 1..MaxNameLength
  BY ElementOfSeq, Zenon DEF Names
<1>2. /\ MaxNameLength \in Nat /\ EntryHeaderSize \in Nat /\ DwordSize \in Nat
      /\ EntryHeaderSize > DwordSize
  BY FormatAssumption
<1>3. /\ EntryLength(names[i]) \in Nat
      /\ EntryLength(names[i]) % DwordSize = 0
      /\ EntryHeaderSize + names[i] <= EntryLength(names[i])
      /\ EntryLength(names[i]) <= SectorSize
  <2>1. names[i] \in Nat /\ names[i] <= MaxNameLength
    BY <1>1, <1>2
  <2> QED
    BY <2>1, EntryLengthFits
<1> QED
  BY <1>1, <1>2, <1>3

\* An entry starts where the one before ends, or at the sector behind.
LEMMA OffsetFollows ==
    ASSUME NEW names \in Names, NEW i \in 1..Len(names)
    PROVE  /\ At(names, i) = IF i = 1 THEN EntryOffset(0, EntryLength(names[1]))
                             ELSE EntryOffset(End(names, i - 1), EntryLength(names[i]))
           /\ Offsets(names) \in Seq({At(names, k) : k \in 1..Len(names)})
           /\ Len(Offsets(names)) = Len(names)
<1>1. Len(names) \in Nat
  BY DEF Names
<1>2. \A k \in 0..Len(names) : Sizes(names)[k] = SizeFrom(Sizes(names), names, k)
  BY <1>1, SizesExist
<1>3. \A k \in 1..Len(names) :
         At(names, k) = EntryOffset(Sizes(names)[k - 1], EntryLength(names[k]))
  BY OffsetsOfSizes DEF At
<1>4. /\ Offsets(names) \in Seq({At(names, k) : k \in 1..Len(names)})
      /\ Len(Offsets(names)) = Len(names)
  <2>1. Offsets(names) = [k \in 1..Len(names) |-> At(names, k)]
    BY <1>3, OffsetsOfSizes
  <2> HIDE DEF At
  <2> QED
    BY <1>1, <2>1
<1>5. CASE i = 1
  <2>1. Sizes(names)[0] = 0
    BY <1>1, <1>2 DEF SizeFrom
  <2> QED
    BY <1>3, <1>4, <1>5, <2>1
<1>6. CASE i # 1
  <2>1. i - 1 \in 0..Len(names) /\ i - 1 \in 1..Len(names) /\ i - 1 # 0
    BY <1>1, <1>6
  <2>2. Sizes(names)[i - 1] = End(names, i - 1)
    BY <1>2, <1>3, <2>1 DEF SizeFrom, End
  <2> QED
    BY <1>3, <1>4, <1>6, <2>2
<1> QED
  BY <1>5, <1>6

\* What holds of where an entry is put.
Placed(names, i) ==
    /\ At(names, i) \in Nat
    /\ End(names, i) \in Nat
    /\ At(names, i) % DwordSize = 0
    /\ At(names, i) + DwordSize < End(names, i)
    /\ End(names, i) % DwordSize = 0
    /\ \E k \in Nat : k * SectorSize <= At(names, i) /\ End(names, i) <= (k + 1) * SectorSize

LEMMA PlacedBehind ==
    ASSUME NEW names \in Names, NEW i \in 1..Len(names),
           NEW size \in Nat, size % DwordSize = 0,
           At(names, i) = EntryOffset(size, EntryLength(names[i]))
    PROVE  Placed(names, i) /\ size <= At(names, i)
<1> DEFINE length == EntryLength(names[i])
<1>1. /\ length \in Nat \ {0} /\ length <= SectorSize /\ length % DwordSize = 0
      /\ length > DwordSize
  BY NameLengthsFit
<1>2. DwordSize \in Nat \ {0}
  BY FormatAssumption
<1> HIDE DEF length
<1>3. /\ EntryOffset(size, length) \in Nat
      /\ EntryOffset(size, length) >= size
      /\ \E k \in Nat : /\ k * SectorSize <= EntryOffset(size, length)
                        /\ EntryOffset(size, length) + length <= (k + 1) * SectorSize
  BY <1>1, EntryStaysInSector
<1>4. EntryOffset(size, length) % DwordSize = 0
  BY <1>1, EntryStaysOnDword
<1>5. At(names, i) = EntryOffset(size, length) /\ End(names, i) = At(names, i) + length
  BY DEF length, End
<1>6. (At(names, i) + length) % DwordSize = 0
  BY <1>1, <1>2, <1>3, <1>4, <1>5, SumOfMultiples
<1> QED
  BY <1>1, <1>2, <1>3, <1>4, <1>5, <1>6 DEF Placed

LEMMA AllPlaced ==
    ASSUME NEW names \in Names
    PROVE  /\ \A i \in 1..Len(names) : Placed(names, i)
           /\ \A i \in 1..Len(names) : i > 1 => End(names, i - 1) <= At(names, i)
<1>1. Len(names) \in Nat
  BY DEF Names
<1>2. ASSUME NEW i \in 1..Len(names), i = 1
      PROVE  Placed(names, i)
  <2>1. At(names, i) = EntryOffset(0, EntryLength(names[i]))
    BY <1>2, OffsetFollows
  <2>2. 0 \in Nat /\ 0 % DwordSize = 0
    BY FormatAssumption
  <2> QED
    BY <2>1, <2>2, PlacedBehind
<1>3. ASSUME NEW i \in 1..Len(names), i # 1, Placed(names, i - 1)
      PROVE  Placed(names, i) /\ End(names, i - 1) <= At(names, i)
  <2>1. At(names, i) = EntryOffset(End(names, i - 1), EntryLength(names[i]))
    BY <1>3, OffsetFollows
  <2>2. End(names, i - 1) \in Nat /\ End(names, i - 1) % DwordSize = 0
    BY <1>3 DEF Placed
  <2> QED
    BY <2>1, <2>2, PlacedBehind
<1> DEFINE S == {k \in Nat : k + 1 \in 1..Len(names) => Placed(names, k + 1)}
<1>4. 0 \in S
  BY <1>2
<1>5. ASSUME NEW k \in Nat, k \in S
      PROVE  k + 1 \in S
  <2> SUFFICES ASSUME (k + 1) + 1 \in 1..Len(names)
               PROVE  Placed(names, (k + 1) + 1)
    OBVIOUS
  <2>1. k + 1 \in 1..Len(names) /\ ((k + 1) + 1) - 1 = k + 1 /\ (k + 1) + 1 # 1
    BY <1>1
  <2>2. Placed(names, k + 1)
    BY <1>5, <2>1
  <2>3. Placed(names, ((k + 1) + 1) - 1)
    BY <2>1, <2>2
  <2> QED
    BY <1>3, <2>1, <2>3
<1>6. Nat \subseteq S
  <2> HIDE DEF S
  <2> QED
    BY <1>4, <1>5, Counting
<1>7. ASSUME NEW i \in 1..Len(names)
      PROVE  Placed(names, i)
  <2>1. i - 1 \in Nat /\ (i - 1) + 1 = i
    BY <1>1
  <2>2. i - 1 \in S
    BY <1>6, <2>1
  <2> QED
    BY <2>1, <2>2
<1>8. ASSUME NEW i \in 1..Len(names), i > 1
      PROVE  End(names, i - 1) <= At(names, i)
  <2>1. i - 1 \in 1..Len(names) /\ i # 1
    BY <1>1, <1>8
  <2> QED
    BY <1>3, <1>7, <2>1
<1> QED
  BY <1>7, <1>8

\* Each entry starts behind the end of all those before it.
LEMMA EntriesAscend ==
    ASSUME NEW names \in Names, NEW i \in 1..Len(names), NEW j \in 1..Len(names), i < j
    PROVE  End(names, i) <= At(names, j)
<1>1. Len(names) \in Nat
  BY DEF Names
<1> DEFINE S == {k \in Nat : i + 1 + k \in 1..Len(names) => End(names, i) <= At(names, i + 1 + k)}
<1>2. 0 \in S
  <2>1. i + 1 \in 1..Len(names) => i + 1 > 1 /\ (i + 1) - 1 = i
    BY <1>1
  <2>2. i + 1 \in 1..Len(names) => End(names, i) <= At(names, i + 1)
    BY <2>1, AllPlaced
  <2>3. i + 1 + 0 = i + 1
    BY <1>1
  <2> QED
    BY <2>2, <2>3
<1>3. ASSUME NEW k \in Nat, k \in S
      PROVE  k + 1 \in S
  <2> DEFINE m == i + 1 + k
  <2> SUFFICES ASSUME i + 1 + (k + 1) \in 1..Len(names)
               PROVE  End(names, i) <= At(names, i + 1 + (k + 1))
    OBVIOUS
  <2>1. i + 1 + (k + 1) = m + 1 /\ m \in 1..Len(names) /\ m + 1 \in 1..Len(names) /\ m + 1 > 1
        /\ (m + 1) - 1 = m
    BY <1>1
  <2>2. End(names, i) <= At(names, m)
    BY <1>3, <2>1
  <2> HIDE DEF m
  <2>3. Placed(names, i) /\ Placed(names, m) /\ Placed(names, m + 1)
        /\ End(names, m) <= At(names, m + 1)
    BY <2>1, AllPlaced
  <2>4. End(names, i) <= At(names, m + 1)
    <3>1. /\ End(names, i) \in Nat /\ At(names, m) \in Nat /\ At(names, m + 1) \in Nat
          /\ End(names, m) \in Nat /\ DwordSize \in Nat
          /\ At(names, m) + DwordSize < End(names, m)
      BY <2>3, FormatAssumption DEF Placed
    <3> QED
      BY <2>2, <2>3, <3>1
  <2> QED
    BY <2>1, <2>4
<1>4. Nat \subseteq S
  <2> HIDE DEF S
  <2> QED
    BY <1>2, <1>3, Counting
<1>5. j - i - 1 \in Nat /\ i + 1 + (j - i - 1) = j
  BY <1>1
<1>6. j - i - 1 \in S
  BY <1>4, <1>5
<1> QED
  BY <1>5, <1>6

\* No two entries share a dword.
LEMMA EntriesAreApart ==
    ASSUME NEW names \in Names, NEW i \in 1..Len(names)
    PROVE  At(names, i) >= (i - 1) * DwordSize
<1>1. Len(names) \in Nat /\ DwordSize \in Nat
  BY FormatAssumption DEF Names
<1> DEFINE S == {k \in Nat : k + 1 \in 1..Len(names) => At(names, k + 1) >= k * DwordSize}
<1>2. 0 \in S
  <2>1. 1 \in 1..Len(names) => At(names, 1) \in Nat
    BY AllPlaced DEF Placed
  <2> QED
    BY <1>1, <2>1
<1>3. ASSUME NEW k \in Nat, k \in S
      PROVE  k + 1 \in S
  <2> SUFFICES ASSUME (k + 1) + 1 \in 1..Len(names)
               PROVE  At(names, (k + 1) + 1) >= (k + 1) * DwordSize
    OBVIOUS
  <2>1. k + 1 \in 1..Len(names) /\ k + 1 < (k + 1) + 1
    BY <1>1
  <2>2. At(names, k + 1) >= k * DwordSize
    BY <1>3, <2>1
  <2>3. End(names, k + 1) <= At(names, (k + 1) + 1)
    BY <2>1, EntriesAscend
  <2>4. /\ At(names, k + 1) \in Nat /\ End(names, k + 1) \in Nat
        /\ At(names, (k + 1) + 1) \in Nat
        /\ At(names, k + 1) + DwordSize < End(names, k + 1)
    BY <2>1, AllPlaced DEF Placed
  <2>5. (k + 1) * DwordSize = k * DwordSize + DwordSize /\ k * DwordSize \in Nat
    BY <1>1
  <2> QED
    BY <1>1, <2>2, <2>3, <2>4, <2>5
<1>4. Nat \subseteq S
  <2> HIDE DEF S
  <2> QED
    BY <1>2, <1>3, Counting
<1>5. i - 1 \in Nat /\ (i - 1) + 1 = i
  BY <1>1
<1>6. i - 1 \in S
  BY <1>4, <1>5
<1> QED
  BY <1>5, <1>6

LEMMA FirstEntryAtStart ==
    ASSUME NEW names \in Names, Len(names) > 0
    PROVE  At(names, 1) = 0
<1>1. Len(names) \in Nat /\ 1 \in 1..Len(names)
  BY DEF Names
<1>2. At(names, 1) = EntryOffset(0, EntryLength(names[1]))
  BY <1>1, OffsetFollows
<1>3. PaddingFor(0, SectorSize) = 0
  <2>1. SectorSize \in Nat \ {0}
    BY FormatAssumption
  <2> QED
    BY <2>1 DEF PaddingFor
<1> QED
  BY <1>2, <1>3 DEF EntryOffset

\* Numbers of sectors compare as their bytes do.
LEMMA SectorOrder ==
    ASSUME NEW a \in Nat, NEW b \in Nat
    PROVE  /\ a * SectorSize <= b * SectorSize => a <= b
           /\ a * SectorSize < b * SectorSize => a < b
           /\ a < b => (a + 1) * SectorSize <= b * SectorSize
<1>1. SectorSize \in Nat \ {0}
  BY FormatAssumption
<1>2. ASSUME a > b PROVE (b + 1) * SectorSize <= a * SectorSize
  BY <1>1, <1>2
<1>3. (b + 1) * SectorSize = b * SectorSize + SectorSize
  BY <1>1
<1>4. a >= b => b * SectorSize <= a * SectorSize
  BY <1>1
<1>5. a < b => (a + 1) * SectorSize <= b * SectorSize
  BY <1>1
<1>6. a * SectorSize \in Nat /\ b * SectorSize \in Nat
  BY <1>1
<1> QED
  BY <1>1, <1>2, <1>3, <1>4, <1>5, <1>6

\* The sector that a byte is in.
LEMMA InSector ==
    ASSUME NEW byte \in Nat
    PROVE  /\ byte \div SectorSize \in Nat
           /\ (byte \div SectorSize) * SectorSize <= byte
           /\ byte < (byte \div SectorSize + 1) * SectorSize
BY FormatAssumption

\* A link to the next entry that leaves the sector the reader has come to leads to
\* the start of the one behind it: the linked list flag changes nothing.
LEMMA NextEntryOfAList ==
    ASSUME NEW names \in Names, NEW i \in 1..Len(names), i + 1 \in 1..Len(names),
           NEW read \in Nat, At(names, i) < read, read <= End(names, i),
           At(names, i + 1) \div SectorSize > read \div SectorSize
    PROVE  (read \div SectorSize + 1) * SectorSize = At(names, i + 1)
<1> DEFINE at == At(names, i)
           end == End(names, i)
           next == At(names, i + 1)
           s == read \div SectorSize
           t == next \div SectorSize
<1>0. SectorSize \in Nat \ {0}
  BY FormatAssumption
<1>1. at \in Nat /\ end \in Nat /\ next \in Nat
  BY AllPlaced DEF Placed
<1>2. PICK k \in Nat : k * SectorSize <= at /\ end <= (k + 1) * SectorSize
  BY AllPlaced DEF Placed
<1>3. next = end \/ (\E m \in Nat : next = m * SectorSize /\ end <= next /\ next < end + SectorSize)
  <2>1. next = EntryOffset(end, EntryLength(names[i + 1]))
    <3>1. i + 1 # 1 /\ (i + 1) - 1 = i
      BY DEF Names
    <3> QED
      BY <3>1, OffsetFollows
  <2>2. /\ PaddingFor(end, SectorSize) \in 0..(SectorSize - 1)
        /\ \E m \in Nat : end + PaddingFor(end, SectorSize) = m * SectorSize
    BY <1>0, <1>1, PaddingRoundsUp
  <2>3. next = end \/ next = end + PaddingFor(end, SectorSize)
    BY <2>1 DEF EntryOffset
  <2> DEFINE pad == PaddingFor(end, SectorSize)
  <2>4. pad \in 0..(SectorSize - 1) /\ \E m \in Nat : end + pad = m * SectorSize
    BY <2>2
  <2>5. next = end \/ next = end + pad
    BY <2>3
  <2> HIDE DEF end, next, pad
  <2>6. CASE next = end + pad
    <3>1. PICK m \in Nat : end + pad = m * SectorSize
      BY <2>4
    <3>2. pad \in Nat /\ pad < SectorSize
      BY <1>0, <2>4
    <3>3. end <= next /\ next < end + SectorSize
      BY <1>0, <1>1, <2>6, <3>2
    <3> QED
      BY <2>6, <3>1, <3>3
  <2> QED
    BY <2>5, <2>6
<1>4. /\ s \in Nat /\ s * SectorSize <= read /\ read < (s + 1) * SectorSize
      /\ t \in Nat /\ t * SectorSize <= next /\ next < (t + 1) * SectorSize
  BY <1>1, InSector
<1>5. s < t /\ at < read /\ read <= end
  BY <1>4
<1> HIDE DEF at, end, next, s, t
<1>6. (s + 1) * SectorSize <= t * SectorSize
  BY <1>4, <1>5, SectorOrder
<1>7. k <= s
  <2>1. k * SectorSize < (s + 1) * SectorSize
    BY <1>0, <1>1, <1>2, <1>4, <1>5
  <2>2. k < s + 1
    BY <1>4, <2>1, SectorOrder
  <2> QED
    BY <1>4, <2>2
<1>8. (k + 1) * SectorSize <= (s + 1) * SectorSize
  BY <1>0, <1>4, <1>7
<1>9. (s + 1) * SectorSize <= next
  BY <1>0, <1>1, <1>4, <1>6
<1>10. next = (s + 1) * SectorSize
  <2>1. CASE next = end
    BY <1>0, <1>1, <1>2, <1>4, <1>8, <1>9, <2>1
  <2>2. CASE \E m \in Nat : next = m * SectorSize /\ end <= next /\ next < end + SectorSize
    <3>1. PICK m \in Nat : next = m * SectorSize /\ next < end + SectorSize
      BY <2>2
    <3>2. s + 1 <= m
      BY <1>4, <1>9, <3>1, SectorOrder
    <3>3. m * SectorSize < (s + 2) * SectorSize
      <4>1. (s + 2) * SectorSize = (s + 1) * SectorSize + SectorSize
        BY <1>0, <1>4
      <4>2. (s + 1) * SectorSize \in Nat /\ (k + 1) * SectorSize \in Nat
        BY <1>0, <1>4
      <4> QED
        BY <1>0, <1>1, <1>2, <1>8, <3>1, <4>1, <4>2
    <3>4. m < s + 2
      BY <1>4, <3>3, SectorOrder
    <3>5. m = s + 1
      BY <1>4, <3>2, <3>4
    <3> QED
      BY <3>1, <3>5
  <2> QED
    BY <1>3, <2>1, <2>2
<1> QED
  BY <1>10 DEF next, s

-------------------------------------------------------------------------------
(* The tree and the table of a directory. *)

Count == Len(directory.names)
Split(i) == directory.node[i].split
LastOf(i) == directory.node[i].last
Offset(i) == At(directory.names, i)

\* What is known of every directory that is written.
DirectoryIsSound ==
    /\ directory.names \in Names
    /\ \A i \in 1..Count : Offset(i) <= MaxTableSize
    /\ Count > 0 => LastOf(1) = Count
    /\ \A i \in 1..Count :
          /\ Split(i) \in i..Count /\ LastOf(i) \in Split(i)..Count
          /\ i < Split(i) => LastOf(i + 1) = Split(i)
          /\ Split(i) < LastOf(i) => LastOf(Split(i) + 1) = LastOf(i)
    /\ table = WrittenTable(directory)

LEMMA FunctionIsSeq ==
    ASSUME NEW S, NEW n \in Nat, NEW f \in [1..n -> S]
    PROVE  f \in Seq(S) /\ Len(f) = n
OBVIOUS

LEMMA DirectoriesAreSound ==
    ASSUME directory \in Directories, table = WrittenTable(directory)
    PROVE  DirectoryIsSound
<1>1. PICK count \in 0..MaxEntries :
         directory \in [node : Trees(count),
                        names : {names \in [1..count -> NameLengths] : Fits(names)}]
  BY DEF Directories
<1>2. count \in Nat
  BY RoundTripAssumption
<1>3. directory.names \in [1..count -> NameLengths] /\ Fits(directory.names)
  BY <1>1
<1>4. directory.names \in Names /\ Count = count
  <2>1. directory.names \in [1..count -> 1..MaxNameLength]
    BY <1>3, RoundTripAssumption
  <2>2. directory.names \in Seq(1..MaxNameLength) /\ Len(directory.names) = count
    BY <1>2, <2>1, FunctionIsSeq
  <2> QED
    BY <2>2 DEF Names, Count
<1>5. /\ directory.node \in [1..count -> [split : 1..count, last : 1..count]]
      /\ IsTree(directory.node, count)
  BY <1>1 DEF Trees
<1>6. \A i \in 1..count : Split(i) \in 1..count /\ LastOf(i) \in 1..count
  BY <1>5 DEF Split, LastOf
<1>7. /\ count > 0 => LastOf(1) = count
      /\ \A i \in 1..count :
            /\ i <= Split(i) /\ Split(i) <= LastOf(i)
            /\ i < Split(i) => LastOf(i + 1) = Split(i)
            /\ Split(i) < LastOf(i) => LastOf(Split(i) + 1) = LastOf(i)
  BY <1>5, Zenon DEF IsTree, Split, LastOf
<1>8. \A i \in 1..count : Offset(i) <= MaxTableSize
  BY <1>3, <1>4 DEF Fits, Offset, At, Count
<1>9. \A i \in 1..count : Split(i) \in i..count /\ LastOf(i) \in Split(i)..count
  BY <1>2, <1>6, <1>7
<1> QED
  BY <1>2, <1>4, <1>7, <1>8, <1>9 DEF DirectoryIsSound

\* What write_entry puts at a dword.
Starting(byte) == {i \in 1..Count : Offset(i) = byte}
Inside(byte) == {i \in 1..Count : Offset(i) < byte /\ byte < End(directory.names, i)}
TableEnd == (IF Count = 0 THEN 1 ELSE SectorsFor(End(directory.names, Count))) * SectorSize
LinkTo(i) == IF i = 0 THEN 0 ELSE Offset(i) \div DwordSize
LeftOf(i) == IF i < Split(i) THEN i + 1 ELSE 0
RightOf(i) == IF Split(i) < LastOf(i) THEN Split(i) + 1 ELSE 0
WrittenEntry(i) == [kind |-> "entry", left |-> LinkTo(LeftOf(i)), right |-> LinkTo(RightOf(i)),
                    name |-> directory.names[i]]

LEMMA WrittenTableIs ==
    ASSUME DirectoryIsSound
    PROVE  table = [d \in 0..(TableDwords - 1) |->
              IF d * DwordSize >= TableEnd \/ Inside(d * DwordSize) # {} THEN [kind |-> "bad"]
              ELSE IF Starting(d * DwordSize) = {} THEN [kind |-> "padding"]
              ELSE WrittenEntry(CHOOSE i \in Starting(d * DwordSize) : TRUE)]
BY DEF DirectoryIsSound, WrittenTable, Starting, Inside, TableEnd, LinkTo, LeftOf, RightOf,
   WrittenEntry, Count, Offset, At, End, Split, LastOf, LinkOffset, LeftChild, RightChild

LEMMA OffsetNumbers ==
    ASSUME DirectoryIsSound, NEW i \in 1..Count
    PROVE  /\ Count \in Nat
           /\ Placed(directory.names, i)
           /\ Offset(i) \in Nat
           /\ Offset(i) < MaxTableSize
           /\ Offset(i) \div DwordSize \in 0..(MaxLink - 1)
           /\ (Offset(i) \div DwordSize) * DwordSize = Offset(i)
           /\ i > 1 => Offset(i) \div DwordSize > 0
           /\ directory.names[i] \in 1..MaxNameLength
<1> DEFINE names == directory.names
           d == Offset(i) \div DwordSize
<1>1. names \in Names /\ Offset(i) <= MaxTableSize /\ i \in 1..Len(names)
  BY DEF DirectoryIsSound, Count
<1>2. Count \in Nat /\ Placed(names, i)
  BY <1>1, AllPlaced DEF Count, Names
<1>3. DwordSize \in Nat \ {0} /\ MaxLink \in Nat /\ MaxTableSize = MaxLink * DwordSize
  BY FormatAssumption DEF MaxTableSize
<1>4. Offset(i) \in Nat /\ Offset(i) % DwordSize = 0
  BY <1>2 DEF Placed, Offset
<1>5. Offset(i) < MaxTableSize
  <2>1. /\ EntryLength(names[i]) \in Nat /\ EntryLength(names[i]) > DwordSize
    BY <1>1, NameLengthsFit
  <2>2. PICK k \in Nat : k * SectorSize <= Offset(i)
                         /\ Offset(i) + EntryLength(names[i]) <= (k + 1) * SectorSize
    BY <1>2 DEF Placed, Offset, End
  <2> HIDE DEF names
  <2> QED
    BY <1>1, <1>4, <2>1, <2>2, LinkIsNotTheMarker
<1>6. d \in Nat /\ d * DwordSize = Offset(i)
  BY <1>3, <1>4, WholeDwords
<1>7. d < MaxLink
  <2> HIDE DEF d
  <2>1. d * DwordSize < MaxLink * DwordSize
    BY <1>3, <1>5, <1>6
  <2> QED
    BY <1>3, <1>6, <2>1
<1>8. i > 1 => d > 0
  <2>1. CASE i > 1
    <3>1. Offset(i) >= (i - 1) * DwordSize
      BY <1>1, EntriesAreApart DEF Offset
    <3>2. (i - 1) * DwordSize >= DwordSize
      BY <1>2, <1>3, <2>1
    <3> HIDE DEF d
    <3>3. d # 0
      BY <1>2, <1>3, <1>6, <3>1, <3>2
    <3> QED
      BY <1>6, <3>3
  <2> QED
    BY <2>1
<1>9. names[i] \in 1..MaxNameLength
  BY <1>1, NameLengthsFit
<1> QED
  BY <1>2, <1>3, <1>4, <1>5, <1>6, <1>7, <1>8, <1>9

LEMMA LinksAreWritten ==
    ASSUME DirectoryIsSound, NEW i \in 1..Count
    PROVE  /\ LeftOf(i) \in 0..Count /\ RightOf(i) \in 0..Count
           /\ LeftOf(i) # 1 /\ RightOf(i) # 1
           /\ LinkTo(LeftOf(i)) \in 0..(MaxLink - 1) /\ LinkTo(RightOf(i)) \in 0..(MaxLink - 1)
<1>1. Count \in Nat /\ Split(i) \in i..Count /\ LastOf(i) \in Split(i)..Count
  BY DEF DirectoryIsSound, Count, Names
<1>2. /\ LeftOf(i) \in 0..Count /\ RightOf(i) \in 0..Count
      /\ LeftOf(i) # 1 /\ RightOf(i) # 1
  BY <1>1 DEF LeftOf, RightOf
<1>3. 0 \in 0..(MaxLink - 1)
  BY FormatAssumption
<1>4. ASSUME NEW c \in 0..Count
      PROVE  LinkTo(c) \in 0..(MaxLink - 1)
  <2>1. CASE c = 0
    BY <1>3, <2>1 DEF LinkTo
  <2>2. CASE c # 0
    <3>1. c \in 1..Count
      BY <1>1, <2>2
    <3> QED
      BY <2>2, <3>1, OffsetNumbers DEF LinkTo
  <2> QED
    BY <2>1, <2>2
<1> QED
  BY <1>2, <1>4

LEMMA TableHasSlots ==
    ASSUME DirectoryIsSound
    PROVE  table \in [0..(TableDwords - 1) -> Slot]
<1>1. ASSUME NEW i \in 1..Count
      PROVE  WrittenEntry(i) \in Slot
  <2>1. LinkTo(LeftOf(i)) \in 0..(MaxLink - 1) /\ LinkTo(RightOf(i)) \in 0..(MaxLink - 1)
    BY LinksAreWritten
  <2>2. LinkTo(RightOf(i)) \in 0..MaxLink
    BY <2>1, FormatAssumption
  <2>3. directory.names[i] \in 1..MaxNameLength
    BY OffsetNumbers
  <2> QED
    BY <2>1, <2>2, <2>3 DEF WrittenEntry, Slot
<1>2. \A byte : Starting(byte) # {} => (CHOOSE i \in Starting(byte) : TRUE) \in 1..Count
  BY DEF Starting
<1>3. [kind |-> "bad"] \in Slot /\ [kind |-> "padding"] \in Slot
  BY DEF Slot
<1> QED
  BY <1>1, <1>2, <1>3, WrittenTableIs

LEMMA EmptyTable ==
    ASSUME DirectoryIsSound, LinksAreWithinReach, Count = 0
    PROVE  IsPaddingAt(0)
<1>0. SectorSize \in Nat \ {0} /\ DwordSize \in Nat \ {0} /\ MaxLink \in Nat /\ TableDwords \in Nat
  BY FormatAssumption, WalkAssumption
<1>1. /\ 0 \in 0..(TableDwords - 1) /\ 0 * DwordSize = 0 /\ 0 \div DwordSize = 0
      /\ SectorSize > 0 /\ TableEnd = SectorSize
  <2>1. TableEnd = 1 * SectorSize
    BY DEF TableEnd
  <2> QED
    BY <1>0, <2>1 DEF LinksAreWithinReach
<1>2. Starting(0) = {} /\ Inside(0) = {}
  BY DEF Starting, Inside
<1>3. table[0] = [kind |-> "padding"] /\ 0 \in DOMAIN table
  <2>1. ~(0 * DwordSize >= TableEnd)
    BY <1>0, <1>1
  <2>2. 0 * DwordSize = 0
    BY <1>1
  <2> QED
    BY <1>1, <1>2, <2>1, <2>2, WrittenTableIs
<1> QED
  BY <1>1, <1>3 DEF IsPaddingAt

\* What a read at the start of an entry finds.
LEMMA EntryIsThere ==
    ASSUME DirectoryIsSound, LinksAreWithinReach, NEW i \in 1..Count
    PROVE  IsEntryAt(Offset(i)) /\ EntryAt(Offset(i)) = WrittenEntry(i)
<1> DEFINE names == directory.names
           d == Offset(i) \div DwordSize
<1>1. /\ Count \in Nat /\ Offset(i) \in Nat /\ d \in 0..(MaxLink - 1) /\ d * DwordSize = Offset(i)
      /\ Placed(names, i) /\ names \in Names
  BY OffsetNumbers DEF DirectoryIsSound
<1>2. d \in 0..(TableDwords - 1)
  <2> HIDE DEF d
  <2>1. MaxLink \in Nat /\ TableDwords \in Nat
    BY FormatAssumption, WalkAssumption
  <2> QED
    BY <1>1, <2>1 DEF LinksAreWithinReach
<1>3. ASSUME NEW j \in 1..Count
      PROVE  /\ Offset(j) \in Nat /\ End(names, j) \in Nat /\ Offset(j) < End(names, j)
             /\ j < i => End(names, j) <= Offset(i)
             /\ i < j => Offset(i) < Offset(j)
  <2>1. Placed(names, j) /\ Placed(names, i)
    BY OffsetNumbers
  <2>2. DwordSize \in Nat
    BY FormatAssumption
  <2>3. /\ Offset(j) \in Nat /\ End(names, j) \in Nat /\ Offset(j) < End(names, j)
        /\ Offset(i) \in Nat /\ End(names, i) \in Nat /\ Offset(i) < End(names, i)
    BY <2>1, <2>2 DEF Placed, Offset
  <2>4. j < i => End(names, j) <= Offset(i)
    BY <1>1, EntriesAscend DEF Count, Offset
  <2>5. i < j => End(names, i) <= Offset(j)
    BY <1>1, EntriesAscend DEF Count, Offset
  <2> HIDE DEF names
  <2> QED
    BY <2>3, <2>4, <2>5
<1>4. Starting(Offset(i)) = {i}
  <2> HIDE DEF names
  <2>1. \A j \in 1..Count : Offset(j) = Offset(i) => j = i
    BY <1>1, <1>3
  <2> QED
    BY <2>1 DEF Starting
<1>5. Inside(Offset(i)) = {}
  <2> SUFFICES ASSUME NEW j \in 1..Count, Offset(j) < Offset(i), Offset(i) < End(names, j)
               PROVE  FALSE
    BY DEF Inside
  <2> HIDE DEF names
  <2> QED
    BY <1>1, <1>3
<1>6. Offset(i) < TableEnd
  <2>1. Count \in 1..Count /\ Count # 0
    BY <1>1
  <2>2. End(names, Count) \in Nat /\ Offset(i) < End(names, Count)
    <3>1. i = Count \/ i < Count
      BY <1>1
    <3>2. Offset(Count) \in Nat /\ End(names, Count) \in Nat /\ Offset(Count) < End(names, Count)
          /\ (i < Count => Offset(i) < Offset(Count))
      BY <1>3, <2>1
    <3> HIDE DEF names
    <3> QED
      BY <1>1, <3>1, <3>2
  <2>3. /\ SectorsFor(End(names, Count)) \in Nat
        /\ End(names, Count) <= SectorsFor(End(names, Count)) * SectorSize
    BY <2>2, SectorsAreEnough
  <2>4. TableEnd = SectorsFor(End(names, Count)) * SectorSize
    BY <2>1 DEF TableEnd
  <2>5. TableEnd \in Nat
    BY <2>3, <2>4, FormatAssumption
  <2> HIDE DEF names
  <2> QED
    BY <1>1, <2>2, <2>3, <2>4, <2>5
<1>7. TableEnd \in Int
  BY <1>1, FormatAssumption, <1>3, SectorsAreEnough DEF TableEnd
<1>8. table[d] = WrittenEntry(i) /\ d \in DOMAIN table
  <2>1. ~(d * DwordSize >= TableEnd)
    <3> HIDE DEF d
    <3> QED
      BY <1>1, <1>6, <1>7
  <2>2. Starting(d * DwordSize) = {i} /\ Inside(d * DwordSize) = {}
    BY <1>1, <1>4, <1>5
  <2>3. (CHOOSE j \in Starting(d * DwordSize) : TRUE) = i
    BY <2>2
  <2> HIDE DEF d
  <2> QED
    BY <1>2, <2>1, <2>2, <2>3, WrittenTableIs
<1> QED
  BY <1>8 DEF IsEntryAt, EntryAt, WrittenEntry

\* The last entry of the subtree that is being read.
Within == IF stack = << >> THEN Count ELSE Split(stack[Len(stack)])

\* What has been read are the first entries of the layout.
ReadInOrder ==
    /\ Len(records) <= Count
    /\ \A i \in 1..Len(records) : records[i] = Offset(i)

\* The waiting entries are each in the left subtree of the one before.
WaitingChain ==
    /\ \A i \in 1..Len(stack) :
          LastOf(stack[i]) = IF i = 1 THEN Count ELSE Split(stack[i - 1])
    /\ \A i, j \in 1..Len(stack) :
          i < j => stack[i] < stack[j] /\ Split(stack[j]) <= Split(stack[i])

\* The next entry is the one that follows, the root of a subtree.
BeforeRead ==
    pc = "read" =>
        /\ Count = 0 => position = 0 /\ stack = << >>
        /\ Count > 0 => /\ Len(records) < Count
                        /\ position = Offset(Len(records) + 1)
                        /\ LastOf(Len(records) + 1) = Within

\* The left subtree of an entry has been read when it is visited.
AtEntry ==
    pc \in {"visit", "visited"} =>
        /\ current \in 1..Len(records)
        /\ Split(current) = Len(records)
        /\ LastOf(current) = Within
        /\ \A i \in 1..Len(stack) : stack[i] < current

\* Until a left link is met, the table is read as the list that it is so far.
ListSoFar ==
    linked_list_compat =>
        /\ stack = << >>
        /\ pc \in {"visit", "visited"} =>
              /\ current = Len(records)
              /\ position_after_entry = Offset(current) + EntryHeaderSize + directory.names[current]

InOrder ==
    /\ \A i, j \in 1..Len(visited) : i < j => NameBefore(directory.node, visited[i], visited[j])
    /\ \A v \in Visited, u \in (1..Count) \ Visited : NameBefore(directory.node, v, u)

EndsWell ==
    /\ pc # "failed"
    /\ pc = "done" => stack = << >> /\ Len(records) = Count

RoundTripInv ==
    /\ DirectoryIsSound
    /\ ReadInOrder
    /\ WaitingChain
    /\ BeforeRead
    /\ AtEntry
    /\ ListSoFar
    /\ InOrder
    /\ EndsWell

-------------------------------------------------------------------------------
LEMMA RoundTripStarts ==
    ASSUME RoundTripInit
    PROVE  IInv /\ RoundTripInv
<1>1. DirectoryIsSound /\ Start
  BY DirectoriesAreSound DEF RoundTripInit
<1>2. table \in [0..(TableDwords - 1) -> Slot]
  BY <1>1, TableHasSlots
<1>3. IInv
  <2>1. TypeOK
    BY <1>1, <1>2 DEF Start, TypeOK
  <2>2. EachOnce
    BY <1>1 DEF Start, EachOnce, Waiting, Visited
  <2>3. RecordsAreEntries /\ ReadsFollowLinks
    BY <1>1, FormatAssumption DEF Start, RecordsAreEntries, ReadsFollowLinks, MaxTableSpan,
       MaxTableSize
  <2> QED
    BY <2>1, <2>2, <2>3 DEF IInv
<1>4. /\ records = << >> /\ stack = << >> /\ visited = << >> /\ position = 0 /\ pc = "read"
      /\ Len(records) = 0 /\ Len(stack) = 0 /\ Len(visited) = 0
  BY <1>1 DEF Start
<1>5. Count \in Nat /\ (Count > 0 => Offset(1) = 0 /\ LastOf(1) = Count)
  BY <1>1, FirstEntryAtStart DEF DirectoryIsSound, Count, Offset, Names
<1>6. BeforeRead
  BY <1>4, <1>5 DEF BeforeRead, Within
<1>7. ReadInOrder /\ WaitingChain /\ AtEntry /\ ListSoFar /\ EndsWell
  BY <1>4, <1>5 DEF ReadInOrder, WaitingChain, AtEntry, ListSoFar, EndsWell
<1>8. InOrder
  BY <1>4 DEF InOrder, Visited
<1> QED
  BY <1>1, <1>3, <1>6, <1>7, <1>8 DEF RoundTripInv

LEMMA CountIsLimited ==
    ASSUME DirectoryIsSound
    PROVE  Count <= MaxLink
<1>1. Count \in Nat /\ MaxLink \in Nat /\ DwordSize \in Nat \ {0}
      /\ MaxTableSize = MaxLink * DwordSize
  BY FormatAssumption DEF DirectoryIsSound, Count, Names, MaxTableSize
<1>2. CASE Count > 0
  <2>1. Count \in 1..Count
    BY <1>1, <1>2
  <2>2. Offset(Count) < MaxTableSize /\ Offset(Count) \in Nat
    BY <2>1, OffsetNumbers
  <2>3. Offset(Count) >= (Count - 1) * DwordSize
    BY <2>1, EntriesAreApart DEF DirectoryIsSound, Count, Offset
  <2>4. (Count - 1) * DwordSize < MaxLink * DwordSize
    <3>1. (Count - 1) * DwordSize \in Int /\ MaxLink * DwordSize \in Int
      BY <1>1
    <3> QED
      BY <1>1, <2>2, <2>3, <3>1
  <2>5. Count - 1 < MaxLink
    <3> SUFFICES ASSUME Count - 1 >= MaxLink
                 PROVE  (Count - 1) * DwordSize >= MaxLink * DwordSize
      BY <1>1, <2>4
    <3> DEFINE c == Count - 1
    <3>1. c \in Nat /\ c >= MaxLink
      BY <1>1, <1>2
    <3> HIDE DEF c
    <3>2. c * DwordSize >= MaxLink * DwordSize
      BY <1>1, <3>1
    <3> QED
      BY <3>2 DEF c
  <2> QED
    BY <1>1, <2>5
<1> QED
  BY <1>1, <1>2

\* What the reader finds when it reads on.
LEMMA AtNextEntry ==
    ASSUME IInv, RoundTripInv, LinksAreWithinReach, pc = "read", Count > 0
    PROVE  /\ Len(records) + 1 \in 1..Count
           /\ IsEntryAt(position) /\ ~IsPaddingAt(position)
           /\ EntryAt(position) = WrittenEntry(Len(records) + 1)
           /\ position = Offset(Len(records) + 1)
           /\ Len(records) < MaxRecords
<1>1. Len(records) \in Nat /\ Count \in Nat /\ Count <= MaxLink /\ MaxLink \in Nat
  BY CountIsLimited, FormatAssumption
     DEF IInv, TypeOK, RoundTripInv, DirectoryIsSound, Count, Names
<1>2. Len(records) < Count /\ position = Offset(Len(records) + 1)
  BY DEF RoundTripInv, BeforeRead
<1>3. Len(records) + 1 \in 1..Count
  BY <1>1, <1>2
<1>4. IsEntryAt(position) /\ EntryAt(position) = WrittenEntry(Len(records) + 1)
  BY <1>2, <1>3, EntryIsThere DEF RoundTripInv
<1>5. ~IsPaddingAt(position)
  BY <1>4 DEF IsEntryAt, IsPaddingAt
<1>6. Len(records) < MaxRecords
  BY <1>1, <1>2, WalkAssumption DEF LinksAreWithinReach
<1> QED
  BY <1>2, <1>3, <1>4, <1>5, <1>6

\* In an empty directory, that there is none.
LEMMA AtNoEntry ==
    ASSUME IInv, RoundTripInv, LinksAreWithinReach, pc = "read", ~(Count > 0)
    PROVE  /\ IsPaddingAt(position) /\ ~IsEntryAt(position)
           /\ link_bytes = 0 /\ stack = << >> /\ Len(records) = Count
<1>1. Count \in Nat /\ Len(records) \in Nat
  BY DEF IInv, TypeOK, RoundTripInv, DirectoryIsSound, Count, Names
<1>2. Count = 0
  BY <1>1
<1>3. position = 0 /\ stack = << >> /\ Len(records) <= Count
  BY <1>2 DEF RoundTripInv, BeforeRead, ReadInOrder
<1>4. IsPaddingAt(position)
  BY <1>2, <1>3, EmptyTable DEF RoundTripInv
<1>5. ~IsEntryAt(position)
  BY <1>4 DEF IsEntryAt, IsPaddingAt
<1>6. link_bytes = 0
  BY <1>3 DEF IInv, ReadsFollowLinks
<1> QED
  BY <1>1, <1>2, <1>3, <1>4, <1>5, <1>6

LEMMA WrittenLinks ==
    ASSUME DirectoryIsSound, NEW i \in 1..Count
    PROVE  /\ WrittenEntry(i).left # 0 => /\ i < Split(i) /\ i + 1 \in 1..Count
                                          /\ WrittenEntry(i).left * DwordSize = Offset(i + 1)
                                          /\ LastOf(i + 1) = Split(i)
           /\ WrittenEntry(i).left = 0 => Split(i) = i
           /\ WrittenEntry(i).right # 0 => /\ Split(i) + 1 \in 1..Count
                                           /\ WrittenEntry(i).right * DwordSize = Offset(Split(i) + 1)
                                           /\ LastOf(Split(i) + 1) = LastOf(i)
           /\ WrittenEntry(i).right = 0 => LastOf(i) = Split(i)
           /\ WrittenEntry(i).name = directory.names[i]
<1>1. /\ Count \in Nat /\ Split(i) \in i..Count /\ LastOf(i) \in Split(i)..Count
      /\ i < Split(i) => LastOf(i + 1) = Split(i)
      /\ Split(i) < LastOf(i) => LastOf(Split(i) + 1) = LastOf(i)
  BY DEF DirectoryIsSound, Count, Names
<1>2. /\ WrittenEntry(i).left = LinkTo(LeftOf(i)) /\ WrittenEntry(i).right = LinkTo(RightOf(i))
      /\ WrittenEntry(i).name = directory.names[i]
  BY DEF WrittenEntry
<1>3. ASSUME NEW c \in 1..Count, c > 1
      PROVE  LinkTo(c) # 0 /\ LinkTo(c) * DwordSize = Offset(c)
  <2>1. Offset(c) \div DwordSize > 0 /\ (Offset(c) \div DwordSize) * DwordSize = Offset(c)
    BY <1>3, OffsetNumbers
  <2> QED
    BY <1>3, <2>1 DEF LinkTo
<1>4. LinkTo(0) = 0
  BY DEF LinkTo
<1>5. CASE i < Split(i)
  <2>1. LeftOf(i) = i + 1 /\ i + 1 \in 1..Count /\ i + 1 > 1
    BY <1>1, <1>5 DEF LeftOf
  <2> QED
    <3>1. /\ WrittenEntry(i).left # 0 /\ WrittenEntry(i).left * DwordSize = Offset(i + 1)
      BY <1>2, <1>3, <2>1
    <3>2. CASE Split(i) < LastOf(i)
      <4>1. RightOf(i) = Split(i) + 1 /\ Split(i) + 1 \in 1..Count /\ Split(i) + 1 > 1
        BY <1>1, <3>2 DEF RightOf
      <4>2. WrittenEntry(i).right # 0 /\ WrittenEntry(i).right * DwordSize = Offset(Split(i) + 1)
        BY <1>2, <1>3, <4>1
      <4> QED
        BY <1>1, <1>2, <1>5, <2>1, <3>1, <3>2, <4>1, <4>2
    <3>3. CASE ~(Split(i) < LastOf(i))
      <4>1. WrittenEntry(i).right = 0 /\ LastOf(i) = Split(i)
        BY <1>1, <1>2, <1>4, <3>3 DEF RightOf
      <4> QED
        BY <1>1, <1>2, <1>5, <2>1, <3>1, <4>1
    <3> QED
      BY <3>2, <3>3
<1>6. CASE ~(i < Split(i))
  <2>1. WrittenEntry(i).left = 0 /\ Split(i) = i
    BY <1>1, <1>2, <1>4, <1>6 DEF LeftOf
  <2>2. CASE Split(i) < LastOf(i)
    <3>1. RightOf(i) = Split(i) + 1 /\ Split(i) + 1 \in 1..Count /\ Split(i) + 1 > 1
      BY <1>1, <2>2 DEF RightOf
    <3>2. WrittenEntry(i).right # 0 /\ WrittenEntry(i).right * DwordSize = Offset(Split(i) + 1)
      BY <1>2, <1>3, <3>1
    <3> QED
      BY <1>1, <1>2, <2>1, <2>2, <3>1, <3>2
  <2>3. CASE ~(Split(i) < LastOf(i))
    <3>1. WrittenEntry(i).right = 0 /\ LastOf(i) = Split(i)
      BY <1>1, <1>2, <1>4, <2>3 DEF RightOf
    <3> QED
      BY <1>2, <2>1, <3>1
  <2> QED
    BY <2>2, <2>3
<1> QED
  BY <1>5, <1>6

LEMMA SameDirectory ==
    ASSUME directory' = directory, table' = table
    PROVE  /\ DirectoryIsSound => DirectoryIsSound'
           /\ Count' = Count
BY DEF DirectoryIsSound, Count, Split, LastOf, Offset

\* The parts of the invariant, for the next state of a walk.
LEMMA InvariantNext ==
    ASSUME RoundTripInv, directory' = directory, table' = table,
           \* ReadInOrder
           Len(records') <= Count,
           \A i \in 1..Len(records') : records'[i] = Offset(i),
           \* WaitingChain
           \A i \in 1..Len(stack') :
               LastOf(stack'[i]) = IF i = 1 THEN Count ELSE Split(stack'[i - 1]),
           \A i, j \in 1..Len(stack') :
               i < j => stack'[i] < stack'[j] /\ Split(stack'[j]) <= Split(stack'[i]),
           NEW within, within = IF stack' = << >> THEN Count ELSE Split(stack'[Len(stack')]),
           \* BeforeRead
           pc' = "read" =>
               /\ Count = 0 => position' = 0 /\ stack' = << >>
               /\ Count > 0 => /\ Len(records') < Count
                               /\ position' = Offset(Len(records') + 1)
                               /\ LastOf(Len(records') + 1) = within,
           \* AtEntry
           pc' \in {"visit", "visited"} =>
               /\ current' \in 1..Len(records')
               /\ Split(current') = Len(records')
               /\ LastOf(current') = within
               /\ \A i \in 1..Len(stack') : stack'[i] < current',
           \* ListSoFar
           linked_list_compat' =>
               /\ stack' = << >>
               /\ pc' \in {"visit", "visited"} =>
                     /\ current' = Len(records')
                     /\ position_after_entry' =
                            Offset(current') + EntryHeaderSize + directory.names[current'],
           \* InOrder
           InOrder',
           \* EndsWell
           pc' # "failed",
           pc' = "done" => stack' = << >> /\ Len(records') = Count
    PROVE  RoundTripInv'
<1>1. DirectoryIsSound' /\ Count' = Count
  BY SameDirectory DEF RoundTripInv
<1>2. ReadInOrder'
  BY <1>1 DEF ReadInOrder, Offset
<1>3. WaitingChain'
  BY <1>1 DEF WaitingChain, Split, LastOf
<1>4. Within' = within
  BY <1>1 DEF Within, Split
<1>5. BeforeRead'
  BY <1>1, <1>4 DEF BeforeRead, Offset, LastOf
<1>6. AtEntry'
  BY <1>1, <1>4 DEF AtEntry, Split, LastOf
<1>7. ListSoFar'
  BY <1>1 DEF ListSoFar, Offset
<1>8. EndsWell'
  BY <1>1 DEF EndsWell
<1> QED
  BY <1>1, <1>2, <1>3, <1>5, <1>6, <1>7, <1>8 DEF RoundTripInv

LEMMA OrderStays ==
    ASSUME InOrder, directory' = directory, visited' = visited
    PROVE  InOrder'
BY DEF InOrder, Visited, Count

\* The parts of the invariants that the steps start from.
LEMMA InvariantNow ==
    ASSUME IInv, RoundTripInv
    PROVE  /\ Len(records) \in Nat /\ Len(stack) \in Nat /\ Count \in Nat
           /\ Len(visited) \in Nat
           /\ \A i \in 1..Len(stack) : stack[i] \in 1..Len(records)
           /\ Len(records) <= Count
           /\ \A i \in 1..Len(records) : records[i] = Offset(i)
           /\ \A i \in 1..Len(stack) :
                 LastOf(stack[i]) = IF i = 1 THEN Count ELSE Split(stack[i - 1])
           /\ \A i, j \in 1..Len(stack) :
                 i < j => stack[i] < stack[j] /\ Split(stack[j]) <= Split(stack[i])
           /\ \A i \in 1..Count : Split(i) \in i..Count /\ LastOf(i) \in Split(i)..Count
           /\ (stack # << >>) <=> (Len(stack) > 0)
<1>1. \A i \in 1..Len(stack) : stack[i] \in 1..Len(records)
  BY ElementOfSeq, Zenon DEF IInv, TypeOK
<1>2. stack \in Seq(1..Len(records)) /\ Len(stack) \in Nat
  BY DEF IInv, TypeOK
<1>3. (stack # << >>) <=> (Len(stack) > 0)
  BY <1>2, EmptySeq
<1>4. Len(records) \in Nat /\ Len(visited) \in Nat
  BY DEF IInv, TypeOK
<1>5. Count \in Nat
  BY DEF RoundTripInv, DirectoryIsSound, Count, Names
<1>6. /\ Len(records) <= Count
      /\ \A i \in 1..Len(records) : records[i] = Offset(i)
  BY DEF RoundTripInv, ReadInOrder
<1>7. /\ \A i \in 1..Len(stack) :
            LastOf(stack[i]) = IF i = 1 THEN Count ELSE Split(stack[i - 1])
      /\ \A i, j \in 1..Len(stack) :
            i < j => stack[i] < stack[j] /\ Split(stack[j]) <= Split(stack[i])
  BY DEF RoundTripInv, WaitingChain
<1>8. \A i \in 1..Count : Split(i) \in i..Count /\ LastOf(i) \in Split(i)..Count
  BY DEF RoundTripInv, DirectoryIsSound
<1> QED
  BY <1>1, <1>2, <1>3, <1>4, <1>5, <1>6, <1>7, <1>8

\* Without a new entry on the stack.
LEMMA StackStays ==
    ASSUME IInv, RoundTripInv, stack' = stack
    PROVE  /\ \A i \in 1..Len(stack') :
                 LastOf(stack'[i]) = IF i = 1 THEN Count ELSE Split(stack'[i - 1])
           /\ \A i, j \in 1..Len(stack') :
                 i < j => stack'[i] < stack'[j] /\ Split(stack'[j]) <= Split(stack'[i])
           /\ Within = IF stack' = << >> THEN Count ELSE Split(stack'[Len(stack')])
BY InvariantNow DEF Within

LEMMA RecordIsNext ==
    ASSUME IInv, RoundTripInv, LinksAreWithinReach, pc = "read", Count > 0,
           records' = Append(records, position)
    PROVE  /\ Len(records') = Len(records) + 1 /\ Len(records') <= Count
           /\ \A i \in 1..Len(records') : records'[i] = Offset(i)
<1>1. /\ Len(records) + 1 \in 1..Count /\ position = Offset(Len(records) + 1)
      /\ Len(records) \in Nat /\ \A i \in 1..Len(records) : records[i] = Offset(i)
  BY AtNextEntry, InvariantNow
<1>2. /\ Len(records') = Len(records) + 1 /\ records'[Len(records) + 1] = position
      /\ \A i \in 1..Len(records) : records'[i] = records[i]
  BY DEF IInv, TypeOK
<1> HIDE DEF Offset
<1> QED
  BY <1>1, <1>2

LEMMA RoundTripDescendLeft ==
    ASSUME IInv, RoundTripInv, LinksAreWithinReach, directory' = directory, DescendLeft
    PROVE  RoundTripInv'
<1> DEFINE k == Len(records)
<1>0. /\ Len(stack) \in Nat /\ k \in Nat /\ Count \in Nat
      /\ (stack # << >>) <=> (Len(stack) > 0)
      /\ \A i \in 1..Len(stack) : stack[i] \in 1..k /\ stack[i] \in 1..Count
  <2>1. /\ Len(stack) \in Nat /\ k \in Nat /\ Count \in Nat /\ k <= Count
        /\ (stack # << >>) <=> (Len(stack) > 0)
        /\ \A i \in 1..Len(stack) : stack[i] \in 1..k
    BY InvariantNow
  <2> HIDE DEF k
  <2> QED
    BY <2>1
<1>1. /\ pc = "read" /\ pc' = "read" /\ IsEntryAt(position) /\ table' = table
      /\ records' = Append(records, position)
      /\ EntryAt(position).left # 0
      /\ position' = EntryAt(position).left * DwordSize
      /\ stack' = Append(stack, k + 1)
      /\ linked_list_compat' = FALSE /\ visited' = visited
  BY DEF DescendLeft, ReadRecord, Follow
<1>2. Count > 0
  BY <1>1, AtNoEntry
<1>3. /\ k + 1 \in 1..Count /\ EntryAt(position) = WrittenEntry(k + 1)
      /\ LastOf(k + 1) = Within
  BY <1>1, <1>2, AtNextEntry DEF RoundTripInv, BeforeRead
<1>4. /\ k + 1 < Split(k + 1) /\ (k + 1) + 1 \in 1..Count
      /\ position' = Offset((k + 1) + 1) /\ LastOf((k + 1) + 1) = Split(k + 1)
  BY <1>1, <1>3, WrittenLinks DEF RoundTripInv
<1>5. /\ Len(records') = k + 1 /\ Len(records') <= Count
      /\ \A i \in 1..Len(records') : records'[i] = Offset(i)
  BY <1>1, <1>2, RecordIsNext
<1>6. /\ Len(stack') = Len(stack) + 1 /\ stack'[Len(stack) + 1] = k + 1
      /\ \A i \in 1..Len(stack) : stack'[i] = stack[i]
      /\ stack' # << >>
  <2>1. /\ Len(stack') = Len(stack) + 1 /\ stack'[Len(stack) + 1] = k + 1
        /\ \A i \in 1..Len(stack) : stack'[i] = stack[i]
    BY <1>1 DEF IInv, TypeOK
  <2>2. Len(<< >>) = 0 /\ Len(stack) + 1 # 0
    BY InvariantNow
  <2> QED
    BY <2>1, <2>2
<1>7. \A i \in 1..Len(stack') :
         LastOf(stack'[i]) = IF i = 1 THEN Count ELSE Split(stack'[i - 1])
  <2> SUFFICES ASSUME NEW i \in 1..Len(stack')
               PROVE  LastOf(stack'[i]) = IF i = 1 THEN Count ELSE Split(stack'[i - 1])
    OBVIOUS
  <2>1. CASE i = Len(stack) + 1
    <3>1. LastOf(stack'[i]) = Within
      BY <1>3, <1>6, <2>1
    <3>2. CASE Len(stack) = 0
      <4>1. stack = << >> /\ i = 1
        BY <2>1, <3>2, <1>0
      <4> QED
        BY <3>1, <4>1 DEF Within
    <3>3. CASE Len(stack) # 0
      <4>1. stack # << >> /\ i # 1 /\ i - 1 = Len(stack) /\ stack'[i - 1] = stack[Len(stack)]
        BY <1>6, <2>1, <3>3, <1>0
      <4> QED
        BY <3>1, <4>1 DEF Within
    <3> QED
      BY <3>2, <3>3
  <2>2. CASE i # Len(stack) + 1
    <3>1. i \in 1..Len(stack) /\ (i # 1 => i - 1 \in 1..Len(stack))
      BY <1>6, <2>2, InvariantNow
    <3>2. LastOf(stack[i]) = IF i = 1 THEN Count ELSE Split(stack[i - 1])
      BY <3>1, InvariantNow
    <3> QED
      BY <1>6, <3>1, <3>2
  <2> QED
    BY <2>1, <2>2
<1>8. \A i, j \in 1..Len(stack') :
         i < j => stack'[i] < stack'[j] /\ Split(stack'[j]) <= Split(stack'[i])
  <2> SUFFICES ASSUME NEW i \in 1..Len(stack'), NEW j \in 1..Len(stack'), i < j
               PROVE  stack'[i] < stack'[j] /\ Split(stack'[j]) <= Split(stack'[i])
    OBVIOUS
  <2>0. Len(stack) \in Nat /\ k \in Nat
    BY InvariantNow
  <2>1. i \in 1..Len(stack) /\ stack'[i] = stack[i] /\ stack[i] \in 1..k
    <3>1. i \in 1..Len(stack)
      BY <1>6, <2>0
    <3> QED
      BY <1>6, <3>1, InvariantNow
  <2>2. CASE j = Len(stack) + 1
    <3>1. stack'[j] = k + 1 /\ stack'[i] < stack'[j]
      BY <1>6, <2>0, <2>1, <2>2
    <3>2. Split(k + 1) <= Within
      <4>1. Split(k + 1) \in Int /\ LastOf(k + 1) \in Split(k + 1)..Count /\ Count \in Nat
        BY <1>3, InvariantNow
      <4> QED
        BY <1>3, <4>1
    <3>3. Within = Split(stack[Len(stack)]) /\ Len(stack) \in 1..Len(stack)
      <4>1. Len(stack) > 0 /\ Len(stack) \in 1..Len(stack)
        BY <2>0, <2>1
      <4> QED
        BY <1>0, <4>1 DEF Within
    <3>4. Split(stack[Len(stack)]) <= Split(stack[i])
      <4>1. i = Len(stack) \/ i < Len(stack)
        BY <2>0, <2>1
      <4>2. stack[i] \in 1..Count
        BY <2>1, InvariantNow
      <4>3. Split(stack[i]) \in Int
        BY <4>2, InvariantNow
      <4> QED
        BY <2>1, <3>3, <4>1, <4>3, InvariantNow
    <3>5. stack[i] \in 1..Count /\ stack[Len(stack)] \in 1..Count /\ k + 1 \in 1..Count
      BY <1>0, <1>3, <2>1, <3>3
    <3>6. Split(stack[i]) \in Int /\ Split(stack[Len(stack)]) \in Int /\ Split(k + 1) \in Int
      <4>1. \A x \in 1..Count : Split(x) \in x..Count
        BY InvariantNow
      <4>2. \A x \in 1..Count : Split(x) \in Int
        BY <1>0, <4>1
      <4> QED
        BY <3>5, <4>2
    <3> QED
      BY <2>1, <3>1, <3>2, <3>3, <3>4, <3>6
  <2>3. CASE j # Len(stack) + 1
    <3>1. j \in 1..Len(stack) /\ stack'[j] = stack[j]
      BY <1>6, <2>0, <2>3
    <3>2. stack[i] < stack[j] /\ Split(stack[j]) <= Split(stack[i])
      BY <2>1, <3>1, InvariantNow
    <3> QED
      BY <2>1, <3>1, <3>2
  <2> QED
    BY <2>2, <2>3
<1> DEFINE within == Split(k + 1)
<1>9. within = IF stack' = << >> THEN Count ELSE Split(stack'[Len(stack')])
  BY <1>6
<1>10. pc' = "read" =>
         /\ Count = 0 => position' = 0 /\ stack' = << >>
         /\ Count > 0 => /\ Len(records') < Count
                         /\ position' = Offset(Len(records') + 1)
                         /\ LastOf(Len(records') + 1) = within
  <2>1. Len(records') + 1 = (k + 1) + 1 /\ k \in Nat /\ Count \in Nat
    BY <1>5, InvariantNow
  <2>2. Len(records') < Count
    BY <1>4, <1>5, <2>1
  <2> QED
    BY <1>2, <1>4, <2>1, <2>2
<1>11. pc' \notin {"visit", "visited", "done", "failed"}
  BY <1>1
<1>12. InOrder'
  BY <1>1, OrderStays DEF RoundTripInv
<1> HIDE DEF within
<1> QED
  BY <1>1, <1>5, <1>7, <1>8, <1>9, <1>10, <1>11, <1>12, InvariantNext

LEMMA RoundTripReadLeaf ==
    ASSUME IInv, RoundTripInv, LinksAreWithinReach, directory' = directory, ReadLeaf
    PROVE  RoundTripInv'
<1> DEFINE k == Len(records)
<1>1. /\ pc = "read" /\ pc' = "visit" /\ IsEntryAt(position) /\ table' = table
      /\ records' = Append(records, position)
      /\ EntryAt(position).left = 0
      /\ linked_list_compat => position_after_entry' = position + EntryHeaderSize + EntryAt(position).name
      /\ current' = k + 1
      /\ linked_list_compat' = linked_list_compat /\ visited' = visited /\ stack' = stack
  BY DEF ReadLeaf, ReadRecord
<1>2. Count > 0
  BY <1>1, AtNoEntry
<1>3. /\ k + 1 \in 1..Count /\ EntryAt(position) = WrittenEntry(k + 1)
      /\ position = Offset(k + 1) /\ LastOf(k + 1) = Within
  BY <1>1, <1>2, AtNextEntry DEF RoundTripInv, BeforeRead
<1>4. Split(k + 1) = k + 1 /\ EntryAt(position).name = directory.names[k + 1]
  BY <1>1, <1>3, WrittenLinks DEF RoundTripInv
<1>5. /\ Len(records') = k + 1 /\ Len(records') <= Count
      /\ \A i \in 1..Len(records') : records'[i] = Offset(i)
  BY <1>1, <1>2, RecordIsNext
<1>6. /\ \A i \in 1..Len(stack') :
            LastOf(stack'[i]) = IF i = 1 THEN Count ELSE Split(stack'[i - 1])
      /\ \A i, j \in 1..Len(stack') :
            i < j => stack'[i] < stack'[j] /\ Split(stack'[j]) <= Split(stack'[i])
      /\ Within = IF stack' = << >> THEN Count ELSE Split(stack'[Len(stack')])
  BY <1>1, StackStays
<1>7. pc' \in {"visit", "visited"} =>
         /\ current' \in 1..Len(records')
         /\ Split(current') = Len(records')
         /\ LastOf(current') = Within
         /\ \A i \in 1..Len(stack') : stack'[i] < current'
  <2>1. \A i \in 1..Len(stack') : stack'[i] < current'
    BY <1>1, InvariantNow
  <2>2. current' \in 1..Len(records')
    BY <1>1, <1>5, InvariantNow
  <2> QED
    BY <1>1, <1>3, <1>4, <1>5, <2>1, <2>2
<1>8. linked_list_compat' =>
         /\ stack' = << >>
         /\ pc' \in {"visit", "visited"} =>
               /\ current' = Len(records')
               /\ position_after_entry' =
                      Offset(current') + EntryHeaderSize + directory.names[current']
  BY <1>1, <1>3, <1>4, <1>5 DEF RoundTripInv, ListSoFar
<1>9. InOrder'
  BY <1>1, OrderStays DEF RoundTripInv
<1>10. pc' \notin {"read", "done", "failed"}
  BY <1>1
<1> QED
  BY <1>1, <1>5, <1>6, <1>7, <1>8, <1>9, <1>10, InvariantNext

\* The entry visited comes, by name, before all that have not been.
LEMMA RoundTripVisit ==
    ASSUME IInv, RoundTripInv, directory' = directory, Visit
    PROVE  RoundTripInv'
<1> DEFINE k == Len(records)
<1>1. /\ pc = "visit" /\ pc' = "visited" /\ visited' = Append(visited, current)
      /\ UNCHANGED <<table, link_bytes, records, stack, current, linked_list_compat,
                     position_after_entry>>
  BY DEF Visit
<1>2. /\ current \in 1..k /\ Split(current) = k /\ LastOf(current) = Within
      /\ \A i \in 1..Len(stack) : stack[i] < current
  BY <1>1 DEF RoundTripInv, AtEntry
<1>3. /\ k \in Nat /\ Count \in Nat /\ k <= Count /\ Len(stack) \in Nat
      /\ (stack # << >>) <=> (Len(stack) > 0)
      /\ Len(visited) \in Nat
  BY InvariantNow
<1>4. \A i \in 1..Len(stack) : stack[i] < current /\ stack[i] \in 1..k /\ k <= Split(stack[i])
  <2> SUFFICES ASSUME NEW i \in 1..Len(stack)
               PROVE  stack[i] \in 1..k /\ k <= Split(stack[i])
    BY <1>2
  <2>1. stack[i] \in 1..k /\ Len(stack) \in 1..Len(stack) /\ stack # << >>
    BY <1>3, InvariantNow
  <2>2. Within = Split(stack[Len(stack)])
    BY <2>1 DEF Within
  <2>3. Split(stack[Len(stack)]) <= Split(stack[i]) \/ i = Len(stack)
    BY <1>3, InvariantNow
  <2>4. stack[i] \in 1..Count /\ current \in 1..Count /\ stack[Len(stack)] \in 1..Count
    <3>1. \A j \in 1..Len(stack) : stack[j] \in 1..k
      BY InvariantNow
    <3>2. \A x \in 1..k : x \in 1..Count
      BY <1>3
    <3> HIDE DEF k
    <3> QED
      BY <1>2, <2>1, <3>1, <3>2
  <2>5. Split(stack[i]) \in Int /\ Split(stack[Len(stack)]) \in Int /\ k <= Within
    <3>1. \A x \in 1..Count : Split(x) \in x..Count /\ LastOf(x) \in Split(x)..Count
      BY InvariantNow
    <3>2. \A x \in 1..Count : Split(x) \in Int /\ Split(x) <= LastOf(x)
      BY <1>3, <3>1
    <3> QED
      BY <1>2, <2>4, <3>2
  <2> QED
    BY <1>3, <2>1, <2>2, <2>3, <2>5
<1>5. \A u \in 1..Count : u \notin Visited /\ u # current => NameBefore(directory.node, current, u)
  <2> SUFFICES ASSUME NEW u \in 1..Count, u \notin Visited, u # current
               PROVE  NameBefore(directory.node, current, u)
    OBVIOUS
  <2>1. 1..k = Waiting \cup Visited \cup {current}
    BY <1>1 DEF IInv, EachOnce
  <2>2. CASE u \in Waiting
    <3>1. u < current /\ k <= Split(u)
      BY <1>4, <2>2 DEF Waiting
    <3>2. ~(current < u) /\ current <= Split(u)
      <4>1. \A x \in 1..Count : Split(x) \in x..Count
        BY InvariantNow
      <4> QED
        BY <1>2, <1>3, <3>1, <4>1
    <3> QED
      BY <3>2 DEF NameBefore, Split
  <2>3. CASE u \notin Waiting
    <3>1. u \notin 1..k
      BY <2>1, <2>3
    <3>2. current < u /\ Split(current) < u
      BY <1>2, <1>3, <3>1
    <3> QED
      BY <3>2 DEF NameBefore, Split
  <2> QED
    BY <2>2, <2>3
<1>6. /\ current \in 1..Count /\ current \notin Visited
      /\ \A x \in Visited : x \in 1..Count
  <2>1. current \notin Visited /\ Visited \subseteq 1..k
    BY <1>1 DEF IInv, EachOnce
  <2> QED
    BY <1>2, <1>3, <2>1
<1>7. /\ Len(visited') = Len(visited) + 1 /\ visited'[Len(visited) + 1] = current
      /\ \A i \in 1..Len(visited) : visited'[i] = visited[i] /\ visited[i] \in Visited
      /\ Visited' = Visited \cup {current}
  <2>1. /\ Len(visited') = Len(visited) + 1 /\ visited'[Len(visited) + 1] = current
        /\ \A i \in 1..Len(visited) : visited'[i] = visited[i]
    BY <1>1 DEF IInv, TypeOK
  <2>2. Visited' = {visited'[i] : i \in 1..(Len(visited) + 1)}
    BY <2>1 DEF Visited
  <2> QED
    BY <1>3, <2>1, <2>2 DEF Visited
<1>8. InOrder'
  <2>1. \A i, j \in 1..Len(visited') :
           i < j => NameBefore(directory.node, visited'[i], visited'[j])
    <3> SUFFICES ASSUME NEW i \in 1..Len(visited'), NEW j \in 1..Len(visited'), i < j
                 PROVE  NameBefore(directory.node, visited'[i], visited'[j])
      OBVIOUS
    <3>1. i \in 1..Len(visited) /\ visited'[i] = visited[i] /\ visited[i] \in Visited
      <4>1. i \in 1..Len(visited)
        BY <1>3, <1>7
      <4> QED
        BY <1>7, <4>1
    <3>2. CASE j = Len(visited) + 1
      BY <1>6, <1>7, <3>1, <3>2 DEF RoundTripInv, InOrder
    <3>3. CASE j # Len(visited) + 1
      <4>1. j \in 1..Len(visited)
        BY <1>3, <1>7, <3>3
      <4> QED
        BY <1>7, <3>1, <4>1 DEF RoundTripInv, InOrder
    <3> QED
      BY <3>2, <3>3
  <2>2. \A v \in Visited', u \in (1..Count) \ Visited' : NameBefore(directory.node, v, u)
    BY <1>5, <1>7 DEF RoundTripInv, InOrder
  <2>3. Count' = Count
    BY DEF Count
  <2> QED
    BY <2>1, <2>2, <2>3 DEF InOrder
<1>9. /\ \A i \in 1..Len(stack') :
            LastOf(stack'[i]) = IF i = 1 THEN Count ELSE Split(stack'[i - 1])
      /\ \A i, j \in 1..Len(stack') :
            i < j => stack'[i] < stack'[j] /\ Split(stack'[j]) <= Split(stack'[i])
      /\ Within = IF stack' = << >> THEN Count ELSE Split(stack'[Len(stack')])
  BY <1>1, StackStays
<1>10. Len(records') <= Count /\ \A i \in 1..Len(records') : records'[i] = Offset(i)
  BY <1>1 DEF RoundTripInv, ReadInOrder
<1>11. linked_list_compat' =>
         /\ stack' = << >>
         /\ pc' \in {"visit", "visited"} =>
               /\ current' = Len(records')
               /\ position_after_entry' =
                      Offset(current') + EntryHeaderSize + directory.names[current']
  BY <1>1 DEF RoundTripInv, ListSoFar
<1>12. pc' \in {"visit", "visited"} =>
         /\ current' \in 1..Len(records')
         /\ Split(current') = Len(records')
         /\ LastOf(current') = Within
         /\ \A i \in 1..Len(stack') : stack'[i] < current'
  BY <1>1, <1>2
<1>13. pc' \notin {"read", "done", "failed"}
  BY <1>1
<1>14. table' = table
  BY <1>1
<1> QED
  BY <1>8, <1>9, <1>10, <1>11, <1>12, <1>13, <1>14, InvariantNext

\* The right link of the current entry.
LEMMA RightOfCurrent ==
    ASSUME IInv, RoundTripInv, LinksAreWithinReach, pc = "visited"
    PROVE  /\ current \in 1..Count /\ Split(current) = Len(records) /\ LastOf(current) = Within
           /\ Right = WrittenEntry(current).right
<1>1. current \in 1..Len(records) /\ Split(current) = Len(records) /\ LastOf(current) = Within
  BY DEF RoundTripInv, AtEntry
<1>2. current \in 1..Count /\ records[current] = Offset(current)
  BY <1>1, InvariantNow
<1>3. EntryAt(Offset(current)) = WrittenEntry(current)
  BY <1>2, EntryIsThere DEF RoundTripInv
<1> QED
  BY <1>1, <1>2, <1>3 DEF Right

\* It is followed to the entry it was written for, the flag for linked lists or not.
LEMMA RightLinkIsTaken ==
    ASSUME IInv, RoundTripInv, LinksAreWithinReach, pc = "visited", Right # 0
    PROVE  /\ Len(records) + 1 \in 1..Count
           /\ RightLink(Right) = Offset(Len(records) + 1)
           /\ LastOf(Len(records) + 1) = Within
<1> DEFINE k == Len(records)
<1>1. /\ current \in 1..Count /\ Split(current) = k /\ LastOf(current) = Within
      /\ Right = WrittenEntry(current).right
  BY RightOfCurrent
<1>2. k + 1 \in 1..Count /\ Right * DwordSize = Offset(k + 1) /\ LastOf(k + 1) = Within
  BY <1>1, WrittenLinks DEF RoundTripInv
<1>3. CASE linked_list_compat
  <2> DEFINE names == directory.names
             read == position_after_entry
  <2>1. /\ current = k
        /\ read = Offset(current) + EntryHeaderSize + names[current]
    BY <1>3 DEF RoundTripInv, ListSoFar
  <2>2. /\ names \in Names /\ current \in 1..Len(names) /\ current + 1 \in 1..Len(names)
    BY <1>1, <1>2, <2>1 DEF RoundTripInv, DirectoryIsSound, Count
  <2>3. /\ names[current] \in 1..MaxNameLength
        /\ EntryLength(names[current]) \in Nat \ {0}
        /\ EntryHeaderSize + names[current] <= EntryLength(names[current])
    BY <2>2, NameLengthsFit
  <2>4. At(names, current) \in Nat /\ Offset(current) = At(names, current)
    BY <2>2, AllPlaced DEF Placed, Offset
  <2>5. /\ read \in Nat /\ At(names, current) < read /\ read <= End(names, current)
    <3>1. EntryHeaderSize \in Nat /\ MaxNameLength \in Nat
      BY FormatAssumption
    <3>2. End(names, current) = At(names, current) + EntryLength(names[current])
      BY DEF End
    <3> HIDE DEF names, read
    <3> QED
      BY <2>1, <2>3, <2>4, <3>1, <3>2
  <2>6. Offset(k + 1) = At(names, current + 1)
    BY <2>1 DEF Offset
  <2>7. CASE Offset(k + 1) \div SectorSize > read \div SectorSize
    <3>1. (read \div SectorSize + 1) * SectorSize = Offset(k + 1)
      BY <2>2, <2>5, <2>6, <2>7, NextEntryOfAList
    <3> QED
      BY <1>2, <1>3, <2>7, <3>1 DEF RightLink
  <2>8. CASE ~(Offset(k + 1) \div SectorSize > read \div SectorSize)
    BY <1>2, <1>3, <2>8 DEF RightLink
  <2> QED
    BY <1>2, <2>7, <2>8
<1>4. CASE ~linked_list_compat
  BY <1>2, <1>4 DEF RightLink
<1> QED
  BY <1>2, <1>3, <1>4

LEMMA RoundTripDescendRight ==
    ASSUME IInv, RoundTripInv, LinksAreWithinReach, directory' = directory, DescendRight
    PROVE  RoundTripInv'
<1>1. /\ pc = "visited" /\ pc' = "read" /\ Right # 0
      /\ position' = RightLink(Right)
      /\ UNCHANGED <<table, records, stack, current, visited, linked_list_compat,
                     position_after_entry>>
  BY DEF DescendRight, Follow
<1>2. /\ Len(records) + 1 \in 1..Count
      /\ position' = Offset(Len(records) + 1)
      /\ LastOf(Len(records) + 1) = Within
  BY <1>1, RightLinkIsTaken
<1>3. /\ \A i \in 1..Len(stack') :
            LastOf(stack'[i]) = IF i = 1 THEN Count ELSE Split(stack'[i - 1])
      /\ \A i, j \in 1..Len(stack') :
            i < j => stack'[i] < stack'[j] /\ Split(stack'[j]) <= Split(stack'[i])
      /\ Within = IF stack' = << >> THEN Count ELSE Split(stack'[Len(stack')])
  BY <1>1, StackStays
<1>4. Len(records') <= Count /\ \A i \in 1..Len(records') : records'[i] = Offset(i)
  BY <1>1 DEF RoundTripInv, ReadInOrder
<1>5. /\ Count # 0 /\ Len(records') < Count
      /\ position' = Offset(Len(records') + 1)
      /\ LastOf(Len(records') + 1) = Within
  <2>1. Count \in Nat /\ Len(records) \in Nat
    BY InvariantNow
  <2>2. Count # 0 /\ Len(records) < Count /\ records' = records
    BY <1>1, <1>2, <2>1
  <2> QED
    BY <1>2, <2>2
<1>6. linked_list_compat' => stack' = << >>
  BY <1>1 DEF RoundTripInv, ListSoFar
<1>7. InOrder'
  BY <1>1, OrderStays DEF RoundTripInv
<1>8. pc' \notin {"visit", "visited", "done", "failed"} /\ table' = table
  BY <1>1
<1> QED
  BY <1>3, <1>4, <1>5, <1>6, <1>7, <1>8, InvariantNext

\* The entry that waited longest in vain is visited when its left subtree is done.
LEMMA RoundTripAscend ==
    ASSUME IInv, RoundTripInv, LinksAreWithinReach, directory' = directory, Ascend
    PROVE  RoundTripInv'
<1> DEFINE n == Len(stack)
           top == stack[n]
<1>1. /\ pc = "visited" /\ pc' = "visit" /\ Right = 0 /\ stack # << >>
      /\ current' = top /\ stack' = SubSeq(stack, 1, n - 1)
      /\ UNCHANGED <<table, position, link_bytes, records, visited, linked_list_compat,
                     position_after_entry>>
  BY DEF Ascend
<1>2. n \in Nat /\ n > 0 /\ n \in 1..n
  BY <1>1, InvariantNow
<1>3. /\ Len(stack') = n - 1 /\ \A i \in 1..(n - 1) : stack'[i] = stack[i]
  <2>1. stack \in Seq(1..Len(records))
    BY DEF IInv, TypeOK
  <2> QED
    BY <1>1, <2>1, AllButLast
<1>4. /\ current \in 1..Count /\ Split(current) = Len(records) /\ LastOf(current) = Within
      /\ LastOf(current) = Split(current)
  <2>1. /\ current \in 1..Count /\ Split(current) = Len(records) /\ LastOf(current) = Within
        /\ Right = WrittenEntry(current).right
    BY <1>1, RightOfCurrent
  <2> QED
    BY <1>1, <2>1, WrittenLinks DEF RoundTripInv
<1>5. Within = Split(top) /\ Split(top) = Len(records)
  BY <1>1, <1>4 DEF Within
<1>6. top \in 1..Len(records)
  BY <1>2, InvariantNow
<1>7. LastOf(top) = IF n = 1 THEN Count ELSE Split(stack[n - 1])
  BY <1>2, InvariantNow
<1> DEFINE within == IF stack' = << >> THEN Count ELSE Split(stack'[Len(stack')])
<1>8. LastOf(top) = within
  <2>1. CASE n = 1
    <3>1. stack' = << >>
      <4>1. stack' \in Seq(1..Len(records)) /\ Len(stack') = 0
        BY <1>3, <2>1, <1>1, <1>2 DEF IInv, TypeOK
      <4> QED
        BY <4>1, EmptySeq
    <3> QED
      BY <1>7, <2>1, <3>1
  <2>2. CASE n # 1
    <3>1. n - 1 \in 1..(n - 1) /\ Len(stack') = n - 1 /\ n - 1 # 0
      BY <1>2, <1>3, <2>2
    <3>2. stack' # << >>
      <4>1. Len(<< >>) = 0
        OBVIOUS
      <4> QED
        BY <3>1, <4>1
    <3> QED
      BY <1>3, <1>7, <2>2, <3>1, <3>2
  <2> QED
    BY <2>1, <2>2
<1> HIDE DEF within
<1>9. \A i \in 1..Len(stack') : stack'[i] = stack[i] /\ i \in 1..n /\ i < n
                                /\ (i # 1 => i - 1 \in 1..Len(stack') /\ stack'[i - 1] = stack[i - 1])
  BY <1>2, <1>3
<1>10. /\ \A i \in 1..Len(stack') :
             LastOf(stack'[i]) = IF i = 1 THEN Count ELSE Split(stack'[i - 1])
       /\ \A i, j \in 1..Len(stack') :
             i < j => stack'[i] < stack'[j] /\ Split(stack'[j]) <= Split(stack'[i])
  <2>1. \A i \in 1..Len(stack) : LastOf(stack[i]) = IF i = 1 THEN Count ELSE Split(stack[i - 1])
    BY InvariantNow
  <2>2. \A i, j \in 1..Len(stack) :
             i < j => stack[i] < stack[j] /\ Split(stack[j]) <= Split(stack[i])
    BY InvariantNow
  <2> QED
    BY <1>9, <2>1, <2>2
<1>11. \A i \in 1..Len(stack') : stack'[i] < current'
  BY <1>1, <1>2, <1>9, InvariantNow
<1>12. pc' \in {"visit", "visited"} =>
         /\ current' \in 1..Len(records')
         /\ Split(current') = Len(records')
         /\ LastOf(current') = within
         /\ \A i \in 1..Len(stack') : stack'[i] < current'
  BY <1>1, <1>5, <1>6, <1>8, <1>11
<1>13. ~linked_list_compat'
  BY <1>1 DEF RoundTripInv, ListSoFar
<1>14. Len(records') <= Count /\ \A i \in 1..Len(records') : records'[i] = Offset(i)
  BY <1>1 DEF RoundTripInv, ReadInOrder
<1>15. InOrder'
  BY <1>1, OrderStays DEF RoundTripInv
<1>16. pc' \notin {"read", "done", "failed"} /\ table' = table
  BY <1>1
<1>17. within = IF stack' = << >> THEN Count ELSE Split(stack'[Len(stack')])
  BY DEF within
<1> QED
  BY <1>10, <1>12, <1>13, <1>14, <1>15, <1>16, <1>17, InvariantNext

\* A walk ends when all has been read.
LEMMA RoundTripFinish ==
    ASSUME IInv, RoundTripInv, directory' = directory, Finish("done"),
           stack = << >>, Len(records) = Count
    PROVE  RoundTripInv'
<1>1. /\ pc' = "done"
      /\ UNCHANGED <<table, position, link_bytes, records, stack, current, visited,
                     linked_list_compat, position_after_entry>>
  BY DEF Finish
<1>2. /\ \A i \in 1..Len(stack') :
            LastOf(stack'[i]) = IF i = 1 THEN Count ELSE Split(stack'[i - 1])
      /\ \A i, j \in 1..Len(stack') :
            i < j => stack'[i] < stack'[j] /\ Split(stack'[j]) <= Split(stack'[i])
      /\ Within = IF stack' = << >> THEN Count ELSE Split(stack'[Len(stack')])
  BY <1>1, StackStays
<1>3. Len(records') <= Count /\ \A i \in 1..Len(records') : records'[i] = Offset(i)
  BY <1>1 DEF RoundTripInv, ReadInOrder
<1>4. InOrder'
  BY <1>1, OrderStays DEF RoundTripInv
<1>5. /\ pc' \notin {"read", "visit", "visited", "failed"} /\ table' = table
      /\ stack' = << >> /\ Len(records') = Count
  BY <1>1
<1> QED
  BY <1>2, <1>3, <1>4, <1>5, InvariantNext

LEMMA RoundTripNextKeepsInv ==
    ASSUME IInv, RoundTripInv, LinksAreWithinReach, [RoundTripNext]_<<vars, directory>>
    PROVE  IInv' /\ RoundTripInv'
<1>1. [Next]_vars /\ directory' = directory
  BY DEF RoundTripNext, Next
<1>2. IInv'
  BY <1>1, InvNext
<1>3. Count \in Nat /\ Len(records) \in Nat
  BY InvariantNow
<1>4. CASE EmptyDirectory
  <2>1. ~(Count > 0)
    BY <1>4, AtNextEntry DEF EmptyDirectory
  <2>2. stack = << >> /\ Len(records) = Count
    BY <1>4, <2>1, AtNoEntry DEF EmptyDirectory
  <2> QED
    BY <1>1, <1>2, <1>4, <2>2, RoundTripFinish DEF EmptyDirectory
<1>5. ASSUME SkipPadding \/ PaddingTooLong
      PROVE  FALSE
  <2>1. pc = "read" /\ IsPaddingAt(position) /\ (link_bytes # 0 \/ stack # << >>)
    BY <1>5 DEF SkipPadding, PaddingTooLong
  <2> QED
    BY <2>1, AtNextEntry, AtNoEntry
<1>6. ASSUME ReadFails
      PROVE  FALSE
  BY <1>6, AtNextEntry, AtNoEntry DEF ReadFails
<1>7. ASSUME TooManyRecords
      PROVE  FALSE
  <2>1. pc = "read" /\ IsEntryAt(position) /\ Len(records) >= MaxRecords
    BY <1>7 DEF TooManyRecords
  <2>2. MaxRecords \in Nat /\ Len(records) < MaxRecords
    BY <2>1, AtNextEntry, AtNoEntry, WalkAssumption
  <2> QED
    BY <1>3, <2>1, <2>2
<1>8. CASE Return
  <2>1. pc = "visited" /\ Right = 0 /\ stack = << >> /\ Finish("done")
    BY <1>8 DEF Return
  <2>2. /\ current \in 1..Count /\ Split(current) = Len(records) /\ LastOf(current) = Within
        /\ Right = WrittenEntry(current).right
    BY <2>1, RightOfCurrent
  <2>3. LastOf(current) = Split(current)
    BY <2>1, <2>2, WrittenLinks DEF RoundTripInv
  <2>4. Len(records) = Count
    BY <2>1, <2>2, <2>3 DEF Within
  <2> QED
    BY <1>1, <1>2, <2>1, <2>4, RoundTripFinish
<1>9. CASE UNCHANGED <<vars, directory>>
  <2>1. UNCHANGED <<table, position, link_bytes, records, stack, current, visited,
                    linked_list_compat, position_after_entry, pc, directory>>
    BY <1>9 DEF vars
  <2>2. DirectoryIsSound' /\ ReadInOrder' /\ WaitingChain'
    BY <2>1 DEF RoundTripInv, DirectoryIsSound, ReadInOrder, WaitingChain, Count, Split, LastOf,
       Offset
  <2>3. BeforeRead' /\ AtEntry'
    BY <2>1 DEF RoundTripInv, BeforeRead, AtEntry, Within, Count, Split, LastOf, Offset
  <2>4. ListSoFar' /\ InOrder' /\ EndsWell'
    BY <2>1, OrderStays DEF RoundTripInv, ListSoFar, EndsWell, Count, Offset
  <2> QED
    BY <1>2, <2>2, <2>3, <2>4 DEF RoundTripInv
<1> QED
  BY <1>1, <1>2, <1>4, <1>5, <1>6, <1>7, <1>8, <1>9, RoundTripDescendLeft, RoundTripReadLeaf,
     RoundTripVisit, RoundTripDescendRight, RoundTripAscend DEF RoundTripNext, Step

\* The invariant, for tables of any size with room for every link.
LEMMA RoundTripInvariant ==
    ASSUME LinksAreWithinReach
    PROVE  RoundTripSpec => [](IInv /\ RoundTripInv)
<1>1. RoundTripInit => IInv /\ RoundTripInv
  BY RoundTripStarts
<1>2. IInv /\ RoundTripInv /\ [RoundTripNext]_<<vars, directory>> => (IInv /\ RoundTripInv)'
  BY RoundTripNextKeepsInv
<1> QED
  BY <1>1, <1>2, PTL DEF RoundTripSpec

\* The reader takes no table for corrupt that layout_directory and write_tree make,
\* of any tree of entries and any names, whatever the flag for linked lists is.
THEOREM WrittenTablesCanBeRead ==
    ASSUME LinksAreWithinReach
    PROVE  RoundTripSpec => []WrittenTablesAreSound
<1>1. IInv /\ RoundTripInv => WrittenTablesAreSound
  BY DEF RoundTripInv, EndsWell, WrittenTablesAreSound
<1> QED
  BY <1>1, RoundTripInvariant, PTL

\* on_read gets the entries in the order of the layout, each at its place.
THEOREM LayoutIsReadBack ==
    ASSUME LinksAreWithinReach
    PROVE  RoundTripSpec => []EntriesAreReadInLayoutOrder
<1>1. ASSUME IInv, RoundTripInv, pc = "done"
      PROVE  records = Offsets(directory.names)
  <2>1. /\ Len(records) = Count /\ \A i \in 1..Len(records) : records[i] = Offset(i)
        /\ directory.names \in Names
    BY <1>1 DEF RoundTripInv, EndsWell, ReadInOrder, DirectoryIsSound
  <2>2. /\ Count \in Nat /\ records \in Seq(Nat)
    BY <1>1, InvariantNow DEF IInv, TypeOK
  <2>3. records = [i \in 1..Count |-> Offset(i)]
    BY <2>1, <2>2
  <2>4. Offsets(directory.names) = [i \in 1..Count |-> Offset(i)]
    BY OffsetsOfSizes DEF Offset, At, Count
  <2> QED
    BY <2>3, <2>4
<1>2. IInv /\ RoundTripInv => EntriesAreReadInLayoutOrder
  BY <1>1 DEF EntriesAreReadInLayoutOrder
<1> QED
  BY <1>2, RoundTripInvariant, PTL

\* on_visit gets all entries, each once, in the order of their names.
THEOREM NamesAreVisitedInOrder ==
    ASSUME LinksAreWithinReach
    PROVE  RoundTripSpec => []EntriesAreVisitedInNameOrder
<1>1. ASSUME IInv, RoundTripInv, pc = "done"
      PROVE  /\ Visited = 1..Len(directory.names)
             /\ \A i, j \in 1..Len(visited) :
                   i < j => /\ visited[i] # visited[j]
                            /\ NameBefore(directory.node, visited[i], visited[j])
  <2>1. stack = << >> /\ Len(records) = Count
    BY <1>1 DEF RoundTripInv, EndsWell
  <2>2. Waiting = {}
    BY <2>1 DEF Waiting
  <2>3. Visited = 1..Len(directory.names)
    BY <1>1, <2>1, <2>2 DEF IInv, EachOnce, Count
  <2>4. Len(visited) \in Nat
    BY <1>1, InvariantNow
  <2>5. \A i, j \in 1..Len(visited) : i < j => visited[i] # visited[j]
    BY <1>1, <2>4 DEF IInv, EachOnce
  <2> QED
    BY <1>1, <2>3, <2>5 DEF RoundTripInv, InOrder
<1>2. IInv /\ RoundTripInv => EntriesAreVisitedInNameOrder
  BY <1>1 DEF EntriesAreVisitedInNameOrder
<1> QED
  BY <1>2, RoundTripInvariant, PTL
===============================================================================
