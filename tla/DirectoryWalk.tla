----------------------------- MODULE DirectoryWalk ----------------------------
(* How one directory table is read: ImageReader::walk_directory                 *)
(* (include/xiso/image_reader.hpp), for any table that may be on the disc.      *)
(* Positions are bytes from the start of the table.                             *)
EXTENDS XisoFormat, Sequences

CONSTANTS
    TableDwords,    \* how much there is to read from the start of a table
    Tables,         \* the tables that may be met
    MaxRecords,     \* max_records_per_table
    Elsewhere,      \* a file position that is not in the table
    CallbacksThrow  \* whether on_read and on_visit may throw

\* What is found at a dword: the start of an entry, padding, or what is no entry
\* (an unusable name, or a read error behind the end of the image).
Slot == [kind : {"entry"}, left : 0..(MaxLink - 1), right : 0..MaxLink, name : 1..MaxNameLength]
            \cup [kind : {"padding", "bad"}]

ASSUME WalkAssumption ==
    /\ TableDwords \in Nat
    /\ Tables \subseteq [0..(TableDwords - 1) -> Slot]
    /\ MaxRecords \in Nat
    /\ Elsewhere \in Int \ Nat
    /\ CallbacksThrow \in BOOLEAN

VARIABLES
    table,          \* table[d]: what starts at dword d, an error behind the last
    position,       \* where the next read starts; on_visit uses the same file
    link_bytes,     \* table offset of the entry that is read next
    records,        \* offset of each entry read, in that order: calls of on_read
    stack,          \* the entries, by their index in records, still to be visited
    current,        \* the entry to visit next
    visited,        \* the entries visited, in that order: calls of on_visit
    linked_list_compat,
    position_after_entry,
    pc              \* "read" | "visit" | "done" | "failed"

vars == <<table, position, link_bytes, records, stack, current, visited,
          linked_list_compat, position_after_entry, pc>>

\* The walk begins at the start of the table.
Start ==
    /\ position = 0
    /\ link_bytes = 0
    /\ records = << >>
    /\ stack = << >>
    /\ current = 0
    /\ visited = << >>
    /\ linked_list_compat \in BOOLEAN
    /\ position_after_entry = 0
    /\ pc = "read"

Init ==
    /\ table \in Tables
    /\ Start

-------------------------------------------------------------------------------
IsEntryAt(offset) ==
    offset \div DwordSize \in DOMAIN table /\ table[offset \div DwordSize].kind = "entry"

IsPaddingAt(offset) ==
    offset \div DwordSize \in DOMAIN table /\ table[offset \div DwordSize].kind = "padding"

EntryAt(offset) == table[offset \div DwordSize]

\* Mistake: the position is taken to be where the link points already.
FollowWithoutSeek(bytes) == link_bytes' = bytes /\ position' = position

\* The reader seeks to a link before it reads there.
Follow(bytes) == link_bytes' = bytes /\ position' = bytes

Finish(result) ==
    /\ pc' = result
    /\ UNCHANGED <<table, position, link_bytes, records, stack, current, visited,
                   linked_list_compat, position_after_entry>>

\* Mistake: at a boundary the next sector is taken to be this one.
SectorAtOrBehind == link_bytes + PaddingFor(link_bytes, SectorSize)

NextSector == (link_bytes + SectorSize) - (link_bytes % SectorSize)

EmptyDirectory ==
    /\ pc = "read"
    /\ IsPaddingAt(position)
    /\ link_bytes = 0 /\ stack = << >>
    /\ Finish("done")

SkipPadding ==
    /\ pc = "read"
    /\ IsPaddingAt(position)
    /\ link_bytes # 0 \/ stack # << >>
    /\ NextSector <= MaxTableSpan
    /\ Follow(NextSector)
    /\ UNCHANGED <<table, records, stack, current, visited, linked_list_compat,
                   position_after_entry, pc>>

PaddingTooLong ==
    /\ pc = "read"
    /\ IsPaddingAt(position)
    /\ link_bytes # 0 \/ stack # << >>
    /\ NextSector > MaxTableSpan
    /\ Finish("failed")

TooManyRecords ==
    /\ pc = "read"
    /\ IsEntryAt(position)
    /\ Len(records) >= MaxRecords
    /\ Finish("failed")

ReadFails ==
    /\ pc = "read"
    /\ ~IsPaddingAt(position) /\ ~IsEntryAt(position)
    /\ Finish("failed")

\* Mistake: on_read is not called for the entry.
ReadUnseen ==
    /\ pc = "read"
    /\ IsEntryAt(position)
    /\ Len(records) < MaxRecords
    /\ records' = records

ReadRecord ==
    /\ pc = "read"
    /\ IsEntryAt(position)
    /\ Len(records) < MaxRecords
    /\ records' = Append(records, position)

\* Mistake: the entry does not wait on the stack.
DescendLeftWithoutPush ==
    /\ ReadRecord
    /\ EntryAt(position).left # 0
    /\ linked_list_compat' = FALSE
    /\ Follow(EntryAt(position).left * DwordSize)
    /\ UNCHANGED <<table, stack, current, visited, position_after_entry, pc>>

\* The left subtree comes first; the entry waits on the stack.
DescendLeft ==
    /\ ReadRecord
    /\ EntryAt(position).left # 0
    /\ linked_list_compat' = FALSE
    /\ Follow(EntryAt(position).left * DwordSize)
    /\ stack' = Append(stack, Len(records) + 1)
    /\ UNCHANGED <<table, current, visited, position_after_entry, pc>>

ReadLeaf ==
    /\ ReadRecord
    /\ EntryAt(position).left = 0
    /\ LET end == position + EntryHeaderSize + EntryAt(position).name
       IN  /\ position' = end
           /\ position_after_entry' = IF linked_list_compat THEN end ELSE 0
    /\ current' = Len(records) + 1
    /\ pc' = "visit"
    /\ UNCHANGED <<table, link_bytes, stack, visited, linked_list_compat>>

\* on_visit may descend into a directory or copy a file, and moves the position.
Visit ==
    /\ pc = "visit"
    /\ visited' = Append(visited, current)
    /\ position' \in {position, Elsewhere}
    /\ pc' = "visited"
    /\ UNCHANGED <<table, link_bytes, records, stack, current, linked_list_compat,
                   position_after_entry>>

\* Mistake: the sector is that of the position on_visit has left.
RightLinkFromPosition(right) ==
    LET sector == position \div SectorSize
    IN  IF linked_list_compat /\ (right * DwordSize) \div SectorSize > sector
        THEN (sector + 1) * SectorSize
        ELSE right * DwordSize

\* In a table written as a linked list, a link that leaves the sector means the
\* start of the sector behind it.
RightLink(right) ==
    LET sector == position_after_entry \div SectorSize
    IN  IF linked_list_compat /\ (right * DwordSize) \div SectorSize > sector
        THEN (sector + 1) * SectorSize
        ELSE right * DwordSize

Right == EntryAt(records[current]).right

DescendRight ==
    /\ pc = "visited"
    /\ Right # 0
    /\ Follow(RightLink(Right))
    /\ pc' = "read"
    /\ UNCHANGED <<table, records, stack, current, visited, linked_list_compat,
                   position_after_entry>>

\* Mistake: the entry stays on the stack.
AscendWithoutPop ==
    /\ pc = "visited"
    /\ Right = 0
    /\ stack # << >>
    /\ current' = stack[Len(stack)]
    /\ pc' = "visit"
    /\ UNCHANGED <<table, position, link_bytes, records, stack, visited, linked_list_compat,
                   position_after_entry>>

Ascend ==
    /\ pc = "visited"
    /\ Right = 0
    /\ stack # << >>
    /\ current' = stack[Len(stack)]
    /\ stack' = SubSeq(stack, 1, Len(stack) - 1)
    /\ pc' = "visit"
    /\ UNCHANGED <<table, position, link_bytes, records, visited, linked_list_compat,
                   position_after_entry>>

Return ==
    /\ pc = "visited"
    /\ Right = 0
    /\ stack = << >>
    /\ Finish("done")

\* What on_read and on_visit throw ends the walk.
CallbackThrows ==
    /\ CallbacksThrow
    /\ pc \in {"read", "visit"}
    /\ pc = "read" => IsEntryAt(position) /\ Len(records) < MaxRecords
    /\ Finish("failed")

Step ==
    \/ EmptyDirectory \/ SkipPadding \/ PaddingTooLong
    \/ ReadFails \/ TooManyRecords
    \/ DescendLeft \/ ReadLeaf
    \/ Visit
    \/ DescendRight \/ Ascend \/ Return

Next == Step \/ CallbackThrows

\* One thread walks, and nothing makes it wait.  No callback has to throw: the
\* walk ends without that.
Spec == Init /\ [][Next]_vars /\ WF_vars(Step)

-------------------------------------------------------------------------------
TypeOK ==
    /\ table \in [0..(TableDwords - 1) -> Slot]
    /\ position \in Nat \cup {Elsewhere}
    /\ link_bytes \in Nat
    /\ records \in Seq(Nat)
    /\ stack \in Seq(1..Len(records))
    /\ current \in 0..Len(records)
    /\ visited \in Seq(1..Len(records))
    /\ linked_list_compat \in BOOLEAN
    /\ position_after_entry \in Nat
    /\ pc \in {"read", "visit", "visited", "done", "failed"}

Waiting == {stack[i] : i \in 1..Len(stack)}
Visited == {visited[i] : i \in 1..Len(visited)}

\* However the links of the table run, on_visit is called once for each call of
\* on_read that was made, with the entry it was made for, before the walk
\* returns: list and extract see every entry, and none twice.
EachRecordIsVisitedOnce ==
    /\ \A i, j \in 1..Len(visited) : visited[i] = visited[j] => i = j
    /\ pc = "done" => Visited = 1..Len(records)

\* The read that follows a descent is made where the link points, wherever
\* on_visit has left the file position, and never behind what a link can reach.
ReadsFollowLinks ==
    pc = "read" => position = link_bytes /\ position <= MaxTableSpan

\* A damaged table, one whose links run in circles too, ends the walk: with an
\* error after MaxRecords entries at the latest.
WalkEnds == <>(pc \in {"done", "failed"})
===============================================================================
