----------------------------- MODULE TableLayout ------------------------------
(* How one directory table gets its shape and its bytes (src/image_writer.cpp). *)
(* layout_directory visits the entries parent first and gives each its place;   *)
(* after the files of the directory have been copied, write_entry visits them   *)
(* again in the same order and writes them, filling the gaps with padding.      *)
(* Which names the directory holds is open: each visit takes any length.        *)
EXTENDS XisoFormat, Sequences

CONSTANT NameLengths        \* lengths of the names that may occur

ASSUME NameLengthsAssumption == NameLengths \subseteq Nat \ {0}

VARIABLES
    pc,         \* "layout" | "write" | "done" | "failed" | "out_of_order"
    size,       \* bytes of the table so far; entry.size of the directory at last
    entries,    \* the entries placed, in visiting order: where each starts and
                \* the length of its name
    written,    \* how many of them have been written
    position    \* file position, from the start of the table

vars == <<pc, size, entries, written, position>>

Entry == [offset : Nat, name : NameLengths]

Init ==
    /\ pc = "layout"
    /\ size = 0
    /\ entries = << >>
    /\ written = 0
    /\ position = 0

-------------------------------------------------------------------------------
(* The first visit, layout_directory. *)

Fits(n) == /\ n <= MaxNameLength
           /\ EntryOffset(size, EntryLength(n)) <= MaxTableSize

\* Mistake: the gap in front of the entry is not counted.
PlaceEntryForgettingGap(n) ==
    /\ pc = "layout"
    /\ Fits(n)
    /\ entries' = Append(entries, [offset |-> EntryOffset(size, EntryLength(n)), name |-> n])
    /\ size' = size + EntryLength(n)
    /\ UNCHANGED <<pc, written, position>>

\* Mistake: the rounded length is taken for that of the name.
PlaceEntryRounded(n) ==
    /\ pc = "layout"
    /\ Fits(n)
    /\ LET offset == EntryOffset(size, EntryLength(n))
       IN  /\ entries' = Append(entries, [offset |-> offset, name |-> EntryLength(n)])
           /\ size' = offset + EntryLength(n)
    /\ UNCHANGED <<pc, written, position>>

PlaceEntry(n) ==
    /\ pc = "layout"
    /\ Fits(n)
    /\ LET offset == EntryOffset(size, EntryLength(n))
       IN  /\ entries' = Append(entries, [offset |-> offset, name |-> n])
           /\ size' = offset + EntryLength(n)
    /\ UNCHANGED <<pc, written, position>>

\* The name is too long, or the directory has too many entries.
RejectEntry(n) ==
    /\ pc = "layout"
    /\ ~Fits(n)
    /\ pc' = "failed"
    /\ UNCHANGED <<size, entries, written, position>>

\* A directory without entries takes one sector of padding.
FinishLayout ==
    /\ pc = "layout"
    /\ pc' = "write"
    /\ size' = IF entries = << >> THEN SectorSize ELSE size
    /\ UNCHANGED <<entries, written, position>>

-------------------------------------------------------------------------------
(* The second visit, the end of write_tree. *)

\* Padding up to the place of the entry, then its header and name.  Writing
\* backwards is refused: "internal error: directory entries out of order".
WriteEntry ==
    /\ pc = "write"
    /\ written < Len(entries)
    /\ LET entry == entries[written + 1]
       IN  IF entry.offset < position
           THEN /\ pc' = "out_of_order"
                /\ UNCHANGED <<written, position>>
           ELSE /\ position' = entry.offset + EntryHeaderSize + entry.name
                /\ written' = written + 1
                /\ UNCHANGED pc
    /\ UNCHANGED <<size, entries>>

\* Mistake: the table ends with its last name.
FinishTableUnpadded ==
    /\ pc = "write"
    /\ written = Len(entries)
    /\ pc' = "done"
    /\ UNCHANGED <<size, entries, written, position>>

\* The rest of the last sector is padding.
FinishTable ==
    /\ pc = "write"
    /\ written = Len(entries)
    /\ pc' = "done"
    /\ position' = IF entries = << >>
                   THEN SectorSize
                   ELSE position + PaddingFor(position, SectorSize)
    /\ UNCHANGED <<size, entries, written>>

Next ==
    \/ \E n \in NameLengths : PlaceEntry(n) \/ RejectEntry(n)
    \/ FinishLayout
    \/ WriteEntry
    \/ FinishTable

Spec == Init /\ [][Next]_vars

-------------------------------------------------------------------------------
TypeOK ==
    /\ pc \in {"layout", "write", "done", "failed", "out_of_order"}
    /\ size \in Nat
    /\ entries \in Seq(Entry)
    /\ written \in 0..Len(entries)
    /\ position \in Nat

\* Sector of a table that byte b is in.
SectorOf(b) == b \div SectorSize

\* The reader skips to the next sector when it meets padding, so an entry must
\* not reach across a boundary: its first and its last byte share a sector.
NoEntryStraddles ==
    \A i \in 1..Len(entries) :
        SectorOf(entries[i].offset)
          = SectorOf(entries[i].offset + EntryHeaderSize + entries[i].name - 1)

\* A link to an entry reads back as a link to it: a whole number of dwords that
\* fits in the field, is not the padding marker and, for every entry but the
\* root of the tree, is not the 0 that means "no child".
LinksUnambiguous ==
    \A i \in 1..Len(entries) :
        /\ entries[i].offset % DwordSize = 0
        /\ entries[i].offset \div DwordSize < PaddingMarker
        /\ i > 1 => entries[i].offset \div DwordSize > 0

\* The second visit agrees with the first: the internal error never happens.
WriterFollowsLayout == pc # "out_of_order"

\* The bytes written are exactly the sectors that assign_sectors reserves for
\* the table from its size, so the table cannot run into the file behind it.
TableFillsItsSectors ==
    pc = "done" => position = SectorsFor(size) * SectorSize
===============================================================================
