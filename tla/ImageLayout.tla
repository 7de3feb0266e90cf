----------------------------- MODULE ImageLayout ------------------------------
(* How a whole image gets its sectors and its contents: ImageWriter::write      *)
(* (src/image_writer.cpp) from assign_sectors to the optimized tag.  The tables *)
(* themselves are laid out by module TableLayout, the files copied by FileCopy; *)
(* here a table or a file is a number of bytes that fills whole sectors.        *)
(*                                                                              *)
(* The tree is the sequence of its items in the order in which both recursions, *)
(* assign_sectors and write_tree, come to them: a directory, then its files,    *)
(* then its subdirectories one after the other, each with all that is in it.    *)
EXTENDS XisoFormat, Sequences

CONSTANTS RootSector,       \* root_directory_sector
          SectorLimit,      \* 2^32: sectors are stored in 32 bits
          FileModulus,      \* file_modulus, in sectors
          Trees             \* the trees that are written

Item == [is_directory : BOOLEAN, parent : Nat, size : Nat]

\* The root comes first and alone has no parent.  A file belongs to the last
\* directory before it, whose files are not interrupted by subdirectories.  What
\* follows something outside of a directory is not inside of it any more.  The
\* size of a directory is that of its table; without entries it is a sector.
IsTree(items) ==
    /\ items \in Seq(Item)
    /\ Len(items) > 0
    /\ items[1].is_directory /\ items[1].parent = 0
    /\ \A i \in 2..Len(items) :
          /\ items[i].parent \in 1..(i - 1)
          /\ items[items[i].parent].is_directory
          /\ ~items[i].is_directory => items[i].parent = IF items[i - 1].is_directory
                                                         THEN i - 1
                                                         ELSE items[i - 1].parent
    /\ \A i, j, k \in 1..Len(items) :
          i < j /\ j < k /\ items[j].parent < i => items[k].parent \notin i..(j - 1)
    /\ \A d \in 1..Len(items) : items[d].is_directory =>
          IF \E i \in 1..Len(items) : items[i].parent = d
          THEN items[d].size > 0
          ELSE items[d].size = SectorSize

ASSUME LayoutAssumption ==
    /\ RootSector \in Nat
    /\ SectorLimit \in Nat
    /\ RootSector < SectorLimit
    /\ FileModulus \in Nat \ {0}
    /\ \A items \in Trees : IsTree(items)

VARIABLES
    items,          \* the tree, with the sizes the layout starts from
    pc,             \* the call that write makes next, "done" or "failed"
    next_sector,    \* the first sector that has not been handed out
    starts,         \* start_sector of each item that has one
    sizes,          \* size of each item; that of a file is final once copied
    visiting,       \* the item that write_tree comes to next
    open,           \* the directories write_tree is in, outermost first
    image,          \* what is in each sector from the root table on
    descriptor,     \* the root's sector and size as stored, once they are
    length,         \* sectors of the output
    space_size,     \* the image size in the volume descriptor
    tagged          \* whether the output carries the optimized tag

vars == <<items, pc, next_sector, starts, sizes, visiting, open, image, descriptor,
          length, space_size, tagged>>

Sector == RootSector..(SectorLimit - 1)

Nothing == [kind |-> "nothing"]
NoRoot == [start |-> 0, size |-> 0]

Init ==
    /\ items \in Trees
    /\ pc = "assign"
    /\ next_sector = RootSector
    /\ starts = << >>
    /\ sizes = [i \in 1..Len(items) |-> items[i].size]
    /\ visiting = 1
    /\ open = << >>
    /\ image = [s \in Sector |-> Nothing]
    /\ descriptor = NoRoot
    /\ length = 0
    /\ space_size = 0
    /\ tagged = FALSE

Items == 1..Len(items)
Children(d) == {i \in Items : items[i].parent = d}
IsEmpty(d) == Children(d) = {}

\* Mistake: the number is stored as it is.
Untruncated(sector) == sector

\* A sector number as it is stored.
Truncated(sector) == sector % SectorLimit

-------------------------------------------------------------------------------
(* assign_sectors *)

\* Mistake: a last sector that is not full is not counted.
AssignFullSectors ==
    /\ pc = "assign"
    /\ Len(starts) < Len(items)
    /\ starts' = Append(starts, Truncated(next_sector))
    /\ next_sector' = next_sector + items[Len(starts) + 1].size \div SectorSize
    /\ UNCHANGED <<items, pc, sizes, visiting, open, image, descriptor, length, space_size, tagged>>

AssignSectors ==
    /\ pc = "assign"
    /\ Len(starts) < Len(items)
    /\ starts' = Append(starts, Truncated(next_sector))
    /\ next_sector' = next_sector + SectorsFor(items[Len(starts) + 1].size)
    /\ UNCHANGED <<items, pc, sizes, visiting, open, image, descriptor, length, space_size, tagged>>

\* Mistake: the number is looked at after it has been stored.
StartTooLarge == ~IsEmpty(1) /\ starts[Len(starts)] >= SectorLimit

\* Only a directory with entries looks at what it has handed out; the root does
\* so last.
TooLarge == ~IsEmpty(1) /\ next_sector >= SectorLimit

ImageIsTooLarge ==
    /\ pc = "assign"
    /\ Len(starts) = Len(items)
    /\ TooLarge
    /\ pc' = "failed"
    /\ UNCHANGED <<items, next_sector, starts, sizes, visiting, open, image, descriptor, length,
                   space_size, tagged>>

-------------------------------------------------------------------------------
(* write_descriptor.  Everything up to the root directory is zero. *)

WriteDescriptor ==
    /\ pc = "assign"
    /\ Len(starts) = Len(items)
    /\ ~TooLarge
    /\ pc' = "tree"
    /\ descriptor' = [start |-> starts[1], size |-> sizes[1]]
    /\ length' = starts[1]
    /\ UNCHANGED <<items, next_sector, starts, sizes, visiting, open, image, space_size, tagged>>

-------------------------------------------------------------------------------
(* write_tree *)

\* The sectors from start on that hold bytes.
Extent(start, bytes) == start..(start + SectorsFor(bytes) - 1)

\* Writes content to a number of sectors; the output grows if it has to.
Write(start, bytes, content) ==
    /\ image' = [s \in Sector |-> IF s \in Extent(start, bytes) THEN content ELSE image[s]]
    /\ length' = IF bytes > 0 /\ start + SectorsFor(bytes) > length
                 THEN start + SectorsFor(bytes)
                 ELSE length

Innermost == open[Len(open)]

EnterDirectory ==
    /\ pc = "tree"
    /\ visiting \in Items
    /\ items[visiting].is_directory
    /\ IF open = << >> THEN visiting = 1 ELSE items[visiting].parent = Innermost
    /\ open' = Append(open, visiting)
    /\ visiting' = visiting + 1
    /\ UNCHANGED <<items, pc, next_sector, starts, sizes, image, descriptor, length, space_size,
                   tagged>>

\* The file may have shrunk since its size was taken.
CopyFile ==
    /\ pc = "tree"
    /\ visiting \in Items
    /\ ~items[visiting].is_directory
    /\ \E size \in 0..items[visiting].size :
          /\ Write(starts[visiting], size, [kind |-> "file", item |-> visiting])
          /\ sizes' = [sizes EXCEPT ![visiting] = size]
    /\ visiting' = visiting + 1
    /\ UNCHANGED <<items, pc, next_sector, starts, open, descriptor, space_size, tagged>>

\* Mistake: the size is the one the layout started from.
RecordAsReported(i) ==
    [start |-> starts[i],
     size  |-> IF items[i].is_directory THEN sizes[i] + PaddingFor(sizes[i], SectorSize)
                                        ELSE items[i].size]

\* What write_entry stores of item i.  The size of a directory is rounded up.
Record(i) ==
    [start |-> starts[i],
     size  |-> IF items[i].is_directory THEN sizes[i] + PaddingFor(sizes[i], SectorSize)
                                        ELSE sizes[i]]

Table(d) == [kind |-> "table", item |-> d, records |-> [i \in Children(d) |-> Record(i)]]

\* Nothing of the directory is left to be visited: its table goes last.
WriteTable ==
    /\ pc = "tree"
    /\ open # << >>
    /\ visiting \notin Children(Innermost)
    /\ Write(starts[Innermost], sizes[Innermost], Table(Innermost))
    /\ open' = SubSeq(open, 1, Len(open) - 1)
    /\ UNCHANGED <<items, pc, next_sector, starts, sizes, visiting, descriptor, space_size, tagged>>

-------------------------------------------------------------------------------
(* The rest of write. *)

PadImage ==
    /\ pc = "tree"
    /\ visiting > Len(items)
    /\ open = << >>
    /\ length' = length + PaddingFor(length, FileModulus)
    /\ pc' = "volume"
    /\ UNCHANGED <<items, next_sector, starts, sizes, visiting, open, image, descriptor, space_size,
                   tagged>>

WriteVolumeDescriptors ==
    /\ pc = "volume"
    /\ space_size' = Truncated(length)
    /\ pc' = "tag"
    /\ UNCHANGED <<items, next_sector, starts, sizes, visiting, open, image, descriptor, length,
                   tagged>>

WriteOptimizedTag ==
    /\ pc = "tag"
    /\ tagged' = TRUE
    /\ pc' = "close"
    /\ UNCHANGED <<items, next_sector, starts, sizes, visiting, open, image, descriptor, length,
                   space_size>>

Close ==
    /\ pc = "close"
    /\ pc' = "done"
    /\ UNCHANGED <<items, next_sector, starts, sizes, visiting, open, image, descriptor, length,
                   space_size, tagged>>

\* A read or a write fails, or the program is killed.
Fail ==
    /\ pc \in {"assign", "tree", "volume", "tag", "close"}
    /\ pc' = "failed"
    /\ UNCHANGED <<items, next_sector, starts, sizes, visiting, open, image, descriptor, length,
                   space_size, tagged>>

Next ==
    \/ AssignSectors \/ ImageIsTooLarge
    \/ WriteDescriptor
    \/ EnterDirectory \/ CopyFile \/ WriteTable
    \/ PadImage \/ WriteVolumeDescriptors \/ WriteOptimizedTag \/ Close
    \/ Fail

Spec == Init /\ [][Next]_vars

-------------------------------------------------------------------------------
TypeOK ==
    /\ IsTree(items)
    /\ pc \in {"assign", "tree", "volume", "tag", "close", "done", "failed"}
    /\ next_sector \in Nat
    /\ starts \in Seq(0..(SectorLimit - 1))
    /\ Len(starts) <= Len(items)
    /\ sizes \in [Items -> Nat]
    /\ visiting \in 1..(Len(items) + 1)
    /\ open \in Seq(Items)
    /\ DOMAIN image = Sector
    /\ descriptor \in [start : Nat, size : Nat]
    /\ length \in Nat
    /\ space_size \in 0..(SectorLimit - 1)
    /\ tagged \in BOOLEAN

\* Once anything is written, no sector number has lost bits on its way into 32
\* of them, although they are handed out first and looked at later: the items
\* follow each other from the root on, and no two share a sector.
SectorsAreNotShared ==
    pc # "assign" /\ pc # "failed" =>
        /\ starts[1] = RootSector
        /\ \A i, j \in Items : i < j => starts[i] + SectorsFor(items[i].size) <= starts[j]
        /\ \A i \in Items : starts[i] + SectorsFor(items[i].size) <= SectorLimit

\* What has been written to a sector of a file or a table stays there.
NothingIsOverwritten ==
    [][\A s \in Sector : image[s] # Nothing => image'[s] = image[s]]_vars

\* The tag is a promise: rewrite_image skips an image that carries it.  Whenever
\* the writer fails or is killed, an image with the tag is whole: from the root
\* on, every table is in its sectors and says where its files and directories
\* are and how much of each file there is, and that much of the file is there.
\* The size in the volume descriptor is right unless it takes 33 bits.
TaggedImagesAreWhole ==
    tagged =>
        /\ descriptor = [start |-> starts[1], size |-> items[1].size]
        /\ \A d \in Items : items[d].is_directory =>
              \A s \in Extent(starts[d], items[d].size) :
                  /\ image[s].kind = "table" /\ image[s].item = d
                  /\ \A i \in Children(d) :
                        /\ image[s].records[i].start = starts[i]
                        /\ SectorsFor(image[s].records[i].size) <= SectorsFor(items[i].size)
                        /\ ~items[i].is_directory =>
                              {t \in Sector : image[t] = [kind |-> "file", item |-> i]}
                                = Extent(starts[i], image[s].records[i].size)
        /\ \A s \in Sector : image[s] # Nothing => s < length
        /\ length % FileModulus = 0
        /\ length < SectorLimit => space_size = length
===============================================================================
