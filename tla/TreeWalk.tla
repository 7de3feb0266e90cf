------------------------------- MODULE TreeWalk -------------------------------
(* How list_image, extract_image and rewrite_image go through an image          *)
(* (src/operations.cpp): the reader finds the volume, TreeWalker::walk or       *)
(* read_tree goes through its directories, one inside the other.                *)
(*                                                                              *)
(* The links of one table are the subject of module DirectoryWalk.  Here a      *)
(* table is what walk_directory makes of it: the records it hands to on_visit,  *)
(* in that order, and whether it then returns or throws.  What directories      *)
(* start where is arbitrary: tables may be shared, or be inside themselves.     *)
EXTENDS Integers, Sequences, FiniteSets, FiniteSetsExt, Functions

CONSTANTS MaxDepth,         \* max_directory_depth
          BufferSize,       \* extract_buffer_size
          SystemUpdate,     \* the names that contain system_update_folder
          Key,              \* Key[name]: names with the same key compare equal
          NoRoot            \* root sector 0 and root size 0

\* What is assumed of them where this module is instantiated.
TreeWalkAssumption ==
    /\ MaxDepth \in Nat
    /\ BufferSize \in Nat \ {0}
    /\ SystemUpdate \subseteq DOMAIN Key

VARIABLES
    image,          \* what is at each partition offset, in the order they are tried
    mode,           \* "list" | "extract" | "read" (read_tree)
    skip_system_update,
    partition,      \* the partition offset that was taken
    frames,         \* the tables being walked, outermost first
    seen,           \* what was listed, extracted or put into the tree, in order
    disk,           \* what extraction has made, by path
    copied,         \* bytes copied of the file being extracted
    statistics,
    pc              \* "open" | "walk" | "extract" and, at the end, "done",
                    \* "refused" (the image is no good) or "failed" (a call is)

vars == <<image, mode, skip_system_update, partition, frames, seen, disk, copied, statistics, pc>>
inputs == <<image, mode, skip_system_update>>

Modes == {"list", "extract", "read"}
Unreadable == [records |-> << >>, sound |-> FALSE]
Directory == [kind |-> "directory", size |-> 0, content |-> << >>]

\* Any image, mode and option, and nothing done yet.
Begin ==
    /\ partition = 0
    /\ frames = << >>
    /\ seen = << >>
    /\ disk = << >>
    /\ copied = 0
    /\ statistics = [files |-> 0, bytes |-> 0]
    /\ pc = "open"

End(result) ==
    /\ pc' = result
    /\ UNCHANGED <<inputs, partition, frames, seen, disk, copied, statistics>>

-------------------------------------------------------------------------------
(* ImageReader::ImageReader.  A partition has the magic before the root's place, *)
(* behind it as well, or not at all: its magic is 1, 2 or 0.                     *)

WithMagic == {i \in DOMAIN image : image[i].magic > 0}

NoMagic ==
    /\ pc = "open"
    /\ WithMagic = {}
    /\ End("refused")

SecondMagicMissing ==
    /\ pc = "open"
    /\ WithMagic # {}
    /\ image[Min(WithMagic)].magic = 1
    /\ End("refused")

NoFiles ==
    /\ pc = "open"
    /\ WithMagic # {}
    /\ image[Min(WithMagic)].magic = 2
    /\ image[Min(WithMagic)].root = NoRoot
    /\ End("done")

TableOf(volume, sector) ==
    IF sector \in DOMAIN volume.tables THEN volume.tables[sector] ELSE Unreadable

\* Mistake: sectors count from the beginning of the file.
TableInFile(sector) == TableOf(image[1], sector)

\* sector_offset: sectors count from the partition that was found.
TableAt(sector) == TableOf(image[partition], sector)

Frame(sector, path) == [sector |-> sector, path |-> path, next |-> 1]

\* Extraction makes its directory first.
OpenVolume ==
    /\ pc = "open"
    /\ WithMagic # {}
    /\ image[Min(WithMagic)].magic = 2
    /\ image[Min(WithMagic)].root # NoRoot
    /\ partition' = Min(WithMagic)
    /\ frames' = <<Frame(image[partition'].root, << >>)>>
    /\ disk' = IF mode = "extract" THEN [p \in {<< >>} |-> Directory] ELSE disk
    /\ pc' = "walk"
    /\ UNCHANGED <<inputs, seen, copied, statistics>>

-------------------------------------------------------------------------------
(* walk and read_tree.  The depth of a table is the number of tables it is in.  *)

Top == frames[Len(frames)]
Records == TableAt(Top.sector).records
HasNext == pc = "walk" /\ Top.next <= Len(Records)
Record == Records[Top.next]
Path == Append(Top.path, Record.name)
Passed == [frames EXCEPT ![Len(frames)].next = @ + 1]

Skipped(record) ==
    /\ skip_system_update /\ mode # "read"
    /\ record.is_directory /\ record.name \in SystemUpdate

\* Trees refuse a name they have; only read_tree makes one.  (It does so when an
\* entry is read, maybe before others are visited: the tree is given up anyway.)
IsDuplicate ==
    /\ mode = "read"
    /\ \E i \in DOMAIN seen :
          /\ Len(seen[i].path) = Len(Path)
          /\ SubSeq(seen[i].path, 1, Len(Top.path)) = Top.path
          /\ Key[seen[i].path[Len(Path)]] = Key[Record.name]

\* What a file or a directory cannot be made over is the other.
Taken(kind) == mode = "extract" /\ Path \in DOMAIN disk /\ disk[Path].kind # kind

With(entry) == [p \in DOMAIN disk \cup {Path} |-> IF p = Path THEN entry ELSE disk[p]]
See == seen' = Append(seen, [path |-> Path, record |-> Record])

SkipDirectory ==
    /\ HasNext
    /\ Skipped(Record)
    /\ frames' = Passed
    /\ UNCHANGED <<inputs, partition, seen, disk, copied, statistics, pc>>

\* Mistake: one table more than the limit is opened.
TooDeepByOne == Len(frames) > MaxDepth + 1

TooDeep == Len(frames) > MaxDepth

\* Only a directory that has a table is descended into.
VisitDirectory ==
    /\ HasNext
    /\ Record.is_directory
    /\ ~Skipped(Record) /\ ~IsDuplicate /\ ~Taken("directory")
    /\ See
    /\ disk' = IF mode = "extract" THEN With(Directory) ELSE disk
    /\ \/ /\ Record.size = 0
          /\ frames' = Passed
          /\ UNCHANGED pc
       \/ /\ Record.size > 0
          /\ ~TooDeep
          /\ frames' = Append(Passed, Frame(Record.start, Path))
          /\ UNCHANGED pc
       \/ /\ Record.size > 0
          /\ TooDeep
          /\ pc' = "refused"
          /\ UNCHANGED frames
    /\ UNCHANGED <<inputs, partition, copied, statistics>>

Count(bytes) == statistics' = [files |-> statistics.files + 1, bytes |-> statistics.bytes + bytes]

\* read_tree counts nothing: write_image does, as it copies.
VisitFile ==
    /\ HasNext
    /\ mode # "extract"
    /\ ~Record.is_directory
    /\ ~Skipped(Record) /\ ~IsDuplicate
    /\ See
    /\ IF mode = "list" THEN Count(Record.size) ELSE UNCHANGED statistics
    /\ frames' = Passed
    /\ UNCHANGED <<inputs, partition, disk, copied, pc>>

DuplicateName ==
    /\ HasNext
    /\ IsDuplicate
    /\ End("refused")

NameIsTaken ==
    /\ HasNext
    /\ ~Skipped(Record)
    /\ Taken(IF Record.is_directory THEN "directory" ELSE "file")
    /\ End("failed")

-------------------------------------------------------------------------------
(* extract_file *)

\* Mistake: the count of the file before is not reset.
OpenTargetKeepingCount ==
    /\ HasNext
    /\ mode = "extract"
    /\ ~Record.is_directory
    /\ ~Skipped(Record) /\ ~Taken("file")
    /\ disk' = With([kind |-> "file", size |-> 0, content |-> Record.start])
    /\ pc' = "extract"
    /\ UNCHANGED <<inputs, partition, frames, seen, copied, statistics>>

\* Opening empties what another record of the same name has left.
OpenTarget ==
    /\ HasNext
    /\ mode = "extract"
    /\ ~Record.is_directory
    /\ ~Skipped(Record) /\ ~Taken("file")
    /\ disk' = With([kind |-> "file", size |-> 0, content |-> Record.start])
    /\ copied' = 0
    /\ pc' = "extract"
    /\ UNCHANGED <<inputs, partition, frames, seen, statistics>>

\* What is there of the file may be less than the record says.
ChunkSize == Min({Record.size - copied, Record.there - copied, BufferSize})

ExtractChunk ==
    /\ pc = "extract"
    /\ copied < Record.size /\ copied < Record.there
    /\ disk' = [disk EXCEPT ![Path].size = @ + ChunkSize]
    /\ copied' = copied + ChunkSize
    /\ UNCHANGED <<inputs, partition, frames, seen, statistics, pc>>

\* Mistake: a read that returns nothing is tried again.
AllCopied == copied = Record.size

Extracted == copied = Record.size \/ copied >= Record.there

\* Mistake: what the record says is counted.
CloseTargetAsReported ==
    /\ pc = "extract"
    /\ Extracted
    /\ Count(Record.size)
    /\ See
    /\ frames' = Passed
    /\ pc' = "walk"
    /\ UNCHANGED <<inputs, partition, disk, copied>>

\* The size of a file that is cut off becomes what was copied, and is counted.
CloseTarget ==
    /\ pc = "extract"
    /\ Extracted
    /\ Count(copied)
    /\ See
    /\ frames' = Passed
    /\ pc' = "walk"
    /\ UNCHANGED <<inputs, partition, disk, copied>>

-------------------------------------------------------------------------------
\* The walk of a table returns to the directory it is in, or throws.
LeaveTable ==
    /\ pc = "walk"
    /\ ~HasNext
    /\ TableAt(Top.sector).sound
    /\ frames' = SubSeq(frames, 1, Len(frames) - 1)
    /\ pc' = IF frames' = << >> THEN "done" ELSE "walk"
    /\ UNCHANGED <<inputs, partition, seen, disk, copied, statistics>>

TableIsCorrupt ==
    /\ pc = "walk"
    /\ ~HasNext
    /\ ~TableAt(Top.sector).sound
    /\ End("refused")

\* A read fails, a directory cannot be made, a file not opened, written or closed.
Fail ==
    /\ pc \in {"open", "walk", "extract"}
    /\ End("failed")

Step ==
    \/ NoMagic \/ SecondMagicMissing \/ NoFiles \/ OpenVolume
    \/ SkipDirectory \/ VisitDirectory \/ VisitFile \/ DuplicateName \/ NameIsTaken
    \/ OpenTarget \/ ExtractChunk \/ CloseTarget
    \/ LeaveTable \/ TableIsCorrupt

-------------------------------------------------------------------------------
TypeOK ==
    /\ mode \in Modes
    /\ skip_system_update \in BOOLEAN
    /\ partition \in 0..Len(image)
    /\ Len(frames) <= MaxDepth + 1
    /\ \A i \in DOMAIN frames : frames[i].next \in 1..(Len(TableAt(frames[i].sector).records) + 1)
    /\ \A p \in DOMAIN disk : disk[p].kind \in {"directory", "file"} /\ disk[p].size \in Nat
    /\ copied \in Nat
    /\ statistics \in [files : Nat, bytes : Nat]
    /\ pc \in {"open", "walk", "extract", "done", "refused", "failed"}

\* What the file can be at a partition offset.
IsVolume(volume) ==
    /\ volume.magic \in 0..2
    /\ \A table \in Range(volume.tables) :
          /\ table.sound \in BOOLEAN
          /\ table.records \in Seq(Range(table.records))
          /\ \A r \in Range(table.records) :
                /\ r.is_directory \in BOOLEAN /\ r.name \in DOMAIN Key
                /\ r.size \in Nat /\ r.there \in Nat

\* The entries of a directory at a place, and the directories below it.
EntriesAt(volume, place) ==
    {[path |-> Append(place.path, r.name), record |-> r] :
        r \in {r \in Range(TableOf(volume, place.sector).records) : ~Skipped(r)}}

Below(volume, place) ==
    {[path |-> e.path, sector |-> e.record.start] :
        e \in {e \in EntriesAt(volume, place) : e.record.is_directory /\ e.record.size > 0}}

\* The directories of a volume by breadth: where the tables are that are n deep.
Levels(volume) ==
    LET Level[n \in 0..(MaxDepth + 1)] ==
            IF n = 0 THEN {[path |-> << >>, sector |-> volume.root]}
            ELSE UNION {Below(volume, place) : place \in Level[n - 1]}
    IN  Level

Places(volume) == UNION Range(Levels(volume))
Entries(volume) == UNION {EntriesAt(volume, place) : place \in Places(volume)}

HasDuplicates(table) ==
    \E i, j \in DOMAIN table.records :
       i # j /\ Key[table.records[i].name] = Key[table.records[j].name]

\* No directory is too deep, every table can be read, a tree can be made of each.
IsReadable(volume) ==
    /\ Levels(volume)[MaxDepth + 1] = {}
    /\ \A place \in Places(volume) :
          LET table == TableOf(volume, place.sector)
          IN  table.sound /\ (mode = "read" => ~HasDuplicates(table))

\* Of the volumes in a file the first is taken, and nothing but that one is read.
\* Where its directories point to each other in a circle, or one is unreadable,
\* the image is refused; otherwise, unless a call fails, all of it is seen, what
\* several directories share in each of them.
WalkSeesTheVolume ==
    pc \in {"done", "refused"} =>
        LET magic == {i \in DOMAIN image : image[i].magic > 0}
            volume == image[Min(magic)]
            isVolume == magic # {} /\ volume.magic = 2
        IN  /\ pc = "done" =>
                  /\ isVolume
                  /\ IF volume.root = NoRoot THEN seen = << >>
                     ELSE IsReadable(volume) /\ Range(seen) = Entries(volume)
            /\ pc = "refused" /\ isVolume =>
                  volume.root # NoRoot /\ ~IsReadable(volume)

Files == {i \in DOMAIN seen : ~seen[i].record.is_directory}
SumOf(Size(_), S) == MapThenSumSet(Size, S)
PathsDiffer == \A i, j \in DOMAIN seen : seen[i].path = seen[j].path => i = j

\* The statistics say what was listed and, also of files the image has only a part
\* of, what extraction has left on the disk (where no file came over another).
StatisticsAreTrue ==
    /\ pc = "done" /\ mode = "list" =>
          /\ statistics.files = Cardinality(Files)
          /\ statistics.bytes = SumOf(LAMBDA i : seen[i].record.size, Files)
    /\ pc = "done" /\ mode = "extract" /\ PathsDiffer =>
          LET made == {p \in DOMAIN disk : disk[p].kind = "file"}
          IN  /\ statistics.files = Cardinality(made)
              /\ statistics.bytes = SumOf(LAMBDA p : disk[p].size, made)
              /\ \A i \in Files : disk[seen[i].path] =
                    [kind    |-> "file",
                     size    |-> Min({seen[i].record.size, seen[i].record.there}),
                     content |-> seen[i].record.start]
===============================================================================
