------------------------------ MODULE ImageTrip -------------------------------
(* create_image and then list_image or extract_image on an image it made; or     *)
(* these on an image from elsewhere, which may be damaged, as it is or rewritten *)
(* before.  (Images that were made carry the tag and are not rewritten.)        *)
(* That the tables of an image are read as they were written is the subject of  *)
(* module DirectoryRoundTrip; here it is used: each table has its records.      *)
EXTENDS CreateImage, SequencesExt

CONSTANTS MaxDepth, BufferSize, SystemUpdate, NoRoot,
          Unusable,         \* the names that validate_filename refuses
          Early,            \* the entries that are read before such a name is
          ForeignImages     \* images that this program has not made

VARIABLES image, mode, skip_system_update, partition, frames, seen, disk, copied, statistics, pc,
          origin,           \* the group whose image is read, 0 for a foreign image
          rewritten         \* the tree that was read from a foreign image to rewrite it

walk_vars == <<image, mode, skip_system_update, partition, frames, seen, disk, copied, statistics, pc>>

Walk == INSTANCE TreeWalk

ASSUME TripAssumption ==
    /\ Walk!TreeWalkAssumption
    /\ Unusable \subseteq DOMAIN Key
    /\ NoRoot # << >>           \* the place of the root of a written image
    /\ \A i \in ForeignImages :
          /\ i # << >> /\ i \in Seq(Range(i))
          /\ \A volume \in Range(i) :
                /\ Walk!IsVolume(volume)
                \* read_record takes no other name.
                /\ \A table \in Range(volume.tables) :
                      table.sound => \A r \in Range(table.records) : r.name \notin Unusable

trip_vars == <<create_vars, walk_vars, origin, rewritten>>

NoImage == << >>
NoTree == << >>

-------------------------------------------------------------------------------
\* Mistake: the table of an empty directory is left out.
TablesWithEntries(made) == {Parent(p) : p \in DOMAIN made} \cup {<< >>}

\* write_tree: every directory has a table, which takes a sector at least.
TablesOf(made) == {p \in DOMAIN made : made[p].kind = "directory"} \cup {<< >>}

EntriesOf(made, directory) == {p \in DOMAIN made : Parent(p) = directory}

\* write_entry.  Where an item is, its path says or the file it is of.
RecordOf(made, p) ==
    IF made[p].kind = "directory"
    THEN [is_directory |-> TRUE, name |-> p[Len(p)], start |-> p, size |-> 1, there |-> 1]
    ELSE [is_directory |-> FALSE, name |-> p[Len(p)], start |-> <<made[p].content>>,
          size |-> made[p].size, there |-> made[p].size]

HasUsableNames(made, directory) ==
    \A p \in EntriesOf(made, directory) : p[Len(p)] \notin Unusable

\* The walk ends where it reads a name it does not take.  What it has been through
\* by then depends on the tree of the table.
ReadableEntries(made, directory) ==
    {p \in EntriesOf(made, directory) :
        HasUsableNames(made, directory) \/ (p \in Early /\ p[Len(p)] \notin Unusable)}

\* What the reader finds in an image that was written.
WrittenImage(made) ==
    <<[magic  |-> 2,
       root   |-> << >>,
       tables |-> [d \in TablesOf(made) |->
            [records |-> SetToSeq({RecordOf(made, p) : p \in ReadableEntries(made, d)}),
             sound   |-> HasUsableNames(made, d)]]]>>

\* The options of a command; -s does not apply to read_tree.
Commands ==
    {c \in [mode : Walk!Modes, skip : BOOLEAN] : c.mode = "read" => ~c.skip}

TripInit ==
    /\ CreateInit
    /\ \/ /\ groups # << >>
          /\ image = NoImage
          /\ mode = "list" /\ skip_system_update = FALSE
       \/ /\ groups = << >>
          /\ image \in ForeignImages
          /\ \E c \in Commands : mode = c.mode /\ skip_system_update = c.skip
    /\ Walk!Begin
    /\ origin = 0
    /\ rewritten = NoTree

Create == image = NoImage /\ CreateStep /\ UNCHANGED <<walk_vars, origin, rewritten>>

CreateFails == image = NoImage /\ CreateFailure /\ UNCHANGED <<walk_vars, origin, rewritten>>

Change == image = NoImage /\ FileChanges /\ UNCHANGED <<walk_vars, origin, rewritten>>

Show(made) ==
    /\ image' = WrittenImage(made)
    /\ \E c \in Commands : c.mode # "read" /\ mode' = c.mode /\ skip_system_update' = c.skip

ReadBack ==
    /\ image = NoImage
    /\ step = "finished"
    /\ \E g \in Made \cap Unreplaced : origin' = g
    /\ Show(ImageOf(origin').tree)
    /\ UNCHANGED <<create_vars, rewritten, partition, frames, seen, disk, copied, statistics, pc>>

Read == image # NoImage /\ Walk!Step /\ UNCHANGED <<create_vars, origin, rewritten>>

ReadFails == image # NoImage /\ Walk!Fail /\ UNCHANGED <<create_vars, origin, rewritten>>

\* What write_image makes of the tree that read_tree has read: a file that is cut
\* off is as long as what there is of it.
TreeRead ==
    [p \in {seen[i].path : i \in DOMAIN seen} |->
        LET record == (CHOOSE s \in Range(seen) : s.path = p).record
        IN  IF record.is_directory THEN [kind |-> "directory", size |-> 0, content |-> 0]
            ELSE [kind    |-> "file",
                  size    |-> Min({record.size, record.there}),
                  content |-> record.start[1]]]

\* rewrite_image, once the tree has been read; the image is then shown.  How it
\* fails is the subject of module RewriteImages.
Rewrite ==
    /\ image # NoImage /\ mode = "read" /\ pc = "done"
    /\ partition # 0
    /\ rewritten' = TreeRead
    /\ Show(TreeRead)
    /\ partition' = 0 /\ frames' = << >> /\ seen' = << >> /\ pc' = "open"
    /\ UNCHANGED <<create_vars, origin, disk, copied, statistics>>

TripNext == Create \/ CreateFails \/ Change \/ ReadBack \/ Read \/ ReadFails \/ Rewrite

\* One thread goes on while its calls succeed.  No call has to fail, nobody has
\* to change a file or to read an image.
TripSpec ==
    /\ TripInit /\ [][TripNext]_trip_vars
    /\ WF_create_vars(Create)
    /\ WF_walk_vars(Read)

-------------------------------------------------------------------------------
TypeOK ==
    /\ CreateTypeOK
    /\ image # NoImage => Walk!TypeOK
    /\ origin \in 0..Len(groups)
    /\ \A p \in DOMAIN rewritten : rewritten[p].kind \in {"directory", "file"}

WalkSeesTheVolume == image # NoImage => Walk!WalkSeesTheVolume
StatisticsAreTrue == image # NoImage => Walk!StatisticsAreTrue

\* What -s leaves out of a walk: a directory, and what is in it.
Hidden(path, is_directory) ==
    \E n \in 1..Len(path) :
        skip_system_update /\ path[n] \in SystemUpdate /\ (n < Len(path) \/ is_directory)

\* Extraction brings back what an image was made from.  For one of create_image
\* that is the directory: every file in its length and with its content (but what
\* changed meanwhile), empty directories too, and nothing that was not there.  For
\* one that was rewritten it is all that the image before had.
ExtractRestoresTheSource ==
    mode = "extract" /\ pc = "done" =>
        /\ origin # 0 =>
              LET found == PathsIn(groups[origin].directory)
                  IsDirectory(f) == files[f.node].kind = "directory"
              IN  /\ \A f \in found :
                        Belongs(f.node) /\ ~Hidden(f.path, IsDirectory(f)) /\ f.node \notin changed =>
                           /\ f.path \in DOMAIN disk
                           /\ disk[f.path].kind = files[f.node].kind
                           /\ ~IsDirectory(f) => /\ disk[f.path].size = files[f.node].size
                                                 /\ disk[f.path].content = <<f.node>>
                  /\ DOMAIN disk \subseteq {<< >>} \cup {f.path : f \in found}
        /\ rewritten # NoTree =>
              /\ DOMAIN disk = {<< >>} \cup {p \in DOMAIN rewritten :
                                               ~Hidden(p, rewritten[p].kind = "directory")}
              /\ \A p \in DOMAIN disk \ {<< >>} :
                    /\ disk[p].kind = rewritten[p].kind
                    /\ disk[p].kind = "file" => /\ disk[p].size = rewritten[p].size
                                                /\ disk[p].content = <<rewritten[p].content>>

\* What was made can be read, but for two things that create_image does not look
\* at: directories deeper than the reader goes and names it does not take.  What
\* could be read to be rewritten can be read again, unless it has a directory
\* without a table below the deepest one: rewriting gives it one.
MadeImagesAreReadable ==
    pc = "refused" =>
        /\ rewritten # NoTree =>
              \E p \in DOMAIN rewritten :
                 /\ rewritten[p].kind = "directory" /\ Len(p) = MaxDepth + 1
                 /\ EntriesOf(rewritten, p) = {}
        /\ origin # 0 =>
              \E f \in PathsIn(groups[origin].directory) :
                 \/ f.path[Len(f.path)] \in Unusable
                 \/ files[f.node].kind = "directory" /\ Len(f.path) > MaxDepth

\* Every batch and every walk ends: a directory inside itself stops the scan when
\* its path has become too long, and the walk at the deepest directory allowed.
OperationsEnd ==
    /\ <>(step \in {"finished", "aborted"})
    /\ (image # NoImage) ~> (pc \in {"done", "refused", "failed"})
===============================================================================
