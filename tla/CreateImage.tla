------------------------------ MODULE CreateImage -----------------------------
(* The batch of -c groups (main/main.cpp): for each one create_image            *)
(* (src/operations.cpp) scans a directory (src/fs_scan.cpp) and writes what it  *)
(* found to an image.  The layout of the image is the subject of other modules; *)
(* here an image is the tree that was written.                                  *)
(*                                                                              *)
(* The file system is a set of nodes.  Links are followed, so a node may have   *)
(* several names, and a directory may be inside itself.  The images are nodes   *)
(* too: one may be in a directory that is scanned.                              *)
EXTENDS Integers, Sequences, FiniteSets, FiniteSetsExt, Functions

CONSTANTS Key,              \* Key[name]: names with the same key compare equal
          TooLong,          \* the names longer than max_filename_length
          MaxPath,          \* names of the longest path the system resolves
          MaxSize,          \* bytes of the largest file an entry can describe
          ImageSize,        \* bytes of an image
          Batches,          \* the file systems and the groups that are met
          MaxChanges        \* bound: files that change while images are made

\* A node is a directory, a file, something else (a device), a link to nothing,
\* or the place of an image; a group names a directory and the image's place.
ASSUME CreateAssumption ==
    /\ MaxPath \in Nat /\ MaxSize \in Nat /\ ImageSize \in Nat /\ MaxChanges \in Nat
    /\ \A b \in Batches :
          /\ \A n \in DOMAIN b.files :
                /\ b.files[n].kind \in {"directory", "file", "other", "dangling", "image"}
                /\ b.files[n].kind = "directory" =>
                      /\ DOMAIN b.files[n].entries \subseteq DOMAIN Key
                      /\ Range(b.files[n].entries) \subseteq DOMAIN b.files
                /\ b.files[n].kind = "file" => b.files[n].size \in Nat
          /\ b.groups \in Seq([directory : DOMAIN b.files,
                              output    : {n \in DOMAIN b.files : b.files[n].kind = "image"}])

VARIABLES
    files,          \* the file system, by node
    groups,         \* what -c was given
    group,          \* the group being worked on
    step,           \* "begin" | "scan" | "write" | "remove" | "finished" | "aborted"
    scanning,       \* the directories being scanned, outermost first
    tree,           \* what the scan has found, by path; the sizes are final once copied
    to_copy,        \* the files that have not been copied
    images,         \* what is at the place of an image
    results,        \* history: how each group ended
    exit_failure,   \* failed in main
    before,         \* history: what was there when the last scan began
    changed         \* history: the files that have changed

create_vars == <<files, groups, group, step, scanning, tree, to_copy, images, results,
                 exit_failure, before, changed>>

Absent == [state |-> "absent", tree |-> << >>]
Earlier == [state |-> "earlier", tree |-> << >>]    \* some image of before
Partial == [state |-> "partial", tree |-> << >>]
Whole(t) == [state |-> "whole", tree |-> t]

CreateInit ==
    /\ \E b \in Batches : files = b.files /\ groups = b.groups
    /\ group = 1
    /\ step = IF groups = << >> THEN "finished" ELSE "begin"
    /\ scanning = << >>
    /\ tree = << >>
    /\ to_copy = {}
    /\ images \in [{n \in DOMAIN files : files[n].kind = "image"} -> {Absent, Earlier}]
    /\ results = << >>
    /\ exit_failure = FALSE
    /\ before = images
    /\ changed = {}

Kind(node) == IF files[node].kind = "image" THEN "file" ELSE files[node].kind
SizeOf(node) == IF files[node].kind = "image" THEN ImageSize ELSE files[node].size

\* The names in a directory.
Listed(node) ==
    {name \in DOMAIN files[node].entries :
        LET entry == files[node].entries[name]
        IN  files[entry].kind = "image" => images[entry].state # "absent"}

Output == groups[group].output

\* The loop in main goes on with the next group, whatever became of this one.
Report(result) ==
    /\ results' = Append(results, result)
    /\ exit_failure' = (exit_failure \/ result # "created")
    /\ group' = group + 1
    /\ step' = IF group = Len(groups) THEN "finished" ELSE "begin"

-------------------------------------------------------------------------------
(* create_image, up to the scan *)

DirectoryFrame(node, path) == [node |-> node, path |-> path, left |-> Listed(node)]

BeginScan ==
    /\ step = "begin"
    /\ Kind(groups[group].directory) = "directory"
    /\ scanning' = <<DirectoryFrame(groups[group].directory, << >>)>>
    /\ tree' = << >>
    /\ before' = images
    /\ step' = "scan"
    /\ UNCHANGED <<files, groups, group, to_copy, images, results, exit_failure, changed>>

NotADirectory ==
    /\ step = "begin"
    /\ Kind(groups[group].directory) # "directory"
    /\ Report("refused")
    /\ UNCHANGED <<files, groups, scanning, tree, to_copy, images, before, changed>>

\* The directory cannot be looked at.
NoAccess ==
    /\ step = "begin"
    /\ Kind(groups[group].directory) = "directory"
    /\ Report("refused")
    /\ UNCHANGED <<files, groups, scanning, tree, to_copy, images, before, changed>>

\* absolute throws filesystem_error, which nobody catches.
NoWorkingDirectory ==
    /\ step = "begin"
    /\ Kind(groups[group].directory) = "directory"
    /\ step' = "aborted"
    /\ UNCHANGED <<files, groups, group, scanning, tree, to_copy, images, results,
                   exit_failure, before, changed>>

-------------------------------------------------------------------------------
(* scan_into.  A directory is read in any order. *)

Innermost == scanning[Len(scanning)]
Outer == SubSeq(scanning, 1, Len(scanning) - 1)
Parent(path) == SubSeq(path, 1, Len(path) - 1)

LookedAt(name) == Append(Outer, [Innermost EXCEPT !.left = @ \ {name}])
NodeOf(name) == files[Innermost.node].entries[name]
PathOf(name) == Append(Innermost.path, name)

\* status fails for a path that is too long and for a link to nothing.
HasStatus(name) == Kind(NodeOf(name)) # "dangling" /\ Len(PathOf(name)) <= MaxPath

\* Mistake: the size is not looked at.
AnySize(name) == FALSE

TooLarge(name) == Kind(NodeOf(name)) = "file" /\ SizeOf(NodeOf(name)) > MaxSize

Ignored(name) == HasStatus(name) /\ (Kind(NodeOf(name)) = "other" \/ TooLarge(name))

\* An entry goes into the tree when it is short enough and its name is new there.
Fits(path) ==
    /\ path[Len(path)] \notin TooLong
    /\ \A p \in DOMAIN tree :
          Len(p) = Len(path) /\ Parent(p) = Parent(path) => Key[p[Len(p)]] # Key[path[Len(path)]]

Inserted(path, node) ==
    [p \in DOMAIN tree \cup {path} |->
        IF p \in DOMAIN tree THEN tree[p]
        ELSE [kind    |-> Kind(node),
              size    |-> IF Kind(node) = "directory" THEN 0 ELSE SizeOf(node),
              content |-> IF Kind(node) = "directory" THEN 0 ELSE node]]

Refuse ==
    /\ Report("refused")
    /\ scanning' = << >>
    /\ UNCHANGED <<files, groups, tree, to_copy, images, before, changed>>

Ignore ==
    /\ step = "scan"
    /\ \E name \in Innermost.left :
          /\ Ignored(name)
          /\ scanning' = LookedAt(name)
    /\ UNCHANGED <<files, groups, group, step, tree, to_copy, images, results, exit_failure,
                   before, changed>>

AddFile ==
    /\ step = "scan"
    /\ \E name \in Innermost.left :
          /\ HasStatus(name) /\ Kind(NodeOf(name)) = "file" /\ ~TooLarge(name)
          /\ Fits(PathOf(name))
          /\ tree' = Inserted(PathOf(name), NodeOf(name))
          /\ scanning' = LookedAt(name)
    /\ UNCHANGED <<files, groups, group, step, to_copy, images, results, exit_failure, before,
                   changed>>

EnterDirectory ==
    /\ step = "scan"
    /\ \E name \in Innermost.left :
          /\ HasStatus(name) /\ Kind(NodeOf(name)) = "directory"
          /\ scanning' = Append(LookedAt(name), DirectoryFrame(NodeOf(name), PathOf(name)))
    /\ UNCHANGED <<files, groups, group, step, tree, to_copy, images, results, exit_failure,
                   before, changed>>

\* A directory goes into the tree once everything in it has been scanned.
AddDirectory ==
    /\ step = "scan"
    /\ Len(scanning) > 1
    /\ Innermost.left = {}
    /\ Fits(Innermost.path)
    /\ tree' = Inserted(Innermost.path, Innermost.node)
    /\ scanning' = Outer
    /\ UNCHANGED <<files, groups, group, step, to_copy, images, results, exit_failure, before,
                   changed>>

RefuseEntry ==
    /\ step = "scan"
    /\ \/ \E name \in Innermost.left :
             \/ ~HasStatus(name)
             \/ Kind(NodeOf(name)) = "file" /\ ~TooLarge(name) /\ ~Fits(PathOf(name))
       \/ Len(scanning) > 1 /\ Innermost.left = {} /\ ~Fits(Innermost.path)
    /\ Refuse

\* A directory cannot be opened or read.
ScanFails ==
    /\ step = "scan"
    /\ Refuse

-------------------------------------------------------------------------------
(* write_image.  The scan is over when the output is opened, which empties it. *)

OpenOutput ==
    /\ step = "scan"
    /\ Len(scanning) = 1 /\ Innermost.left = {}
    /\ images' = [images EXCEPT ![Output] = Partial]
    /\ to_copy' = {p \in DOMAIN tree : tree[p].kind = "file"}
    /\ step' = "write"
    /\ scanning' = << >>
    /\ UNCHANGED <<files, groups, group, tree, results, exit_failure, before, changed>>

OpenFails ==
    /\ step = "scan"
    /\ Len(scanning) = 1 /\ Innermost.left = {}
    /\ step' = "remove"
    /\ scanning' = << >>
    /\ UNCHANGED <<files, groups, group, tree, to_copy, images, results, exit_failure, before,
                   changed>>

\* No more is copied than the layout has room for.  An image that is copied into
\* itself is as long as it has become.
Copies(path) ==
    IF tree[path].content = Output THEN 0..tree[path].size
    ELSE {Min({tree[path].size, SizeOf(tree[path].content)})}

CopyFile ==
    /\ step = "write"
    /\ \E path \in to_copy :
          /\ Kind(tree[path].content) = "file"
          /\ \E size \in Copies(path) : tree' = [tree EXCEPT ![path].size = size]
          /\ to_copy' = to_copy \ {path}
    /\ UNCHANGED <<files, groups, group, step, scanning, images, results, exit_failure, before,
                   changed>>

\* The tables, the descriptors and the tag.
FinishImage ==
    /\ step = "write"
    /\ to_copy = {}
    /\ images' = [images EXCEPT ![Output] = Whole(tree)]
    /\ Report("created")
    /\ UNCHANGED <<files, groups, scanning, tree, to_copy, before, changed>>

\* What was a file when it was scanned is none when it is to be copied.
FileIsGone ==
    /\ step = "write"
    /\ \E path \in to_copy : Kind(tree[path].content) # "file"
    /\ step' = "remove"
    /\ to_copy' = {}
    /\ UNCHANGED <<files, groups, group, scanning, tree, images, results, exit_failure, before,
                   changed>>

\* A file cannot be read, the image not be laid out or written.
WriteFails ==
    /\ step = "write"
    /\ step' = "remove"
    /\ to_copy' = {}
    /\ UNCHANGED <<files, groups, group, scanning, tree, images, results, exit_failure, before,
                   changed>>

\* Mistake: what is left is reported without being removed.
RemoveNothing ==
    /\ step = "remove"
    /\ Report("unwritten")
    /\ UNCHANGED <<files, groups, scanning, tree, to_copy, images, before, changed>>

RemoveOutput ==
    /\ step = "remove"
    /\ images' = [images EXCEPT ![Output] = Absent]
    /\ Report("unwritten")
    /\ UNCHANGED <<files, groups, scanning, tree, to_copy, before, changed>>

\* Nothing more can be done, and nothing is said.
RemoveFails ==
    /\ step = "remove"
    /\ Report("stuck")
    /\ UNCHANGED <<files, groups, scanning, tree, to_copy, images, before, changed>>

\* Someone else changes a file or removes it before it has been copied.  Before
\* the scan has looked at it that would be another file system to begin with.
FileChanges ==
    /\ step = "write"
    /\ Cardinality(changed) < MaxChanges
    /\ \E path \in to_copy :
          LET node == tree[path].content
          IN  /\ files[node].kind = "file"
              /\ changed' = changed \cup {node}
              /\ \E now \in [kind : {"file"}, size : 0..(MaxSize + 1)] \cup {[kind |-> "dangling"]} :
                    /\ now # files[node]
                    /\ files' = [files EXCEPT ![node] = now]
    /\ UNCHANGED <<groups, group, step, scanning, tree, to_copy, images, results, exit_failure,
                   before>>

CreateStep ==
    \/ BeginScan \/ NotADirectory
    \/ Ignore \/ AddFile \/ EnterDirectory \/ AddDirectory \/ RefuseEntry
    \/ OpenOutput \/ CopyFile \/ FileIsGone \/ FinishImage \/ RemoveOutput

\* A call on the file system fails.
CreateFailure ==
    \/ NoAccess \/ NoWorkingDirectory
    \/ ScanFails \/ OpenFails \/ WriteFails \/ RemoveFails

-------------------------------------------------------------------------------
CreateTypeOK ==
    /\ group \in 1..(Len(groups) + 1)
    /\ step \in {"begin", "scan", "write", "remove", "finished", "aborted"}
    /\ Len(scanning) <= MaxPath + 1
    /\ \A p \in DOMAIN tree :
          /\ tree[p].kind \in {"directory", "file"}
          /\ tree[p].size \in 0..MaxSize
    /\ to_copy \subseteq DOMAIN tree
    /\ Len(results) = group - 1
    /\ exit_failure \in BOOLEAN

Made == {g \in DOMAIN results : results[g] = "created"}
ImageOf(g) == images[groups[g].output]

\* The groups whose image no later one was told to replace.
Unreplaced ==
    {g \in DOMAIN results :
        \A h \in DOMAIN groups : g < h /\ h <= group => groups[h].output # groups[g].output}

\* By breadth, the paths of a directory and what is there, links followed.
PathsIn(directory) ==
    LET Below(place) ==
            IF files[place.node].kind # "directory" THEN {}
            ELSE {[path |-> Append(place.path, name), node |-> files[place.node].entries[name]] :
                     name \in DOMAIN files[place.node].entries}
        Level[n \in 0..(MaxPath + 1)] ==
            IF n = 0 THEN {[path |-> << >>, node |-> directory]}
            ELSE UNION {Below(place) : place \in Level[n - 1]}
    IN  UNION {Level[n] : n \in 1..(MaxPath + 1)}

Belongs(node) ==
    \/ files[node].kind = "directory"
    \/ files[node].kind = "file" /\ files[node].size <= MaxSize

\* An image that was made holds what was in the directory, what links lead to
\* too: all directories and all files but those that are too large, each in its
\* full length unless it was changed meanwhile, and nothing else.  There was no
\* link to nothing, and every entry has a name of its own.  Whether it also has
\* an image that was in the directory depends on what was there when; then it is
\* a file, as long as it was unless it was being written itself.
ImageHoldsTheSource ==
    \A g \in Made \cap Unreplaced :
        LET made == ImageOf(g).tree
            found == PathsIn(groups[g].directory)
        IN  /\ ImageOf(g).state = "whole"
            /\ \A f \in found : files[f.node].kind # "image" /\ f.node \notin changed =>
                  /\ files[f.node].kind # "dangling"
                  /\ IF Belongs(f.node)
                     THEN f.path \in DOMAIN made /\
                          made[f.path] = [kind    |-> files[f.node].kind,
                                          size    |-> IF files[f.node].kind = "file"
                                                      THEN files[f.node].size ELSE 0,
                                          content |-> IF files[f.node].kind = "file"
                                                      THEN f.node ELSE 0]
                     ELSE f.path \notin DOMAIN made
            /\ \A f \in found : files[f.node].kind = "image" /\ f.path \in DOMAIN made =>
                  /\ made[f.path].kind = "file" /\ made[f.path].content = f.node
                  /\ made[f.path].size <= ImageSize
                  /\ f.node # groups[g].output => made[f.path].size = ImageSize
            /\ DOMAIN made \subseteq {f.path : f \in found}
            /\ \A p, q \in DOMAIN made :
                  Parent(p) = Parent(q) /\ Key[p[Len(p)]] = Key[q[Len(q)]] => p = q

\* Whatever goes wrong, no group leaves a part of an image behind, unless it
\* cannot be removed; one that has not got as far as writing leaves an image of
\* before as it was; and the exit code says whether all images were made.
FailureLeavesNoImage ==
    /\ step = "scan" => images = before
    /\ \A n \in DOMAIN images :
          LET Of(outcomes) == {g \in DOMAIN results : groups[g].output = n /\ results[g] \in outcomes}
          IN  /\ images[n].state = "partial" => Of({"stuck"}) # {} \/ step \in {"write", "remove"}
              /\ images[n].state = "earlier" => Of({"created", "unwritten"}) = {}
    /\ step = "finished" => (exit_failure <=> Cardinality(Made) < Len(groups))
===============================================================================
