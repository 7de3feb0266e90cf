----------------------------- MODULE RewriteImages ----------------------------
(* The files during a batch of rewrites: the loop of main/main.cpp over the     *)
(* images and, for each, the calls of rewrite_image (src/operations.cpp) and    *)
(* write_image (src/image_writer.cpp) that change what is on disk.  Every call  *)
(* can fail, the errors the code ignores or only logs are remembered, and the   *)
(* program can be killed between any two steps and be run again.                *)
EXTENDS ImageFiles

CONSTANTS InitialFiles,     \* what may be on disk to begin with
          MaxCrashes        \* bound: how often the program is killed

ASSUME RunAssumption ==
    /\ InitialFiles \subseteq [Path -> Content]
    /\ MaxCrashes \in Nat

VARIABLES
    files,              \* files[p]: what is under p
    job,                \* index of the image being rewritten
    pc,                 \* the next call for it, or "done"
    outcome,            \* outcome[i]: what main made of image i
    delete_original,    \* -D
    ignored,            \* history: calls for this image whose error was ignored
    before,             \* history: the files when this image was begun
    initial,            \* history: the files to begin with
    unseen,             \* history: <<p, c>>: ".old" file p, of content c, was not seen
    crashes             \* history: how often the program was killed

vars == <<files, job, pc, outcome, delete_original, ignored, before, initial, unseen,
          crashes>>

Image == Batch[job]
Old == OldOf[Image]
Output == OutputOf[Image]

Steps == {"look", "check_old", "rename", "read_tree", "open", "write", "cleanup",
          "restore", "delete", "failed", "rewritten"}

\* Mistake: the last image is left out.
BeginOneLess(i) == IF i < Len(Batch) THEN "look" ELSE "done"

Begin(i) == IF i <= Len(Batch) THEN "look" ELSE "done"

Pending == [i \in 1..Len(Batch) |-> "pending"]

Init ==
    /\ files \in InitialFiles
    /\ job = 1
    /\ pc = Begin(1)
    /\ outcome = Pending
    /\ delete_original \in BOOLEAN
    /\ ignored = {}
    /\ before = files
    /\ initial = files
    /\ unseen = {}
    /\ crashes = 0

-------------------------------------------------------------------------------
\* The call at step succeeds or fails, and another one follows.
Goto(from, to) ==
    /\ pc = from
    /\ pc' = to
    /\ UNCHANGED <<job, outcome, delete_original, before, initial, unseen, crashes>>

\* Mistake: an image that failed is tried again.
ReportAndRetry(result) ==
    /\ outcome' = [outcome EXCEPT ![job] = result]
    /\ job' = IF result = "failed" THEN job ELSE job + 1
    /\ pc' = Begin(job')
    /\ ignored' = {}
    /\ before' = files
    /\ UNCHANGED <<files, delete_original, initial, unseen, crashes>>

\* rewrite_image returns or throws; main goes on to the next image.
Report(result) ==
    /\ outcome' = [outcome EXCEPT ![job] = result]
    /\ job' = job + 1
    /\ pc' = Begin(job + 1)
    /\ ignored' = {}
    /\ before' = files
    /\ UNCHANGED <<files, delete_original, initial, unseen, crashes>>

\* Already optimized, or an image without files.
LookSkips ==
    /\ pc = "look"
    /\ files[Image].kind \in {"rewritten", "empty"}
    /\ Report("skipped")

\* Not there, not an image, or not readable.
LookFails ==
    /\ pc = "look"
    /\ Report("failed")

\* Mistake: a file is renamed before it is known to be an image.
LookLater ==
    /\ Goto("look", "check_old")
    /\ UNCHANGED <<files, ignored>>

LookPasses ==
    /\ Goto("look", "check_old")
    /\ files[Image].kind \in {"image", "partial"}
    /\ UNCHANGED <<files, ignored>>

OldExists ==
    /\ pc = "check_old"
    /\ files[Old] # None
    /\ Report("failed")

\* Mistake: the rename may replace an older file.
OldIsIgnored ==
    /\ Goto("check_old", "rename")
    /\ UNCHANGED <<files, ignored>>

\* fs::exists also returns false when the look itself fails.  With nothing there
\* that changes nothing.
OldIsFree ==
    /\ Goto("check_old", "rename")
    /\ files[Old] = None
    /\ UNCHANGED <<files, ignored>>

\* The look at a ".old" file that is there fails, or it is a link to nothing.
\* The error is never read: the rename is next and may replace that file.
OldIsOverlooked ==
    /\ pc = "check_old"
    /\ pc' = "rename"
    /\ files[Old] # None
    /\ ignored' = ignored \cup {"exists"}
    /\ unseen' = unseen \cup {<<Old, files[Old]>>}
    /\ UNCHANGED <<files, job, outcome, delete_original, before, initial, crashes>>

RenameFails ==
    /\ pc = "rename"
    /\ Report("failed")

Rename ==
    /\ Goto("rename", "read_tree")
    /\ files' = [files EXCEPT ![Old] = files[Image], ![Image] = None]
    /\ UNCHANGED ignored

\* The whole tree is read before anything is written.  A partial image has no
\* root table to read.
ReadTree ==
    /\ Goto("read_tree", "open")
    /\ files[Old].kind = "image"
    /\ UNCHANGED <<files, ignored>>

ReadTreeFails ==
    /\ Goto("read_tree", "restore")
    /\ UNCHANGED <<files, ignored>>

\* Opening the output empties whatever was there.
OpenOutput ==
    /\ Goto("open", "write")
    /\ files' = [files EXCEPT ![Output] = Partial]
    /\ UNCHANGED ignored

OpenFails ==
    /\ Goto("open", "cleanup")
    /\ UNCHANGED <<files, ignored>>

WriteOutput ==
    /\ Goto("write", "delete")
    /\ files' = [files EXCEPT ![Output] = Rewritten(files[Old].disc)]
    /\ UNCHANGED ignored

\* Mistake: the error is not thrown on.
WriteFailsSilently ==
    /\ Goto("write", "delete")
    /\ UNCHANGED <<files, ignored>>

WriteFails ==
    /\ Goto("write", "cleanup")
    /\ UNCHANGED <<files, ignored>>

\* Mistake: nothing gives the original its name back.
RemoveOutputOnly ==
    /\ Goto("cleanup", "failed")
    /\ files' = [files EXCEPT ![Output] = None]
    /\ UNCHANGED ignored

\* The catch block of write_image removes the output.
RemoveOutput ==
    /\ Goto("cleanup", "restore")
    /\ files' = [files EXCEPT ![Output] = None]
    /\ UNCHANGED ignored

RemoveOutputFails ==
    /\ Goto("cleanup", "restore")
    /\ ignored' = ignored \cup {"remove"}
    /\ UNCHANGED files

\* The catch block of rewrite_image gives the original its name back.
Restore ==
    /\ Goto("restore", "failed")
    /\ files' = [files EXCEPT ![Image] = files[Old], ![Old] = None]
    /\ UNCHANGED ignored

RestoreFails ==
    /\ Goto("restore", "failed")
    /\ ignored' = ignored \cup {"restore"}
    /\ UNCHANGED files

\* Mistake: the original is removed without being asked for.
DeleteOldAlways ==
    /\ Goto("delete", "rewritten")
    /\ files' = [files EXCEPT ![Old] = None]
    /\ UNCHANGED ignored

DeleteOld ==
    /\ Goto("delete", "rewritten")
    /\ files' = IF delete_original THEN [files EXCEPT ![Old] = None] ELSE files
    /\ UNCHANGED ignored

DeleteOldFails ==
    /\ Goto("delete", "rewritten")
    /\ delete_original
    /\ ignored' = ignored \cup {"delete"}
    /\ UNCHANGED files

ReportFailed == pc = "failed" /\ Report("failed")
ReportRewritten == pc = "rewritten" /\ Report("rewritten")

\* The program is killed, and the same command is given again.
KilledAndRunAgain ==
    /\ pc # "done"
    /\ crashes < MaxCrashes
    /\ crashes' = crashes + 1
    /\ job' = 1
    /\ pc' = Begin(1)
    /\ outcome' = Pending
    /\ ignored' = {}
    /\ before' = files
    /\ UNCHANGED <<files, delete_original, initial, unseen>>

Step ==
    \/ LookSkips \/ LookFails \/ LookPasses
    \/ OldExists \/ OldIsFree \/ OldIsOverlooked
    \/ Rename \/ RenameFails
    \/ ReadTree \/ ReadTreeFails
    \/ OpenOutput \/ OpenFails
    \/ WriteOutput \/ WriteFails
    \/ RemoveOutput \/ RemoveOutputFails
    \/ Restore \/ RestoreFails
    \/ DeleteOld \/ DeleteOldFails
    \/ ReportFailed \/ ReportRewritten

Next == Step \/ KilledAndRunAgain

\* The program runs on its own: it takes its next step unless it is killed.
Spec == Init /\ [][Next]_vars /\ WF_vars(Step)

-------------------------------------------------------------------------------
TypeOK ==
    /\ files \in [Path -> Content]
    /\ job \in 1..(Len(Batch) + 1)
    /\ pc \in Steps \cup {"done"}
    /\ pc = "done" <=> job > Len(Batch)
    /\ outcome \in [1..Len(Batch) -> {"pending", "skipped", "failed", "rewritten"}]
    /\ delete_original \in BOOLEAN
    /\ ignored \subseteq {"exists", "remove", "restore", "delete"}
    /\ before \in [Path -> Content]
    /\ initial \in [Path -> Content]
    /\ unseen \subseteq Path \X Content
    /\ crashes \in 0..MaxCrashes

\* Original p is under its own or its ".old" name; with -D a complete rewritten
\* image of the same disc may stand for it.
Survives(p) ==
    \/ files[p] = initial[p]
    \/ files[OldOf[p]] = initial[p]
    \/ delete_original /\ files[OutputOf[p]] = Rewritten(initial[p].disc)

\* Whenever the program is killed and whatever fails, no image that was to be
\* rewritten is ever lost (rewrite_image, write_image).  The exception is an
\* original that an earlier run left under its ".old" name, where a failed look
\* (fs::exists) did not see it: the rename may then have replaced it.
OriginalsSurvive ==
    \A p \in Images :
        initial[p].kind = "image" /\ <<OldOf[p], initial[p]>> \notin unseen => Survives(p)

\* rewrite_image: "The original is renamed to "<image>.old" first, and removed
\* afterwards".  An original leaves its name only for its ".old" name.  Holds
\* without collisions; OriginalsSurvive follows what becomes of it then.
RenamedFirst ==
    [][\A p \in Images :
        initial[p].kind = "image" /\ files[p] = initial[p] /\ files'[p] # initial[p] =>
            files'[OldOf[p]] = initial[p]]_vars

\* A ".old" file that was there before is not overwritten or removed, also when
\* the batch is run again: the check before the rename protects it, as far as
\* that check saw it (fs::exists, whose error is ignored).
OldFilesKept ==
    \A p \in Images :
        LET old == OldOf[p]
        IN  initial[old] # None /\ <<old, initial[old]>> \notin unseen =>
                files[old] = initial[old]

\* A rewrite that reports an error leaves the original and its ".old" name as
\* they were and no incomplete output, unless the calls that see to that fail
\* themselves.  A ".old" file that the failed look did not see is gone.
FailureRestores ==
    pc = "failed" =>
        /\ "restore" \notin ignored =>
               /\ files[Image] = before[Image]
               /\ "exists" \notin ignored => files[Old] = before[Old]
        /\ "remove" \notin ignored /\ Output # Image =>
               files[Output] \in {before[Output], None}

\* A rewrite that reports success leaves the complete output and, unless it is
\* to be deleted, the original under its ".old" name.
SuccessIsComplete ==
    pc = "rewritten" =>
        /\ files[Output] = Rewritten(before[Image].disc)
        /\ IF delete_original /\ "delete" \notin ignored
           THEN files[Old] = None
           ELSE files[Old] = before[Image]

\* The steps of each rewrite add up to one step of the contract, or to two when
\* a ".old" file was overlooked.
Contract == INSTANCE RewriteContract
                WITH files <- before, overlooked <- "exists" \in ignored

ContractHolds == Contract!Spec

\* write_image: "Removes the partial output file and rethrows if anything fails."
\* What the catch block removes is the partial output file.
OnlyPartialRemoved ==
    [][pc = "cleanup" /\ files' # files => files[Output] = Partial]_vars

\* The batch comes to its end, every image with an outcome.
BatchFinishes == <>(pc = "done" /\ \A i \in 1..Len(Batch) : outcome[i] # "pending")
===============================================================================
