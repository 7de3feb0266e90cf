---------------------------- MODULE RewriteContract ---------------------------
(* What a batch of rewrites promises about the files (operations.hpp, the       *)
(* declaration of rewrite_image): every image is rewritten in one step or not   *)
(* at all, the original ends up under its ".old" name or is deleted on request, *)
(* and nothing but the image, its ".old" file and the output is touched.  A     *)
(* ".old" file that is there is kept unless the rewrite has overlooked it.      *)
EXTENDS ImageFiles

VARIABLES
    files,              \* files[p]: what is under p
    job,                \* index of the image that is next
    delete_original,    \* -D
    overlooked          \* the ".old" file of the image that is next was not seen

vars == <<files, job, delete_original, overlooked>>

Image == Batch[job]
Old == OldOf[Image]
Output == OutputOf[Image]

Init ==
    /\ files \in [Path -> Content]
    /\ job = 1
    /\ delete_original \in BOOLEAN
    /\ overlooked = FALSE

\* The look at a ".old" file that is there fails.
Overlook ==
    /\ files[Old] # None
    /\ overlooked' = TRUE
    /\ UNCHANGED <<files, job, delete_original>>

\* Nothing is known to be under the ".old" name.
NothingToKeep == overlooked \/ files[Old] = None

OnlyTouches(paths) == \A p \in Path \ paths : files'[p] = files[p]

Skip ==
    /\ files[Image].kind \in {"rewritten", "empty"}
    /\ UNCHANGED files

\* The original is where it was; an output elsewhere may be gone or incomplete,
\* a ".old" file that was overlooked may be gone.
Fail ==
    /\ OnlyTouches(({Output} \ {Image}) \cup {p \in {Old} : overlooked})
    /\ files'[Output] \in {files[Output], None, Partial}
    /\ files'[Old] \in {files[Old], None}

\* The original could not be given its name back.
FailStranded ==
    /\ files[Image].kind \in {"image", "partial"}
    /\ NothingToKeep
    /\ OnlyTouches({Image, Old, Output})
    /\ files'[Old] = files[Image]
    /\ files'[Image] \in {None, Partial}
    /\ files'[Output] \in {files[Output], None, Partial}

Succeed ==
    /\ files[Image].kind = "image"
    /\ NothingToKeep
    /\ OnlyTouches({Image, Old, Output})
    /\ files'[Output] = Rewritten(files[Image].disc)
    /\ Image # Output => files'[Image] = None
    /\ \/ files'[Old] = files[Image]
       \/ delete_original /\ files'[Old] = None

\* The next image is dealt with, or the program is killed while it is and the
\* whole batch is run again.
Rewrite ==
    /\ Skip \/ Fail \/ FailStranded \/ Succeed
    /\ job' \in {job + 1, 1}
    /\ overlooked' = FALSE
    /\ UNCHANGED delete_original

Next == job <= Len(Batch) /\ (Overlook \/ Rewrite)

Spec == Init /\ [][Next]_vars
===============================================================================
