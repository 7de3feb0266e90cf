-------------------------- MODULE RewriteImagesProofs -------------------------
(* No batch without collisions loses an original, whatever fails but the look   *)
(* at its ".old" name and whenever the program is killed, and every rewrite     *)
(* keeps the contract.                                                          *)
EXTENDS RewriteImages, TLAPS

\* The original is under its ".old" name.
Moved == {"read_tree", "open", "write", "cleanup", "restore", "delete"}

\* The output before it is opened.
OutputBefore == IF Output = Image THEN None ELSE before[Output]

\* Nothing has been changed for this image yet.
UnchangedYet ==
    /\ pc \in {"look", "check_old"} => ignored = {}
    /\ pc \in {"look", "check_old", "rename"} => files = before /\ ignored \subseteq {"exists"}
    /\ pc \in {"check_old", "rename"} => files[Image].kind \in {"image", "partial"}
    /\ pc = "rename" =>
           files[Old] = None \/ ("exists" \in ignored /\ <<Old, files[Old]>> \in unseen)

\* The original has been renamed; what the output is then depends on the call.
RenamedYet ==
    /\ pc \in Moved =>
           /\ files[Old] = before[Image]
           /\ before[Image].kind \in {"image", "partial"}
           /\ before[Old] = None \/ "exists" \in ignored
           /\ Output # Image => files[Image] = None
           /\ "delete" \notin ignored
    /\ pc \in {"open", "write", "delete"} => before[Image].kind = "image"
    /\ pc \in {"read_tree", "open"} => files[Output] = OutputBefore
    /\ pc \in {"cleanup", "restore"} => files[Output] \in {OutputBefore, None, Partial}
    /\ pc = "restore" /\ "remove" \notin ignored => files[Output] \in {OutputBefore, None}
    /\ pc = "write" => files[Output] = Partial
    /\ pc = "delete" => files[Output] = Rewritten(before[Image].disc)

\* What a failed rewrite leaves when the original could not be renamed back.
Stranded ==
    /\ files[Old] = before[Image]
    /\ before[Image].kind \in {"image", "partial"}
    /\ before[Old] = None \/ "exists" \in ignored
    /\ Output # Image => files[Image] = None
    /\ files[Output] \in {OutputBefore, None, Partial}

\* The end of a rewrite.
Ended ==
    /\ pc = "failed" =>
           /\ \/ /\ files[Image] = before[Image]
                 /\ files[Old] \in {before[Old], None}
                 /\ files[Old] = before[Old] \/ "exists" \in ignored
                 /\ Output # Image => files[Output] \in {before[Output], None, Partial}
              \/ "restore" \in ignored /\ Stranded
           /\ "remove" \notin ignored /\ Output # Image =>
                  files[Output] \in {before[Output], None}
    /\ pc = "rewritten" =>
           /\ before[Image].kind = "image"
           /\ before[Old] = None \/ "exists" \in ignored
           /\ Output # Image => files[Image] = None
           /\ files[Output] = Rewritten(before[Image].disc)
           /\ \/ files[Old] = before[Image] /\ (~delete_original \/ "delete" \in ignored)
              \/ files[Old] = None /\ delete_original /\ "delete" \notin ignored

\* No other file is touched.
OthersUntouched ==
    pc # "done" => \A p \in Path \ {Image, Old, Output} : files[p] = before[p]

\* Where original p is.  A rewritten image stands for it only where the original
\* is not also found under its own name.
Found(p) ==
    \/ files[p] = initial[p]
    \/ files[OldOf[p]] = initial[p]
    \/ /\ delete_original
       /\ files[OutputOf[p]] = Rewritten(initial[p].disc)
       /\ OutputOf[p] # p => files[p] = None

Originals ==
    \A p \in Images : initial[p].kind = "image" /\ <<OldOf[p], initial[p]>> \notin unseen =>
        /\ Found(p)
        /\ pc \in Moved /\ p = Image => files[OldOf[p]] = initial[p]

\* Was not there to begin with or was once overlooked.
NotKept(p) == initial[p] = None \/ <<p, initial[p]>> \in unseen

\* No other ".old" file is lost, and the one a rename makes is new.
OldFiles ==
    /\ \A p \in Images : files[OldOf[p]] = initial[OldOf[p]] \/ NotKept(OldOf[p])
    /\ pc \in Moved => NotKept(Old)

IInv ==
    /\ TypeOK
    /\ UnchangedYet
    /\ RenamedYet
    /\ Ended
    /\ OthersUntouched
    /\ Originals
    /\ OldFiles

-------------------------------------------------------------------------------
LEMMA Contents ==
    /\ None \in Content /\ Partial \in Content
    /\ \A c \in Content : c.disc \in Disc \cup {NoDisc} /\ Rewritten(c.disc) \in Content
    /\ None # Partial
    /\ \A c \in Content : c.kind = "image" => c # None /\ c # Partial
    /\ \A c \in Content : Rewritten(c.disc).kind = "rewritten" /\ Rewritten(c.disc) # None
BY SMT DEF Content, Kinds, None, Partial, Rewritten

\* The paths of the rewrite under way, and those of the other images.
LEMMA Apart ==
    ASSUME NoCollision, job \in 1..Len(Batch)
    PROVE  /\ Image \in Images /\ Image \in Path /\ Old \in Path /\ Output \in Path
           /\ Image # Old /\ Output # Old
           /\ \A q \in Images \ {Image} :
                  /\ q \in Path \ {Image, Old, Output}
                  /\ OldOf[q] \in Path \ {Image, Old, Output}
                  /\ OutputOf[q] \in Path \ {Image, Old, Output}
<1>1. /\ Image \in Images
      /\ \A q \in Images : q \in Path /\ OldOf[q] \in Path /\ OutputOf[q] \in Path
  BY BatchAssumption DEF Images, Image
<1> QED
  BY <1>1 DEF NoCollision, Old, Output

LEMMA ImagesHaveOldNames ==
    \A q \in Images : q \in Path /\ OldOf[q] \in Path /\ OutputOf[q] \in Path
BY BatchAssumption DEF Images

\* What a rewrite leaves alone stays where the other images are found.
LEMMA OthersStayFound ==
    ASSUME NoCollision, job \in 1..Len(Batch),
           \A p \in Path \ {Image, Old, Output} : files'[p] = files[p],
           UNCHANGED <<initial, delete_original>>,
           NEW q \in Images, q # Image
    PROVE  /\ Found(q) => Found(q)'
           /\ files'[OldOf[q]] = files[OldOf[q]]
BY Apart DEF Found

LEMMA JobUnderWay ==
    ASSUME TypeOK, pc # "done"
    PROVE  job \in 1..Len(Batch)
BY BatchAssumption DEF TypeOK

-------------------------------------------------------------------------------
LEMMA TypeInit ==
    ASSUME Init
    PROVE  TypeOK
<1>1. Len(Batch) \in Nat
  BY BatchAssumption
<1>2. files \in [Path -> Content]
  BY RunAssumption DEF Init
<1> QED
  BY <1>1, <1>2, RunAssumption DEF Init, TypeOK, Begin, Pending, Steps

LEMMA TypeNext ==
    ASSUME NoCollision, TypeOK, [Next]_vars
    PROVE  TypeOK'
<1> USE DEF TypeOK
<1>1. ASSUME NEW from, NEW to \in Steps, from # "done", Goto(from, to),
             files' \in [Path -> Content],
             ignored' \subseteq {"exists", "remove", "restore", "delete"}
      PROVE  TypeOK'
  BY <1>1 DEF Goto, Steps
<1>2. ASSUME pc # "done", NEW result \in {"skipped", "failed", "rewritten"}, Report(result)
      PROVE  TypeOK'
  <2>1. job \in 1..Len(Batch) /\ Len(Batch) \in Nat
    BY <1>2, JobUnderWay, BatchAssumption
  <2>2. job' \in 1..(Len(Batch) + 1) /\ (pc' = "done" <=> job' > Len(Batch))
    BY <1>2, <2>1 DEF Report, Begin
  <2> QED
    BY <1>2, <2>1, <2>2 DEF Report, Begin, Steps
<1>3. CASE LookSkips
  BY <1>3, <1>2 DEF LookSkips
<1>4. CASE LookFails
  BY <1>4, <1>2 DEF LookFails
<1>5. CASE LookPasses
  BY <1>5, <1>1 DEF LookPasses, Steps
<1>6. CASE OldExists
  BY <1>6, <1>2 DEF OldExists
<1>7. CASE OldIsFree
  BY <1>7, <1>1 DEF OldIsFree, Steps
<1>26. CASE OldIsOverlooked
  <2>1. pc # "done" /\ Old \in Path
    BY <1>26, JobUnderWay, Apart DEF OldIsOverlooked
  <2>2. unseen' \subseteq Path \X Content
    BY <1>26, <2>1 DEF OldIsOverlooked
  <2> QED
    BY <1>26, <2>1, <2>2 DEF OldIsOverlooked, Steps
<1>8. CASE Rename
  <2>1. pc # "done"
    BY <1>8 DEF Rename, Goto
  <2>2. files' \in [Path -> Content]
    BY <1>8, <2>1, JobUnderWay, Apart, Contents DEF Rename
  <2> QED
    BY <1>8, <2>2, <1>1 DEF Rename, Steps
<1>9. CASE RenameFails
  BY <1>9, <1>2 DEF RenameFails
<1>10. CASE ReadTree
  BY <1>10, <1>1 DEF ReadTree, Steps
<1>11. CASE ReadTreeFails
  BY <1>11, <1>1 DEF ReadTreeFails, Steps
<1>12. CASE OpenOutput
  BY <1>12, <1>1, Contents DEF OpenOutput, Steps
<1>13. CASE OpenFails
  BY <1>13, <1>1 DEF OpenFails, Steps
<1>14. CASE WriteOutput
  <2>1. pc # "done"
    BY <1>14 DEF WriteOutput, Goto
  <2>2. Rewritten(files[Old].disc) \in Content
    BY <2>1, JobUnderWay, Apart, Contents
  <2>3. files' \in [Path -> Content]
    BY <1>14, <2>2 DEF WriteOutput
  <2> QED
    BY <1>14, <2>3, <1>1 DEF WriteOutput, Steps
<1>15. CASE WriteFails
  BY <1>15, <1>1 DEF WriteFails, Steps
<1>16. CASE RemoveOutput
  BY <1>16, <1>1, Contents DEF RemoveOutput, Steps
<1>17. CASE RemoveOutputFails
  BY <1>17, <1>1 DEF RemoveOutputFails, Steps
<1>18. CASE Restore
  <2>1. pc # "done"
    BY <1>18 DEF Restore, Goto
  <2>2. files' \in [Path -> Content]
    BY <1>18, <2>1, JobUnderWay, Apart, Contents DEF Restore
  <2> QED
    BY <1>18, <2>2, <1>1 DEF Restore, Steps
<1>19. CASE RestoreFails
  BY <1>19, <1>1 DEF RestoreFails, Steps
<1>20. CASE DeleteOld
  <2>1. files' \in [Path -> Content]
    BY <1>20, Contents DEF DeleteOld
  <2> QED
    BY <1>20, <2>1, <1>1 DEF DeleteOld, Steps
<1>21. CASE DeleteOldFails
  BY <1>21, <1>1 DEF DeleteOldFails, Steps
<1>22. CASE ReportFailed
  BY <1>22, <1>2 DEF ReportFailed
<1>23. CASE ReportRewritten
  BY <1>23, <1>2 DEF ReportRewritten
<1>24. CASE KilledAndRunAgain
  <2>1. Len(Batch) \in Nat /\ Len(Batch) >= 1
    BY <1>24, BatchAssumption, JobUnderWay DEF KilledAndRunAgain
  <2> QED
    BY <1>24, <2>1, RunAssumption DEF KilledAndRunAgain, Begin, Pending, Steps
<1>25. CASE UNCHANGED vars
  BY <1>25 DEF vars
<1> QED
  BY <1>3, <1>4, <1>5, <1>6, <1>7, <1>8, <1>9, <1>10, <1>11, <1>12, <1>13, <1>14,
     <1>15, <1>16, <1>17, <1>18, <1>19, <1>20, <1>21, <1>22, <1>23, <1>24, <1>25,
     <1>26
     DEF Next, Step

-------------------------------------------------------------------------------
LEMMA InvInit ==
    ASSUME Init
    PROVE  IInv
<1>1. TypeOK
  BY TypeInit
<1>2. pc \in {"look", "done"} /\ files = before /\ files = initial /\ ignored = {}
  BY DEF Init, Begin
<1> QED
  BY <1>1, <1>2 DEF IInv, UnchangedYet, RenamedYet, Ended, OthersUntouched, Originals,
     OldFiles, NotKept, Found, Moved

\* Going on to the next image, or beginning again, leaves the files alone.
LEMMA NextImageKeepsInv ==
    ASSUME IInv, TypeOK', pc' \in {"look", "done"}, files' = files, before' = files,
           ignored' = {}, UNCHANGED <<initial, delete_original, unseen>>
    PROVE  IInv'
<1>1. (UnchangedYet /\ RenamedYet /\ Ended /\ OthersUntouched)'
  BY DEF UnchangedYet, RenamedYet, Ended, OthersUntouched, Moved
<1>2. (Originals /\ OldFiles)'
  BY DEF IInv, Originals, OldFiles, NotKept, Found, Moved
<1> QED
  BY <1>1, <1>2 DEF IInv

\* A step that leaves the files alone and does not touch the original's name.
LEMMA QuietStepKeepsOriginals ==
    ASSUME IInv, files' = files, UNCHANGED <<job, initial, delete_original, unseen>>,
           pc' \in Moved => pc \in Moved
    PROVE  (Originals /\ OldFiles)'
BY DEF IInv, Originals, OldFiles, NotKept, Found, Image, Old

\* A step that changes files of the image at hand only.
LEMMA OthersStay ==
    ASSUME NoCollision, IInv, pc # "done",
           \A p \in Path \ {Image, Old, Output} : files'[p] = files[p],
           UNCHANGED <<job, before, initial, delete_original, unseen>>
    PROVE  /\ OthersUntouched'
           /\ \A q \in Images \ {Image} :
                  /\ initial[q].kind = "image" /\ <<OldOf[q], initial[q]>> \notin unseen => Found(q)'
                  /\ files'[OldOf[q]] = initial[OldOf[q]] \/ NotKept(OldOf[q])
<1> job \in 1..Len(Batch)
  BY JobUnderWay DEF IInv
<1>1. OthersUntouched'
  BY DEF IInv, OthersUntouched, Image, Old, Output
<1>2. ASSUME NEW q \in Images, q # Image
      PROVE  /\ initial[q].kind = "image" /\ <<OldOf[q], initial[q]>> \notin unseen => Found(q)'
             /\ files'[OldOf[q]] = initial[OldOf[q]] \/ NotKept(OldOf[q])
  BY <1>2, OthersStayFound DEF IInv, Originals, OldFiles, NotKept
<1> QED
  BY <1>1, <1>2

LEMMA InvNext ==
    ASSUME NoCollision, IInv, [Next]_vars
    PROVE  IInv'
<1>0. TypeOK /\ TypeOK'
  BY TypeNext DEF IInv
<1> DEFINE Local == UnchangedYet /\ RenamedYet /\ Ended
<1>1. ASSUME pc # "done", NEW result \in {"skipped", "failed", "rewritten"}, Report(result)
      PROVE  IInv'
  <2>1. pc' \in {"look", "done"}
    BY <1>1 DEF Report, Begin
  <2> QED
    BY <1>0, <1>1, <2>1, NextImageKeepsInv DEF Report
\* The steps that leave the files alone.
<1>2. ASSUME files' = files, NEW from, NEW to, from # "done", Goto(from, to),
             to \in Moved => from \in Moved, Local'
      PROVE  IInv'
  <2>1. (Originals /\ OldFiles)'
    BY <1>2, QuietStepKeepsOriginals DEF Goto
  <2>2. OthersUntouched'
    BY <1>2 DEF IInv, OthersUntouched, Goto, Image, Old, Output
  <2> QED
    BY <1>0, <1>2, <2>1, <2>2 DEF IInv
<1>3. CASE LookSkips
  BY <1>3, <1>1 DEF LookSkips
<1>4. CASE LookFails
  BY <1>4, <1>1 DEF LookFails
<1>5. CASE LookPasses
  <2>1. Local'
    BY <1>5 DEF LookPasses, Goto, IInv, UnchangedYet, RenamedYet, Ended, Moved, Image
  <2> QED
    BY <1>5, <1>2, <2>1 DEF LookPasses, Moved
<1>6. CASE OldExists
  BY <1>6, <1>1 DEF OldExists
<1>7. CASE OldIsFree
  <2>1. Local'
    BY <1>7 DEF OldIsFree, Goto, IInv, UnchangedYet, RenamedYet, Ended, Moved, Image, Old
  <2> QED
    BY <1>7, <1>2, <2>1 DEF OldIsFree, Moved
<1>26. CASE OldIsOverlooked
  <2>1. /\ pc = "check_old" /\ pc' = "rename" /\ ignored' = {"exists"}
        /\ unseen' = unseen \cup {<<Old, files[Old]>>}
        /\ UNCHANGED <<files, job, delete_original, before, initial>>
    BY <1>26 DEF OldIsOverlooked, IInv, UnchangedYet
  <2>2. Local'
    BY <2>1 DEF IInv, UnchangedYet, RenamedYet, Ended, Moved, Image, Old
  <2>3. (Originals /\ OldFiles)'
    BY <2>1 DEF IInv, Originals, OldFiles, NotKept, Found, Moved
  <2>4. OthersUntouched'
    BY <2>1 DEF IInv, OthersUntouched, Image, Old, Output
  <2> QED
    BY <1>0, <2>2, <2>3, <2>4 DEF IInv
<1>9. CASE RenameFails
  BY <1>9, <1>1 DEF RenameFails
<1>10. CASE ReadTree
  <2>1. Local'
    BY <1>10 DEF ReadTree, Goto, IInv, UnchangedYet, RenamedYet, Ended, Moved,
       Image, Old, Output, OutputBefore
  <2> QED
    BY <1>10, <1>2, <2>1 DEF ReadTree, Moved
<1>11. CASE ReadTreeFails
  <2>1. Local'
    BY <1>11 DEF ReadTreeFails, Goto, IInv, UnchangedYet, RenamedYet, Ended, Moved,
       Image, Old, Output, OutputBefore
  <2> QED
    BY <1>11, <1>2, <2>1 DEF ReadTreeFails, Moved
<1>13. CASE OpenFails
  <2>1. Local'
    BY <1>13 DEF OpenFails, Goto, IInv, UnchangedYet, RenamedYet, Ended, Moved,
       Image, Old, Output, OutputBefore
  <2> QED
    BY <1>13, <1>2, <2>1 DEF OpenFails, Moved
<1>15. CASE WriteFails
  <2>1. Local'
    BY <1>15 DEF WriteFails, Goto, IInv, UnchangedYet, RenamedYet, Ended, Moved,
       Image, Old, Output, OutputBefore
  <2> QED
    BY <1>15, <1>2, <2>1 DEF WriteFails, Moved
<1>17. CASE RemoveOutputFails
  <2>1. Local'
    BY <1>17 DEF RemoveOutputFails, Goto, IInv, UnchangedYet, RenamedYet, Ended, Moved,
       Image, Old, Output, OutputBefore
  <2> QED
    BY <1>17, <1>2, <2>1 DEF RemoveOutputFails, Moved
<1>19. CASE RestoreFails
  <2>1. Local'
    BY <1>19 DEF RestoreFails, Goto, IInv, UnchangedYet, RenamedYet, Ended, Moved,
       Stranded, Image, Old, Output, OutputBefore
  <2> QED
    BY <1>19, <1>2, <2>1 DEF RestoreFails, Moved
<1>21. CASE DeleteOldFails
  <2>1. Local'
    BY <1>21 DEF DeleteOldFails, Goto, IInv, UnchangedYet, RenamedYet, Ended, Moved,
       Image, Old, Output, OutputBefore
  <2> QED
    BY <1>21, <1>2, <2>1 DEF DeleteOldFails, Moved
<1>22. CASE ReportFailed
  BY <1>22, <1>1 DEF ReportFailed
<1>23. CASE ReportRewritten
  BY <1>23, <1>1 DEF ReportRewritten
<1>24. CASE KilledAndRunAgain
  <2>1. pc' \in {"look", "done"}
    BY <1>24 DEF KilledAndRunAgain, Begin
  <2> QED
    BY <1>0, <1>24, <2>1, NextImageKeepsInv DEF KilledAndRunAgain
<1>25. CASE UNCHANGED vars
  BY <1>0, <1>25 DEF vars, IInv, UnchangedYet, RenamedYet, Ended, Stranded, OthersUntouched,
     Originals, OldFiles, NotKept, Found, Image, Old, Output, OutputBefore
\* The steps that change files.
<1>30. ASSUME NEW from, NEW to, from # "done", Goto(from, to), Local',
              \A p \in Path \ {Image, Old, Output} : files'[p] = files[p],
              initial[Image].kind = "image" /\ <<Old, initial[Image]>> \notin unseen =>
                  Found(Image)' /\ (to \in Moved => files'[Old] = initial[Image]),
              files'[Old] = initial[Old] \/ NotKept(Old),
              to \in Moved => NotKept(Old)
       PROVE  IInv'
  <2>1. /\ OthersUntouched'
        /\ \A q \in Images \ {Image} :
               /\ initial[q].kind = "image" /\ <<OldOf[q], initial[q]>> \notin unseen => Found(q)'
               /\ files'[OldOf[q]] = initial[OldOf[q]] \/ NotKept(OldOf[q])
    BY <1>30, OthersStay DEF Goto
  <2>2. Originals'
    BY <1>30, <2>1 DEF Originals, Goto, Image, Old
  <2>3. OldFiles'
    BY <1>30, <2>1 DEF OldFiles, NotKept, Goto, Image, Old
  <2> QED
    BY <1>0, <1>30, <2>1, <2>2, <2>3 DEF IInv
<1>31. pc # "done" =>
          /\ Image \in Images /\ Image \in Path /\ Old \in Path /\ Output \in Path
          /\ Image # Old /\ Output # Old
  BY <1>0, JobUnderWay, Apart
<1>8. CASE Rename
  <2>1. /\ pc = "rename" /\ pc' = "read_tree" /\ pc # "done"
        /\ UNCHANGED <<job, before, initial, delete_original, ignored>>
        /\ files' = [files EXCEPT ![Old] = files[Image], ![Image] = None]
    BY <1>8 DEF Rename, Goto
  <2>2. /\ files'[Old] = files[Image] /\ files'[Image] = None
        /\ \A p \in Path \ {Image, Old} : files'[p] = files[p]
    BY <1>0, <1>31, <2>1 DEF TypeOK
  <2>3. /\ files = before /\ ignored \subseteq {"exists"}
        /\ files[Image].kind \in {"image", "partial"}
        /\ files[Old] = None \/ ("exists" \in ignored /\ <<Old, files[Old]>> \in unseen)
    BY <2>1 DEF IInv, UnchangedYet
  <2>4. Local'
    BY <1>31, <2>1, <2>2, <2>3 DEF UnchangedYet, RenamedYet, Ended, Moved, Image, Old, Output,
       OutputBefore
  <2>5. NotKept(Old)
    BY <1>31, <2>1, <2>3 DEF IInv, OldFiles, NotKept, Old
  <2>6. ASSUME initial[Image].kind = "image", <<Old, initial[Image]>> \notin unseen
        PROVE  files[Image] = initial[Image]
    <3>1. initial[Image] # None
      BY <2>6 DEF None
    <3>2. files[Image] # None /\ files[Image].kind # "rewritten"
      BY <2>3 DEF None
    <3>3. Found(Image)
      BY <1>31, <2>1, <2>6 DEF IInv, Originals, Old
    <3>4. files[Image] # Rewritten(initial[Image].disc)
      BY <3>2 DEF Rewritten
    <3> QED
      BY <2>3, <2>6, <3>1, <3>2, <3>3, <3>4 DEF Found, Old
  <2>7. initial[Image].kind = "image" /\ <<Old, initial[Image]>> \notin unseen =>
            Found(Image)' /\ files'[Old] = initial[Image]
    BY <2>1, <2>2, <2>6 DEF Found, Old, Image
  <2> QED
    BY <1>8, <1>30, <2>2, <2>4, <2>5, <2>7 DEF Rename
<1>32. ASSUME NEW from \in Moved, NEW to, Goto(from, to), Local', files'[Old] = files[Old],
              \A p \in Path \ {Image, Old, Output} : files'[p] = files[p]
       PROVE  IInv'
  <2>1. initial[Image].kind = "image" /\ <<Old, initial[Image]>> \notin unseen =>
            files'[Old] = initial[Image]
    BY <1>31, <1>32 DEF IInv, Originals, Goto, Old, Moved
  <2>2. initial[Image].kind = "image" /\ <<Old, initial[Image]>> \notin unseen =>
            Found(Image)'
    BY <2>1, <1>32 DEF Found, Old, Image, Goto
  <2>3. NotKept(Old)
    BY <1>32 DEF IInv, OldFiles, Goto
  <2> QED
    BY <1>30, <1>32, <2>1, <2>2, <2>3 DEF Moved
<1>12. CASE OpenOutput
  <2>1. /\ pc # "done" /\ Goto("open", "write") /\ ignored' = ignored
        /\ files' = [files EXCEPT ![Output] = Partial]
    BY <1>12 DEF OpenOutput, Goto
  <2>2. files'[Output] = Partial /\ \A p \in Path \ {Output} : files'[p] = files[p]
    BY <1>0, <1>31, <2>1 DEF TypeOK
  <2>3. Local'
    BY <1>31, <2>1, <2>2 DEF IInv, Goto, UnchangedYet, RenamedYet, Ended, Moved, Image, Old,
       Output, OutputBefore
  <2> QED
    BY <1>31, <1>32, <2>1, <2>2, <2>3 DEF Moved
<1>14. CASE WriteOutput
  <2>1. /\ pc # "done" /\ Goto("write", "delete") /\ ignored' = ignored
        /\ files' = [files EXCEPT ![Output] = Rewritten(files[Old].disc)]
    BY <1>14 DEF WriteOutput, Goto
  <2>2. /\ files'[Output] = Rewritten(files[Old].disc)
        /\ \A p \in Path \ {Output} : files'[p] = files[p]
    BY <1>0, <1>31, <2>1 DEF TypeOK
  <2>3. Local'
    BY <1>31, <2>1, <2>2 DEF IInv, Goto, UnchangedYet, RenamedYet, Ended, Moved, Image, Old,
       Output, OutputBefore
  <2> QED
    BY <1>31, <1>32, <2>1, <2>2, <2>3 DEF Moved
<1>16. CASE RemoveOutput
  <2>1. /\ pc # "done" /\ Goto("cleanup", "restore") /\ ignored' = ignored
        /\ files' = [files EXCEPT ![Output] = None]
    BY <1>16 DEF RemoveOutput, Goto
  <2>2. files'[Output] = None /\ \A p \in Path \ {Output} : files'[p] = files[p]
    BY <1>0, <1>31, <2>1 DEF TypeOK
  <2>3. Local'
    BY <1>31, <2>1, <2>2 DEF IInv, Goto, UnchangedYet, RenamedYet, Ended, Moved, Image, Old,
       Output, OutputBefore
  <2> QED
    BY <1>31, <1>32, <2>1, <2>2, <2>3 DEF Moved
<1>18. CASE Restore
  <2>1. /\ pc = "restore" /\ pc' = "failed" /\ pc # "done" /\ Goto("restore", "failed")
        /\ UNCHANGED <<job, before, initial, delete_original, ignored>>
        /\ files' = [files EXCEPT ![Image] = files[Old], ![Old] = None]
    BY <1>18 DEF Restore, Goto
  <2>2. /\ files'[Image] = files[Old] /\ files'[Old] = None
        /\ \A p \in Path \ {Image, Old} : files'[p] = files[p]
    BY <1>0, <1>31, <2>1 DEF TypeOK
  <2>3. /\ files[Old] = before[Image] /\ (before[Old] = None \/ "exists" \in ignored)
        /\ Output # Image => files[Output] \in {before[Output], None, Partial}
        /\ Output # Image /\ "remove" \notin ignored => files[Output] \in {before[Output], None}
    BY <2>1 DEF IInv, RenamedYet, Moved, OutputBefore
  <2>4. Local'
    BY <1>31, <2>1, <2>2, <2>3 DEF UnchangedYet, RenamedYet, Ended, Moved, Image, Old, Output
  <2>5. initial[Image].kind = "image" /\ <<Old, initial[Image]>> \notin unseen =>
            Found(Image)'
    BY <1>31, <2>1, <2>2 DEF IInv, Originals, Found, Image, Old, Moved
  <2>6. NotKept(Old)
    BY <2>1 DEF IInv, OldFiles, Moved
  <2> QED
    BY <1>30, <2>1, <2>2, <2>4, <2>5, <2>6 DEF Moved
<1>20. CASE DeleteOld
  <2>1. /\ pc = "delete" /\ pc' = "rewritten" /\ pc # "done" /\ Goto("delete", "rewritten")
        /\ UNCHANGED <<job, before, initial, delete_original, ignored>>
        /\ files' = IF delete_original THEN [files EXCEPT ![Old] = None] ELSE files
    BY <1>20 DEF DeleteOld, Goto
  <2>2. /\ files'[Old] = IF delete_original THEN None ELSE files[Old]
        /\ \A p \in Path \ {Old} : files'[p] = files[p]
    BY <1>0, <1>31, <2>1 DEF TypeOK
  <2>3. /\ files[Old] = before[Image] /\ before[Image].kind = "image"
        /\ before[Old] = None \/ "exists" \in ignored
        /\ Output # Image => files[Image] = None
        /\ files[Output] = Rewritten(before[Image].disc)
        /\ "delete" \notin ignored
    BY <2>1 DEF IInv, RenamedYet, Moved
  <2>4. delete_original \in BOOLEAN
    BY <1>0 DEF TypeOK
  <2>5. Local'
    BY <1>31, <2>1, <2>2, <2>3, <2>4 DEF UnchangedYet, RenamedYet, Ended, Moved, Image, Old,
       Output
  <2>6. ASSUME initial[Image].kind = "image", <<Old, initial[Image]>> \notin unseen
        PROVE  Found(Image)'
    <3>1. before[Image] = initial[Image]
      BY <1>31, <2>1, <2>3, <2>6 DEF IInv, Originals, Old, Moved
    <3>2. CASE delete_original
      BY <1>31, <2>1, <2>2, <2>3, <3>1, <3>2 DEF Found, Image, Old, Output
    <3>3. CASE ~delete_original
      BY <1>31, <2>1, <2>2, <2>3, <3>1, <3>3 DEF Found, Image, Old
    <3> QED
      BY <3>2, <3>3
  <2>7. NotKept(Old)
    BY <2>1 DEF IInv, OldFiles, Moved
  <2> QED
    BY <1>30, <2>1, <2>2, <2>5, <2>6, <2>7 DEF Moved
<1> QED
  BY <1>3, <1>4, <1>5, <1>6, <1>7, <1>8, <1>9, <1>10, <1>11, <1>12, <1>13, <1>14,
     <1>15, <1>16, <1>17, <1>18, <1>19, <1>20, <1>21, <1>22, <1>23, <1>24, <1>25,
     <1>26
     DEF Next, Step

-------------------------------------------------------------------------------
LEMMA InvariantIsInductive ==
    ASSUME NoCollision
    PROVE  Spec => []IInv
<1>1. Init => IInv
  BY InvInit
<1>2. IInv /\ [Next]_vars => IInv'
  BY InvNext
<1> QED
  BY <1>1, <1>2, PTL DEF Spec

\* The variables stay within their types, for every batch without collisions.
THEOREM TypeCorrect ==
    ASSUME NoCollision
    PROVE  Spec => []TypeOK
<1>1. IInv => TypeOK
  BY DEF IInv
<1> QED
  BY <1>1, InvariantIsInductive, PTL

\* Wherever the program is killed and whatever call fails, no original of the
\* batch and no ".old" file from before is lost (rewrite_image, write_image),
\* except one under a ".old" name where the look before the rename, whose error
\* is ignored, did not see it.
THEOREM OriginalsAreNeverLost ==
    ASSUME NoCollision
    PROVE  Spec => [](OriginalsSurvive /\ OldFilesKept)
<1>1. IInv => OriginalsSurvive
  BY DEF IInv, Originals, Found, OriginalsSurvive, Survives
<1>2. IInv => OldFilesKept
  BY DEF IInv, OldFiles, NotKept, OldFilesKept
<1> QED
  BY <1>1, <1>2, InvariantIsInductive, PTL

\* A rewrite that throws has put everything back, and one that returns has left
\* a complete output, as far as the calls whose errors are ignored succeeded: the
\* look at the ".old" name, the removals and the rename back.
THEOREM OutcomesAreHonest ==
    ASSUME NoCollision
    PROVE  Spec => [](FailureRestores /\ SuccessIsComplete)
<1>1. IInv => FailureRestores
  BY DEF IInv, Ended, FailureRestores
<1>2. IInv => SuccessIsComplete
  BY DEF IInv, TypeOK, Ended, SuccessIsComplete
<1> QED
  BY <1>1, <1>2, InvariantIsInductive, PTL

-------------------------------------------------------------------------------
\* Wherever a rewrite is left, what it has done so far is a step of the contract.
LEMMA LeftAnywhereKeepsContract ==
    ASSUME NoCollision, IInv, pc # "done", before' = files, job' \in {job + 1, 1},
           ignored' = {}, UNCHANGED delete_original
    PROVE  Contract!Next
<1> job \in 1..Len(Batch) /\ Len(Batch) \in Nat
  BY JobUnderWay, BatchAssumption DEF IInv
<1> SUFFICES Contract!Fail \/ Contract!FailStranded \/ Contract!Succeed
  BY DEF Contract!Next, Contract!Rewrite
<1> USE DEF Contract!Image, Contract!Old, Contract!Output, Contract!OnlyTouches, Contract!None,
            Contract!Partial, Contract!Rewritten, Contract!NothingToKeep,
            Image, Old, Output, None, Partial, Rewritten
<1>1. TypeOK /\ \A p \in Path \ {Image, Old, Output} : files[p] = before[p]
  BY DEF IInv, OthersUntouched
<1>2. Image \in Path /\ Old \in Path /\ Output \in Path /\ Image # Old /\ Output # Old
  BY Apart
<1>3. ASSUME files = before
      PROVE  Contract!Fail
  BY <1>3 DEF Contract!Fail
<1>4. ASSUME Stranded
      PROVE  Contract!FailStranded
  BY <1>1, <1>2, <1>4 DEF Contract!FailStranded, Stranded, OutputBefore
<1>5. CASE pc \in {"look", "check_old", "rename"}
  BY <1>3, <1>5 DEF IInv, UnchangedYet
<1>6. CASE pc \in Moved \ {"delete"}
  BY <1>4, <1>6 DEF IInv, RenamedYet, Stranded, Moved
<1>7. CASE pc = "delete"
  BY <1>1, <1>2, <1>7 DEF IInv, RenamedYet, Moved, Contract!Succeed
<1>8. CASE pc = "failed"
  <2>1. CASE Stranded
    BY <1>4, <2>1
  <2>2. CASE ~Stranded
    BY <1>1, <1>2, <1>8, <2>2 DEF IInv, Ended, Contract!Fail
  <2> QED
    BY <2>1, <2>2
<1>9. CASE pc = "rewritten"
  BY <1>1, <1>2, <1>9 DEF IInv, Ended, Contract!Succeed
<1>10. pc \in {"look", "check_old", "rename", "failed", "rewritten"} \cup Moved
  BY <1>1 DEF TypeOK, Steps, Moved
<1> QED
  BY <1>5, <1>6, <1>7, <1>8, <1>9, <1>10

\* The steps of every rewrite add up to one step of the contract: each image is
\* rewritten or left as it was, and no file beside it, its ".old" file and its
\* output is touched.  A ".old" file that is there is replaced only after the
\* contract's step that overlooks it.
THEOREM RewritesKeepTheContract ==
    ASSUME NoCollision
    PROVE  Spec => ContractHolds
<1>1. Init => Contract!Init
  BY RunAssumption DEF Init, Contract!Init, Contract!Content, Contract!Kinds, Content, Kinds
<1>2. ASSUME IInv, [Next]_vars
      PROVE  [Contract!Next]_Contract!vars
  <2> USE DEF Contract!vars
  <2>1. CASE UNCHANGED vars
    BY <2>1 DEF vars
  <2>2. ASSUME NEW from, NEW to, Goto(from, to),
               NEW what \in {{}, {"remove"}, {"restore"}, {"delete"}},
               ignored' = ignored \cup what
        PROVE  UNCHANGED Contract!vars
    <3>1. ("exists" \in ignored') = ("exists" \in ignored)
      BY <2>2
    <3> QED
      BY <2>2, <3>1 DEF Goto
  <2>3. ASSUME pc # "done", NEW result, Report(result)
        PROVE  Contract!Next
    <3>1. /\ before' = files /\ job' \in {job + 1, 1}
          /\ ignored' = {} /\ UNCHANGED delete_original
      BY <2>3 DEF Report
    <3> QED
      BY <1>2, <2>3, <3>1, LeftAnywhereKeepsContract
  <2>4. CASE KilledAndRunAgain
    <3>1. /\ pc # "done" /\ before' = files /\ job' \in {job + 1, 1}
          /\ ignored' = {} /\ UNCHANGED delete_original
      BY <2>4 DEF KilledAndRunAgain
    <3> QED
      BY <1>2, <3>1, LeftAnywhereKeepsContract
  <2>8. CASE OldIsOverlooked
    <3>1. pc # "done" /\ job \in 1..Len(Batch) /\ before = files
      BY <1>2, <2>8, JobUnderWay DEF IInv, UnchangedYet, OldIsOverlooked
    <3>2. Contract!Overlook
      BY <2>8, <3>1 DEF OldIsOverlooked, Contract!Overlook, Contract!Old, Contract!Image,
         Contract!None, Old, Image, None
    <3> QED
      BY <3>1, <3>2, BatchAssumption DEF Contract!Next
  <2>5. CASE LookSkips \/ LookFails \/ OldExists \/ RenameFails \/ ReportFailed \/ ReportRewritten
    BY <2>3, <2>5 DEF LookSkips, LookFails, OldExists, RenameFails, ReportFailed,
       ReportRewritten
  <2>6. CASE LookPasses \/ OldIsFree \/ Rename \/ ReadTree \/ ReadTreeFails \/ OpenOutput
             \/ OpenFails \/ WriteOutput \/ WriteFails
    BY <2>2, <2>6 DEF LookPasses, OldIsFree, Rename, ReadTree, ReadTreeFails, OpenOutput,
       OpenFails, WriteOutput, WriteFails
  <2>7. CASE RemoveOutput \/ RemoveOutputFails \/ Restore \/ RestoreFails \/ DeleteOld
             \/ DeleteOldFails
    BY <2>2, <2>7 DEF RemoveOutput, RemoveOutputFails, Restore, RestoreFails, DeleteOld,
       DeleteOldFails
  <2> QED
    BY <1>2, <2>1, <2>4, <2>5, <2>6, <2>7, <2>8 DEF Next, Step
<1>3. IInv /\ [Next]_vars => [Contract!Next]_Contract!vars
  BY <1>2
<1> QED
  BY <1>1, <1>3, InvariantIsInductive, PTL DEF Spec, ContractHolds, Contract!Spec
===============================================================================
