--------------------------- MODULE ImageTripProofs ----------------------------
(* What making images leaves behind, and what reading them sees, for any file   *)
(* system, batch and failure and any image, damaged ones included.              *)
EXTENDS ImageTrip, FiniteSetTheorems, SequenceTheorems, WellFoundedInduction, TLAPS

\* A step of the trip is one of these for the images that are made, or none.
CreateNext == CreateStep \/ CreateFailure \/ FileChanges

LEMMA TripStepsCreate ==
    ASSUME [TripNext]_trip_vars
    PROVE  [CreateNext]_create_vars
BY DEF TripNext, trip_vars, create_vars, CreateNext, Create, CreateFails, Change, ReadBack,
       Read, ReadFails, Rewrite

-------------------------------------------------------------------------------
(* The batch: the results so far belong to the groups before the current one.   *)

Result == {"created", "refused", "unwritten", "stuck"}

BatchInv ==
    /\ groups \in Seq([directory : DOMAIN files, output : DOMAIN images])
    /\ DOMAIN images = {n \in DOMAIN files : files[n].kind = "image"}
    /\ group \in 1..(Len(groups) + 1)
    /\ results \in Seq(Result) /\ Len(results) = group - 1
    /\ step \in {"begin", "scan", "write", "remove", "finished", "aborted"}
    /\ step \notin {"finished", "aborted"} => group <= Len(groups)
    /\ step = "finished" => group = Len(groups) + 1
    /\ exit_failure \in BOOLEAN
    /\ exit_failure <=> \E g \in 1..Len(results) : results[g] # "created"

\* A group with output n has ended in one of the outcomes.
Ended(n, outcomes) == \E g \in 1..Len(results) : groups[g].output = n /\ results[g] \in outcomes

LEMMA ReportedResult ==
    ASSUME BatchInv, group <= Len(groups), NEW r \in Result, Report(r),
           UNCHANGED <<files, groups>>, DOMAIN images' = DOMAIN images
    PROVE  /\ BatchInv'
           /\ step' \in {"begin", "finished"}
           /\ \A n, outcomes : Ended(n, outcomes)' <=>
                                   Ended(n, outcomes) \/ (Output = n /\ r \in outcomes)
<1> USE DEF BatchInv
<1>1. /\ Len(results) \in Nat /\ Len(groups) \in Nat /\ group = Len(results) + 1
      /\ results' = Append(results, r)
    BY DEF Report
<1>2. /\ results' \in Seq(Result) /\ Len(results') = Len(results) + 1
      /\ results'[Len(results) + 1] = r
      /\ \A g \in 1..Len(results) : results'[g] = results[g]
    BY <1>1
<1>3. group' = group + 1 /\ group' \in 1..(Len(groups') + 1) /\ Len(results') = group' - 1
    BY <1>1, <1>2 DEF Report
<1>4. /\ step' \in {"begin", "finished"}
      /\ step' # "finished" => group' <= Len(groups')
      /\ step' = "finished" => group' = Len(groups') + 1
    BY <1>1, <1>3 DEF Report
<1>5. 1..Len(results') = 1..Len(results) \cup {Len(results) + 1}
    BY <1>1, <1>2
<1>6. exit_failure' \in BOOLEAN /\ (exit_failure' <=> \E g \in 1..Len(results') : results'[g] # "created")
    <2>1. exit_failure' = (exit_failure \/ r # "created")
        BY DEF Report
    <2>2. (\E g \in 1..Len(results') : results'[g] # "created") <=>
              (\E g \in 1..Len(results) : results[g] # "created") \/ r # "created"
        BY <1>2, <1>5
    <2> QED
        BY <2>1, <2>2
<1>7. ASSUME NEW n, NEW outcomes
      PROVE  Ended(n, outcomes)' <=> Ended(n, outcomes) \/ (Output = n /\ r \in outcomes)
    <2>1. groups'[Len(results) + 1].output = Output
        BY <1>1 DEF Output
    <2> QED
        BY <1>2, <1>5, <2>1 DEF Ended
<1> QED
    BY <1>2, <1>3, <1>4, <1>6, <1>7

\* What leaves the batch where it is.
LEMMA BatchGoesOn ==
    ASSUME BatchInv, UNCHANGED <<groups, group, results, exit_failure>>,
           DOMAIN files' = DOMAIN files, DOMAIN images' = DOMAIN images,
           {n \in DOMAIN files' : files'[n].kind = "image"} = {n \in DOMAIN files : files[n].kind = "image"},
           step' \in {"begin", "scan", "write", "remove", "aborted"},
           step' # "aborted" => group <= Len(groups)
    PROVE  BatchInv' /\ \A n, outcomes : Ended(n, outcomes)' = Ended(n, outcomes)
BY DEF BatchInv, Ended

-------------------------------------------------------------------------------
(* What is left of the images: only the group being worked on can have a part   *)
(* of one, or a group before whose image could not be removed.                  *)

LeftBehind ==
    /\ step = "scan" => images = before
    /\ step = "write" => images[Output].state = "partial"
    /\ \A n \in DOMAIN images :
          /\ images[n].state = "partial" =>
                Ended(n, {"stuck"}) \/ (step \in {"write", "remove"} /\ Output = n)
          /\ images[n].state = "earlier" => ~Ended(n, {"created", "unwritten"})

CreateInv == BatchInv /\ LeftBehind

LEMMA CreateStarts == CreateInit => CreateInv
<1> SUFFICES ASSUME CreateInit PROVE CreateInv
    OBVIOUS
<1>1. PICK b \in Batches : files = b.files /\ groups = b.groups
    BY DEF CreateInit
<1>2. /\ groups \in Seq([directory : DOMAIN files, output : DOMAIN images])
      /\ DOMAIN images = {n \in DOMAIN files : files[n].kind = "image"}
    BY <1>1, CreateAssumption DEF CreateInit
<1>3. /\ Len(groups) \in Nat /\ (groups = << >> <=> Len(groups) = 0)
    BY <1>2
<1>4. BatchInv
    <2>1. group = 1 /\ results = << >> /\ exit_failure = FALSE
          /\ step = IF groups = << >> THEN "finished" ELSE "begin"
        BY DEF CreateInit
    <2>2. results \in Seq(Result) /\ Len(results) = 0
        BY <2>1
    <2>3. ~ \E g \in 1..Len(results) : results[g] # "created"
        BY <2>2
    <2>4. group \in 1..(Len(groups) + 1) /\ Len(results) = group - 1
        BY <1>3, <2>1, <2>2
    <2>5. /\ step \in {"begin", "finished"}
          /\ step # "finished" => group <= Len(groups)
          /\ step = "finished" => group = Len(groups) + 1
        BY <1>3, <2>1
    <2> QED
        BY <1>2, <2>1, <2>2, <2>3, <2>4, <2>5 DEF BatchInv
<1>5. \A n \in DOMAIN images : images[n] \in {Absent, Earlier}
    BY <1>2 DEF CreateInit
<1>6. LeftBehind
    BY <1>4, <1>5 DEF CreateInit, LeftBehind, Ended, Absent, Earlier
<1> QED
    BY <1>4, <1>6 DEF CreateInv

LEMMA CreateKeeps == CreateInv /\ [CreateNext]_create_vars => CreateInv'
<1> SUFFICES ASSUME CreateInv, [CreateNext]_create_vars PROVE CreateInv'
    OBVIOUS
<1> USE DEF CreateInv
<1>0. step \notin {"finished", "aborted"} =>
          group <= Len(groups) /\ group \in 1..Len(groups) /\ Output \in DOMAIN images
    <2> SUFFICES ASSUME step \notin {"finished", "aborted"}
                 PROVE  group <= Len(groups) /\ group \in 1..Len(groups) /\ Output \in DOMAIN images
        OBVIOUS
    <2>1. group <= Len(groups) /\ group \in 1..Len(groups)
        BY DEF BatchInv
    <2>2. groups[group] \in [directory : DOMAIN files, output : DOMAIN images]
        <3>1. groups \in Seq([directory : DOMAIN files, output : DOMAIN images])
            BY DEF BatchInv
        <3> QED
            BY <2>1, <3>1, ElementOfSeq
    <2> QED
        BY <2>1, <2>2 DEF Output
<1>1. CASE BeginScan
    <2>1. BatchInv' /\ \A n, outcomes : Ended(n, outcomes)' = Ended(n, outcomes)
        BY <1>1, <1>0, BatchGoesOn DEF BeginScan
    <2> QED
        BY <1>1, <2>1 DEF BeginScan, LeftBehind
<1>2. CASE NotADirectory \/ NoAccess
    <2>1. /\ step = "begin" /\ Report("refused") /\ "refused" \in Result
          /\ UNCHANGED <<files, groups, images>>
        BY <1>2 DEF NotADirectory, NoAccess, Result
    <2>2. /\ BatchInv' /\ step' \in {"begin", "finished"}
          /\ \A n, outcomes : Ended(n, outcomes)' <=>
                                   Ended(n, outcomes) \/ (Output = n /\ "refused" \in outcomes)
        BY <2>1, <1>0, ReportedResult
    <2> QED
        BY <2>1, <2>2 DEF LeftBehind
<1>3. CASE NoWorkingDirectory
    <2>1. BatchInv' /\ \A n, outcomes : Ended(n, outcomes)' = Ended(n, outcomes)
        BY <1>3, <1>0, BatchGoesOn DEF NoWorkingDirectory
    <2> QED
        BY <1>3, <2>1 DEF NoWorkingDirectory, LeftBehind
<1>4. CASE Ignore \/ AddFile \/ EnterDirectory \/ AddDirectory
    <2>1. step = "scan" /\ UNCHANGED <<files, groups, group, step, images, before, results, exit_failure>>
        BY <1>4 DEF Ignore, AddFile, EnterDirectory, AddDirectory
    <2>2. BatchInv' /\ \A n, outcomes : Ended(n, outcomes)' = Ended(n, outcomes)
        BY <2>1, <1>0, BatchGoesOn
    <2> QED
        BY <2>1, <2>2 DEF LeftBehind
<1>5. CASE RefuseEntry \/ ScanFails
    <2>1. /\ step = "scan" /\ Report("refused") /\ "refused" \in Result
          /\ UNCHANGED <<files, groups, images>>
        BY <1>5 DEF RefuseEntry, ScanFails, Refuse, Result
    <2>2. /\ BatchInv' /\ step' \in {"begin", "finished"}
          /\ \A n, outcomes : Ended(n, outcomes)' <=>
                                   Ended(n, outcomes) \/ (Output = n /\ "refused" \in outcomes)
        BY <2>1, <1>0, ReportedResult
    <2> QED
        BY <2>1, <2>2 DEF LeftBehind
<1>6. CASE OpenOutput
    <2>1. /\ step = "scan" /\ step' = "write" /\ UNCHANGED <<files, groups, group, results, exit_failure>>
          /\ images' = [images EXCEPT ![Output] = Partial]
        BY <1>6 DEF OpenOutput
    <2>2. BatchInv' /\ \A n, outcomes : Ended(n, outcomes)' = Ended(n, outcomes)
        BY <2>1, <1>0, BatchGoesOn
    <2>3. /\ Output' = Output /\ images'[Output].state = "partial"
          /\ \A n \in DOMAIN images : n # Output => images'[n] = images[n]
        BY <2>1, <1>0 DEF Output, Partial
    <2> QED
        BY <2>1, <2>2, <2>3 DEF LeftBehind
<1>7. CASE OpenFails
    <2>1. BatchInv' /\ \A n, outcomes : Ended(n, outcomes)' = Ended(n, outcomes)
        BY <1>7, <1>0, BatchGoesOn DEF OpenFails
    <2> QED
        BY <1>7, <2>1 DEF OpenFails, LeftBehind
<1>8. CASE CopyFile
    <2>1. BatchInv' /\ \A n, outcomes : Ended(n, outcomes)' = Ended(n, outcomes)
        BY <1>8, <1>0, BatchGoesOn DEF CopyFile
    <2> QED
        BY <1>8, <2>1 DEF CopyFile, LeftBehind, Output
<1>9. CASE FinishImage
    <2>1. /\ step = "write" /\ Report("created") /\ "created" \in Result
          /\ UNCHANGED <<files, groups>>
          /\ images' = [images EXCEPT ![Output] = Whole(tree)]
        BY <1>9 DEF FinishImage, Result
    <2>2. /\ BatchInv' /\ step' \in {"begin", "finished"}
          /\ \A n, outcomes : Ended(n, outcomes)' <=>
                                   Ended(n, outcomes) \/ (Output = n /\ "created" \in outcomes)
        BY <2>1, <1>0, ReportedResult
    <2>3. /\ images'[Output].state = "whole"
          /\ \A n \in DOMAIN images : n # Output => images'[n] = images[n]
        BY <2>1, <1>0 DEF Whole
    <2> QED
        BY <2>1, <2>2, <2>3 DEF LeftBehind
<1>10. CASE FileIsGone \/ WriteFails
    <2>1. /\ step = "write" /\ step' = "remove"
          /\ UNCHANGED <<files, groups, group, images, results, exit_failure>>
        BY <1>10 DEF FileIsGone, WriteFails
    <2>2. BatchInv' /\ \A n, outcomes : Ended(n, outcomes)' = Ended(n, outcomes)
        BY <2>1, <1>0, BatchGoesOn
    <2> QED
        BY <2>1, <2>2 DEF LeftBehind, Output
<1>11. CASE RemoveOutput
    <2>1. /\ step = "remove" /\ Report("unwritten") /\ "unwritten" \in Result
          /\ UNCHANGED <<files, groups>>
          /\ images' = [images EXCEPT ![Output] = Absent]
        BY <1>11 DEF RemoveOutput, Result
    <2>2. /\ BatchInv' /\ step' \in {"begin", "finished"}
          /\ \A n, outcomes : Ended(n, outcomes)' <=>
                                   Ended(n, outcomes) \/ (Output = n /\ "unwritten" \in outcomes)
        BY <2>1, <1>0, ReportedResult
    <2>3. /\ images'[Output].state = "absent"
          /\ \A n \in DOMAIN images : n # Output => images'[n] = images[n]
        BY <2>1, <1>0 DEF Absent
    <2> QED
        BY <2>1, <2>2, <2>3 DEF LeftBehind
<1>12. CASE RemoveFails
    <2>1. /\ step = "remove" /\ Report("stuck") /\ "stuck" \in Result
          /\ UNCHANGED <<files, groups, images>>
        BY <1>12 DEF RemoveFails, Result
    <2>2. /\ BatchInv' /\ step' \in {"begin", "finished"}
          /\ \A n, outcomes : Ended(n, outcomes)' <=>
                                   Ended(n, outcomes) \/ (Output = n /\ "stuck" \in outcomes)
        BY <2>1, <1>0, ReportedResult
    <2> QED
        BY <2>1, <2>2 DEF LeftBehind
<1>13. CASE FileChanges
    <2>1. /\ step = "write"
          /\ UNCHANGED <<groups, group, step, images, results, exit_failure>>
        BY <1>13 DEF FileChanges
    <2>2. PICK node, now :
              /\ now \in [kind : {"file"}, size : 0..(MaxSize + 1)] \cup {[kind |-> "dangling"]}
              /\ files[node].kind = "file"
              /\ files' = [files EXCEPT ![node] = now]
        BY <1>13 DEF FileChanges
    <2>3. now.kind # "image"
        BY <2>2
    <2>4. /\ DOMAIN files' = DOMAIN files
          /\ {n \in DOMAIN files' : files'[n].kind = "image"} = {n \in DOMAIN files : files[n].kind = "image"}
        BY <2>2, <2>3
    <2>5. BatchInv' /\ \A n, outcomes : Ended(n, outcomes)' = Ended(n, outcomes)
        BY <2>1, <2>4, <1>0, BatchGoesOn
    <2> QED
        BY <2>1, <2>5 DEF LeftBehind, Output
<1>14. CASE UNCHANGED create_vars
    <2>1. UNCHANGED <<files, groups, group, step, images, before, results, exit_failure>>
        BY <1>14 DEF create_vars
    <2> QED
        BY <2>1 DEF BatchInv, LeftBehind, Ended, Output
<1> QED
    BY <1>1, <1>2, <1>3, <1>4, <1>5, <1>6, <1>7, <1>8, <1>9, <1>10, <1>11, <1>12, <1>13, <1>14
       DEF CreateNext, CreateStep, CreateFailure

\* All images were made when every group has said so.
LEMMA AllMade ==
    ASSUME BatchInv, step = "finished"
    PROVE  exit_failure <=> Cardinality(Made) < Len(groups)
<1>1. /\ DOMAIN results = 1..Len(groups) /\ Len(results) = Len(groups) /\ Len(groups) \in Nat
    <2>1. Len(groups) \in Nat /\ Len(results) = Len(groups)
        BY DEF BatchInv
    <2>2. results \in Seq(Result)
        BY DEF BatchInv
    <2>3. DOMAIN results = 1..Len(results)
        BY <2>2
    <2> QED
        BY <2>1, <2>3
<1>2. /\ IsFiniteSet(1..Len(groups)) /\ Cardinality(1..Len(groups)) = Len(groups)
    <2>1. /\ IsFiniteSet(1..Len(groups))
          /\ Cardinality(1..Len(groups)) = IF 1 > Len(groups) THEN 0 ELSE Len(groups) - 1 + 1
        <3>1. 1 \in Int /\ Len(groups) \in Int
            BY <1>1
        <3> QED
            BY <3>1, FS_Interval, Zenon
    <2> QED
        BY <1>1, <2>1
<1>3. Made \in SUBSET (1..Len(groups))
    BY <1>1 DEF Made
<1>4. /\ Cardinality(Made) <= Len(groups)
      /\ Cardinality(Made) = Len(groups) => Made = 1..Len(groups)
      /\ Cardinality(Made) \in Nat
    <2>1. /\ IsFiniteSet(Made) /\ Cardinality(Made) <= Cardinality(1..Len(groups))
          /\ Cardinality(1..Len(groups)) = Cardinality(Made) => 1..Len(groups) = Made
        BY <1>2, <1>3, FS_Subset
    <2>2. Cardinality(Made) \in Nat
        BY <2>1, FS_CardinalityType
    <2> QED
        BY <1>2, <2>1, <2>2
<1>5. exit_failure <=> Made # 1..Len(groups)
    BY <1>1 DEF BatchInv, Made
<1> QED
    BY <1>1, <1>2, <1>4, <1>5

LEMMA CreateInvIsEnough == CreateInv => FailureLeavesNoImage
<1> SUFFICES ASSUME CreateInv PROVE FailureLeavesNoImage
    OBVIOUS
<1>1. DOMAIN results = 1..Len(results)
    BY DEF CreateInv, BatchInv
<1>2. step = "finished" => (exit_failure <=> Cardinality(Made) < Len(groups))
    BY AllMade DEF CreateInv
<1>3. step = "scan" => images = before
    BY DEF CreateInv, LeftBehind
<1>4. ASSUME NEW n \in DOMAIN images
      PROVE  LET Of(outcomes) == {g \in DOMAIN results :
                                     groups[g].output = n /\ results[g] \in outcomes}
             IN  /\ images[n].state = "partial" => Of({"stuck"}) # {} \/ step \in {"write", "remove"}
                 /\ images[n].state = "earlier" => Of({"created", "unwritten"}) = {}
    BY <1>1 DEF CreateInv, LeftBehind, Ended
<1> QED
    BY <1>2, <1>3, <1>4 DEF FailureLeavesNoImage

\* Whatever goes wrong, no part of an image is left behind, unless it could not
\* be removed, and the exit code tells.
THEOREM NoPartOfAnImageStays == TripSpec => []FailureLeavesNoImage
<1>1. TripInit => CreateInv
    BY CreateStarts DEF TripInit
<1>2. CreateInv /\ [TripNext]_trip_vars => CreateInv'
    BY TripStepsCreate, CreateKeeps
<1> QED
    BY <1>1, <1>2, CreateInvIsEnough, PTL DEF TripSpec

-------------------------------------------------------------------------------
(* The numbers: the least of a set, and counting up from 0. *)
LEMMA LeastNumber ==
    ASSUME NEW S \in SUBSET Nat, S # {}
    PROVE  \E n \in S : \A m \in S : n <= m
<1>1. IsWellFoundedOn(OpToRel(<, Nat), Nat)
  BY NatLessThanWellFounded, Zenon
<1>2. PICK n \in S : \A m \in S : ~(<<m, n>> \in OpToRel(<, Nat))
  BY <1>1, WFMin, Zenon
<1>3. \A m \in S : ~(m < n)
  BY <1>2 DEF OpToRel
<1>4. n \in Nat /\ \A m \in S : m \in Nat
  OBVIOUS
<1> QED
  BY <1>3, <1>4

LEMMA Counting ==
    ASSUME NEW S, 0 \in S, \A n \in Nat : n \in S => n + 1 \in S
    PROVE  Nat \subseteq S
<1> SUFFICES ASSUME Nat \ S # {}
             PROVE  FALSE
  OBVIOUS
<1>1. PICK n \in Nat \ S : \A m \in Nat \ S : n <= m
  BY LeastNumber
<1>2. n # 0 /\ n - 1 \in Nat /\ ~(n <= n - 1)
  BY <1>1
<1> QED
  BY <1>1, <1>2

-------------------------------------------------------------------------------
(* The walk: what its variables can be. *)

Found == image[partition]

RecordsOf(volume) == UNION {Walk!Range(table.records) : table \in Walk!Range(volume.tables)}

StartsOf(volume) == {volume.root} \cup {r.start : r \in RecordsOf(volume)}

FrameSet == [sector : StartsOf(Found), path : Seq(DOMAIN Key), next : Nat \ {0}]
SeenSet == [path : Seq(DOMAIN Key) \ {<< >>}, record : RecordsOf(Found)]
MadeSet == [kind : {"directory", "file"}, size : Nat, content : {<< >>} \cup StartsOf(Found)]

ImageIsSound == image \in Seq(Walk!Range(image)) /\ \A volume \in Walk!Range(image) : Walk!IsVolume(volume)

NothingCounted == [files |-> 0, bytes |-> 0]

\* While a file is extracted, as much of it is on the disk as has been copied.
AtFile ==
    /\ Walk!Top.next <= Len(Walk!Records)
    /\ mode = "extract" /\ ~Walk!Record.is_directory /\ ~Walk!Skipped(Walk!Record)
    /\ Walk!Path \in DOMAIN disk
    /\ disk[Walk!Path] = [kind |-> "file", size |-> copied, content |-> Walk!Record.start]
    /\ copied <= Walk!Record.size /\ copied <= Walk!Record.there

WalkTyped ==
    /\ ImageIsSound
    /\ mode \in Walk!Modes /\ skip_system_update \in BOOLEAN
    /\ partition \in 0..Len(image)
    /\ pc \in {"open", "walk", "extract", "done", "refused", "failed"}
    /\ frames \in Seq(FrameSet) /\ seen \in Seq(SeenSet)
    /\ disk \in [DOMAIN disk -> MadeSet]
    /\ copied \in Nat /\ statistics \in [files : Nat, bytes : Nat]
    /\ \A k \in 1..Len(frames) : frames[k].next <= Len(Walk!TableOf(Found, frames[k].sector).records) + 1
    /\ Len(frames) <= MaxDepth + 1
    /\ mode # "extract" => disk = << >>
    /\ mode = "read" => statistics = NothingCounted
    /\ partition = 0 => frames = << >> /\ seen = << >> /\ disk = << >> /\ statistics = NothingCounted
    /\ pc = "open" => partition = 0
    /\ pc \in {"walk", "extract"} => frames # << >>
    /\ pc = "extract" => AtFile

LEMMA SomeTable ==
    ASSUME NEW volume, Walk!IsVolume(volume), NEW sector
    PROVE  /\ Walk!TableOf(volume, sector).records \in Seq(RecordsOf(volume))
           /\ Walk!TableOf(volume, sector).sound \in BOOLEAN
           /\ \A r \in Walk!Range(Walk!TableOf(volume, sector).records) :
                 /\ r \in RecordsOf(volume) /\ r.start \in StartsOf(volume)
                 /\ r.is_directory \in BOOLEAN /\ r.name \in DOMAIN Key
                 /\ r.size \in Nat /\ r.there \in Nat
<1> DEFINE table == Walk!TableOf(volume, sector)
<1>1. CASE sector \in DOMAIN volume.tables
  <2>1. table \in Walk!Range(volume.tables)
    BY <1>1 DEF Walk!TableOf, Walk!Range
  <2> HIDE DEF table
  <2>2. /\ table.records \in Seq(Walk!Range(table.records)) /\ table.sound \in BOOLEAN
        /\ \A r \in Walk!Range(table.records) :
               /\ r.is_directory \in BOOLEAN /\ r.name \in DOMAIN Key
               /\ r.size \in Nat /\ r.there \in Nat
    BY <2>1 DEF Walk!IsVolume
  <2>3. Walk!Range(table.records) \subseteq RecordsOf(volume)
    BY <2>1 DEF RecordsOf
  <2>4. table.records \in Seq(RecordsOf(volume))
    BY <2>2, <2>3
  <2>5. \A r \in Walk!Range(table.records) : r.start \in StartsOf(volume)
    BY <2>3 DEF StartsOf
  <2> QED
    BY <2>2, <2>3, <2>4, <2>5 DEF table
<1>2. CASE sector \notin DOMAIN volume.tables
  <2>1. table = [records |-> << >>, sound |-> FALSE]
    BY <1>2 DEF Walk!TableOf, Walk!Unreadable
  <2>2. table.records = << >> /\ table.sound = FALSE /\ Walk!Range(table.records) = {}
    BY <2>1 DEF Walk!Range
  <2>3. table.records \in Seq(RecordsOf(volume))
    BY <2>2
  <2> HIDE DEF table
  <2> QED
    BY <2>2, <2>3 DEF table
<1> QED
  BY <1>1, <1>2

LEMMA SeqAndRange ==
    ASSUME NEW S, NEW s \in Seq(S)
    PROVE  /\ \A i \in 1..Len(s) : s[i] \in Walk!Range(s)
           /\ \A x \in Walk!Range(s) : x \in S /\ \E i \in 1..Len(s) : x = s[i]
<1>1. DOMAIN s = 1..Len(s) /\ \A i \in 1..Len(s) : s[i] \in S
  BY ElementOfSeq
<1>2. \A i \in 1..Len(s) : s[i] \in Walk!Range(s)
  BY <1>1 DEF Walk!Range
<1>3. ASSUME NEW x \in Walk!Range(s)
      PROVE  x \in S /\ \E i \in 1..Len(s) : x = s[i]
  <2>1. PICK i \in 1..Len(s) : x = s[i]
    BY <1>1 DEF Walk!Range
  <2> QED
    BY <1>1, <2>1
<1> QED
  BY <1>2, <1>3

LEMMA FoundIsVolume ==
    ASSUME WalkTyped, partition # 0
    PROVE  Walk!IsVolume(Found)
<1>1. image \in Seq(Walk!Range(image)) /\ partition \in 1..Len(image)
  BY DEF WalkTyped, ImageIsSound
<1>2. image[partition] \in Walk!Range(image)
  BY <1>1, ElementOfSeq, Zenon
<1> QED
  BY <1>2 DEF WalkTyped, ImageIsSound, Found

LEMMA TopFrame ==
    ASSUME WalkTyped, frames # << >>
    PROVE  /\ partition # 0
           /\ Len(frames) \in Nat \ {0}
           /\ Walk!Top \in FrameSet
           /\ Walk!Records \in Seq(RecordsOf(Found))
           /\ Walk!Top.next <= Len(Walk!Records) + 1
           /\ Walk!TableAt(Walk!Top.sector).sound \in BOOLEAN
<1>1. partition # 0 /\ frames \in Seq(FrameSet)
  BY DEF WalkTyped
<1>2. Len(frames) \in Nat \ {0}
  BY <1>1
<1>3. Walk!Top \in FrameSet
  BY <1>1, <1>2, ElementOfSeq DEF Walk!Top
<1>4. Walk!IsVolume(Found)
  BY <1>1, FoundIsVolume
<1>5. Walk!Records \in Seq(RecordsOf(Found)) /\ Walk!TableAt(Walk!Top.sector).sound \in BOOLEAN
  BY <1>4, SomeTable DEF Walk!Records, Walk!TableAt, Found
<1>6. Walk!Top.next <= Len(Walk!Records) + 1
  <2>1. /\ Walk!Records = Walk!TableOf(Found, frames[Len(frames)].sector).records
        /\ Walk!Top = frames[Len(frames)] /\ Len(frames) \in 1..Len(frames)
    BY <1>2 DEF Walk!Records, Walk!Top, Walk!TableAt, Found
  <2>2. \A k \in 1..Len(frames) : frames[k].next <= Len(Walk!TableOf(Found, frames[k].sector).records) + 1
    BY DEF WalkTyped
  <2> QED
    BY <2>1, <2>2
<1> QED
  BY <1>1, <1>2, <1>3, <1>5, <1>6

LEMMA ThisRecord ==
    ASSUME WalkTyped, frames # << >>, Walk!Top.next <= Len(Walk!Records)
    PROVE  /\ Walk!Record \in Walk!Range(Walk!Records)
           /\ Walk!Record \in RecordsOf(Found) /\ Walk!Record.start \in StartsOf(Found)
           /\ Walk!Record.is_directory \in BOOLEAN /\ Walk!Record.name \in DOMAIN Key
           /\ Walk!Record.size \in Nat /\ Walk!Record.there \in Nat
           /\ Walk!Top.next \in 1..Len(Walk!Records)
           /\ Walk!Path \in Seq(DOMAIN Key) \ {<< >>}
           /\ [path |-> Walk!Path, record |-> Walk!Record] \in SeenSet
           /\ Walk!Frame(Walk!Record.start, Walk!Path) \in FrameSet
<1>1. /\ partition # 0 /\ Walk!Top \in FrameSet /\ Walk!Records \in Seq(RecordsOf(Found))
  BY TopFrame
<1>2. Walk!Top.next \in 1..Len(Walk!Records)
  BY <1>1 DEF FrameSet
<1>3. Walk!Record \in Walk!Range(Walk!Records)
  <2>1. \A i \in 1..Len(Walk!Records) : Walk!Records[i] \in Walk!Range(Walk!Records)
    BY <1>1, SeqAndRange
  <2> QED
    BY <1>2, <2>1 DEF Walk!Record
<1>4. Walk!IsVolume(Found)
  BY <1>1, FoundIsVolume
<1>5. \A r \in Walk!Range(Walk!Records) :
          /\ r \in RecordsOf(Found) /\ r.start \in StartsOf(Found)
          /\ r.is_directory \in BOOLEAN /\ r.name \in DOMAIN Key
          /\ r.size \in Nat /\ r.there \in Nat
  BY <1>4, SomeTable DEF Walk!Records, Walk!TableAt, Found
<1>6. Walk!Path \in Seq(DOMAIN Key) \ {<< >>}
  <2>1. Walk!Top.path \in Seq(DOMAIN Key) /\ Walk!Record.name \in DOMAIN Key
    BY <1>1, <1>3, <1>5 DEF FrameSet
  <2> QED
    BY <2>1 DEF Walk!Path
<1>7. /\ Walk!Record \in RecordsOf(Found) /\ Walk!Record.start \in StartsOf(Found)
      /\ Walk!Record.is_directory \in BOOLEAN /\ Walk!Record.name \in DOMAIN Key
      /\ Walk!Record.size \in Nat /\ Walk!Record.there \in Nat
  BY <1>3, <1>5
<1>8. [path |-> Walk!Path, record |-> Walk!Record] \in SeenSet
  BY <1>6, <1>7 DEF SeenSet
<1>9. Walk!Frame(Walk!Record.start, Walk!Path) \in FrameSet
  BY <1>6, <1>7 DEF FrameSet, Walk!Frame
<1> QED
  BY <1>2, <1>3, <1>6, <1>7, <1>8, <1>9

\* What becomes of the frames when a record has been dealt with.
LEMMA PassedFrames ==
    ASSUME WalkTyped, frames # << >>, Walk!Top.next <= Len(Walk!Records)
    PROVE  /\ Walk!Passed \in Seq(FrameSet) /\ Len(Walk!Passed) = Len(frames)
           /\ Walk!Passed # << >>
           /\ \A k \in 1..Len(frames) : k # Len(frames) => Walk!Passed[k] = frames[k]
           /\ \A k \in 1..Len(frames) : /\ Walk!Passed[k].sector = frames[k].sector
                                        /\ Walk!Passed[k].path = frames[k].path
           /\ Walk!Passed[Len(frames)].next = Walk!Top.next + 1
<1>1. frames \in Seq(FrameSet) /\ Len(frames) \in Nat \ {0} /\ Walk!Top \in FrameSet
  BY TopFrame DEF WalkTyped
<1>2. frames[Len(frames)] = Walk!Top
  BY DEF Walk!Top
<1> DEFINE new == [Walk!Top EXCEPT !.next = @ + 1]
<1>3. new \in FrameSet /\ new.sector = Walk!Top.sector /\ new.path = Walk!Top.path
      /\ new.next = Walk!Top.next + 1
  <2>1. PICK sector \in StartsOf(Found), path \in Seq(DOMAIN Key), next \in Nat \ {0} :
            Walk!Top = [sector |-> sector, path |-> path, next |-> next]
    BY <1>1 DEF FrameSet
  <2>2. new = [sector |-> sector, path |-> path, next |-> next + 1]
    BY <2>1
  <2> HIDE DEF new
  <2> QED
    BY <2>1, <2>2 DEF FrameSet
<1>4. Walk!Passed = [frames EXCEPT ![Len(frames)] = new]
  BY <1>2 DEF Walk!Passed
<1> HIDE DEF new
<1>5. Walk!Passed \in Seq(FrameSet) /\ Len(Walk!Passed) = Len(frames)
  BY <1>1, <1>3, <1>4
<1>6. Walk!Passed[Len(frames)] = new
      /\ \A k \in 1..Len(frames) : k # Len(frames) => Walk!Passed[k] = frames[k]
  BY <1>1, <1>4
<1>7. Walk!Passed # << >>
  BY <1>1, <1>5
<1> QED
  BY <1>2, <1>3, <1>5, <1>6, <1>7

\* What a step within a walk may change.
LEMMA SameVolume ==
    ASSUME UNCHANGED <<image, partition>>
    PROVE  /\ FrameSet' = FrameSet /\ SeenSet' = SeenSet /\ MadeSet' = MadeSet
           /\ ImageIsSound' = ImageIsSound /\ Found' = Found
BY DEF FrameSet, SeenSet, MadeSet, ImageIsSound, Found

LEMMA MinOfIndices ==
    ASSUME NEW n \in Nat, NEW S \in SUBSET (1..n), S # {}
    PROVE  Walk!Min(S) \in S /\ \A i \in S : Walk!Min(S) <= i
<1> SUFFICES \E m \in S : \A i \in S : m <= i
  BY DEF Walk!Min
<1>1. S \in SUBSET Nat
  OBVIOUS
<1> QED
  BY <1>1, LeastNumber, Zenon

LEMMA EndKeepsTypes ==
    ASSUME WalkTyped, NEW result \in {"done", "refused", "failed"}, Walk!End(result)
    PROVE  WalkTyped'
<1>1. /\ UNCHANGED <<image, mode, skip_system_update, partition, frames, seen, disk, copied, statistics>>
      /\ pc' = result
  BY DEF Walk!End, Walk!inputs
<1>2. /\ FrameSet' = FrameSet /\ SeenSet' = SeenSet /\ MadeSet' = MadeSet
      /\ ImageIsSound' = ImageIsSound /\ Found' = Found
  BY <1>1, SameVolume
<1>3. \A k \in 1..Len(frames') : frames'[k].next <= Len(Walk!TableOf(Found', frames'[k].sector).records) + 1
  BY <1>1, <1>2 DEF WalkTyped
<1> QED
  BY <1>1, <1>2, <1>3 DEF WalkTyped

LEMMA OpeningKeepsTypes ==
    ASSUME WalkTyped, Walk!OpenVolume, Walk!TreeWalkAssumption
    PROVE  WalkTyped' /\ partition' # 0
<1> DEFINE first == Walk!Min(Walk!WithMagic)
<1>1. /\ pc = "open" /\ Walk!WithMagic # {} /\ partition' = first
      /\ frames' = <<Walk!Frame(image[first].root, << >>)>>
      /\ disk' = IF mode = "extract" THEN [p \in {<< >>} |-> Walk!Directory] ELSE disk
      /\ pc' = "walk"
      /\ UNCHANGED <<image, mode, skip_system_update, seen, copied, statistics>>
  BY DEF Walk!OpenVolume, Walk!inputs
<1>2. /\ seen = << >> /\ disk = << >> /\ frames = << >>
  BY <1>1 DEF WalkTyped
<1>3. first \in 1..Len(image)
  <2>1. Len(image) \in Nat /\ Walk!WithMagic \in SUBSET (1..Len(image))
    BY DEF WalkTyped, ImageIsSound, Walk!WithMagic
  <2> QED
    BY <1>1, <2>1, MinOfIndices
<1> HIDE DEF first
<1>4. partition' \in 0..Len(image) /\ partition' # 0
  BY <1>1, <1>3
<1>5. frames' \in Seq(FrameSet') /\ Len(frames') = 1 /\ frames'[1].next = 1
  <2>1. Walk!Frame(image[first].root, << >>) \in FrameSet'
    <3>1. image[first].root \in StartsOf(Found)'
      BY <1>1 DEF Found, StartsOf
    <3>2. << >> \in Seq(DOMAIN Key)
      OBVIOUS
    <3> QED
      BY <3>1, <3>2 DEF FrameSet, Walk!Frame
  <2> QED
    BY <1>1, <2>1 DEF Walk!Frame
<1>6. seen' \in Seq(SeenSet')
  BY <1>1, <1>2
<1>7. disk' \in [DOMAIN disk' -> MadeSet'] /\ (mode # "extract" => disk' = << >>)
  BY <1>1, <1>2 DEF MadeSet, Walk!Directory
<1>8. \A k \in 1..Len(frames') : frames'[k].next <= Len(Walk!TableOf(Found', frames'[k].sector).records) + 1
  <2>1. ImageIsSound' /\ image' = image /\ partition' \in 1..Len(image)
    BY <1>1, <1>3 DEF ImageIsSound, WalkTyped
  <2>2. Walk!IsVolume(Found')
    <3>1. Found' = image[partition']
      BY <1>1 DEF Found
    <3>2. image \in Seq(Walk!Range(image)) /\ \A volume \in Walk!Range(image) : Walk!IsVolume(volume)
      BY DEF WalkTyped, ImageIsSound
    <3>3. image[partition'] \in Walk!Range(image)
      BY <2>1, <3>2, ElementOfSeq, Zenon
    <3> QED
      BY <3>1, <3>2, <3>3
  <2>3. Walk!TableOf(Found', frames'[1].sector).records \in Seq(RecordsOf(Found'))
    BY <2>2, SomeTable
  <2>4. Len(Walk!TableOf(Found', frames'[1].sector).records) \in Nat
    BY <2>3
  <2> QED
    BY <1>5, <2>4
<1>9. Len(frames') <= MaxDepth + 1
  BY <1>5 DEF Walk!TreeWalkAssumption
<1>10. frames' # << >>
  BY <1>1
<1> QED
  BY <1>1, <1>2, <1>4, <1>5, <1>6, <1>7, <1>8, <1>9, <1>10 DEF WalkTyped, ImageIsSound

LEMMA WalkGoesOn ==
    ASSUME WalkTyped, frames # << >>, UNCHANGED <<image, mode, skip_system_update, partition>>,
           frames' \in Seq(FrameSet), Len(frames') <= MaxDepth + 1,
           \A k \in 1..Len(frames') :
               frames'[k].next <= Len(Walk!TableOf(Found, frames'[k].sector).records) + 1,
           seen' \in Seq(SeenSet), disk' \in [DOMAIN disk' -> MadeSet],
           copied' \in Nat, statistics' \in [files : Nat, bytes : Nat],
           mode # "extract" => disk' = disk, mode = "read" => statistics' = statistics,
           pc' \in {"walk", "extract", "done", "refused"},
           pc' \in {"walk", "extract"} => frames' # << >>,
           pc' = "extract" => AtFile'
    PROVE  WalkTyped'
<1>1. /\ FrameSet' = FrameSet /\ SeenSet' = SeenSet /\ MadeSet' = MadeSet
      /\ ImageIsSound' = ImageIsSound /\ Found' = Found
  BY SameVolume
<1>2. partition' # 0
  BY TopFrame
<1> QED
  BY <1>1, <1>2 DEF WalkTyped

LEMMA PassingKeepsTypes ==
    ASSUME WalkTyped, frames # << >>, Walk!Top.next <= Len(Walk!Records)
    PROVE  /\ Walk!Passed \in Seq(FrameSet) /\ Walk!Passed # << >>
           /\ Len(Walk!Passed) \in Nat /\ Len(Walk!Passed) = Len(frames)
           /\ Len(Walk!Passed) <= MaxDepth + 1
           /\ \A k \in 1..Len(Walk!Passed) :
                 Walk!Passed[k].next <= Len(Walk!TableOf(Found, Walk!Passed[k].sector).records) + 1
<1>1. /\ Walk!Passed \in Seq(FrameSet) /\ Len(Walk!Passed) = Len(frames)
      /\ Walk!Passed # << >>
      /\ \A k \in 1..Len(frames) : k # Len(frames) => Walk!Passed[k] = frames[k]
      /\ \A k \in 1..Len(frames) : Walk!Passed[k].sector = frames[k].sector
      /\ Walk!Passed[Len(frames)].next = Walk!Top.next + 1
  BY PassedFrames
<1>2. /\ Len(frames) \in Nat \ {0} /\ Walk!Top \in FrameSet
      /\ Walk!Records \in Seq(RecordsOf(Found))
  BY TopFrame
<1>3. Walk!Records = Walk!TableOf(Found, frames[Len(frames)].sector).records
  BY DEF Walk!Records, Walk!TableAt, Found, Walk!Top
<1>4. ASSUME NEW k \in 1..Len(frames)
      PROVE  Walk!Passed[k].next <= Len(Walk!TableOf(Found, Walk!Passed[k].sector).records) + 1
  <2>1. CASE k = Len(frames)
    <3>1. Len(Walk!Records) \in Nat /\ Walk!Top.next \in Nat
      BY <1>2 DEF FrameSet
    <3>2. Walk!Passed[k].next <= Len(Walk!Records) + 1
      BY <2>1, <1>1, <3>1
    <3>3. Walk!Records = Walk!TableOf(Found, Walk!Passed[k].sector).records
      BY <2>1, <1>1, <1>3
    <3> QED
      BY <3>2, <3>3
  <2>2. CASE k # Len(frames)
    BY <2>2, <1>1 DEF WalkTyped
  <2> QED
    BY <2>1, <2>2
<1> QED
  BY <1>1, <1>2, <1>4 DEF WalkTyped

LEMMA SkippingKeepsTypes ==
    ASSUME WalkTyped, Walk!SkipDirectory
    PROVE  WalkTyped'
<1>1. /\ pc = "walk" /\ Walk!Top.next <= Len(Walk!Records) /\ frames' = Walk!Passed
      /\ UNCHANGED <<image, mode, skip_system_update, partition, seen, disk, copied, statistics, pc>>
  BY DEF Walk!SkipDirectory, Walk!HasNext, Walk!inputs
<1>2. frames # << >>
  BY <1>1 DEF WalkTyped
<1>3. /\ frames' \in Seq(FrameSet) /\ frames' # << >> /\ Len(frames') <= MaxDepth + 1
      /\ \A k \in 1..Len(frames') :
            frames'[k].next <= Len(Walk!TableOf(Found, frames'[k].sector).records) + 1
  BY <1>1, <1>2, PassingKeepsTypes
<1>4. /\ seen \in Seq(SeenSet) /\ disk \in [DOMAIN disk -> MadeSet] /\ copied \in Nat
      /\ statistics \in [files : Nat, bytes : Nat]
  BY DEF WalkTyped
<1> QED
  BY <1>1, <1>2, <1>3, <1>4, WalkGoesOn

LEMMA SeeingKeepsTypes ==
    ASSUME WalkTyped, frames # << >>, Walk!Top.next <= Len(Walk!Records), Walk!See
    PROVE  seen' \in Seq(SeenSet)
<1>1. [path |-> Walk!Path, record |-> Walk!Record] \in SeenSet
  BY ThisRecord
<1> QED
  BY <1>1 DEF WalkTyped, Walk!See

LEMMA MakingKeepsTypes ==
    ASSUME WalkTyped, NEW made \in MadeSet
    PROVE  Walk!With(made) \in [DOMAIN Walk!With(made) -> MadeSet]
BY DEF WalkTyped, Walk!With

LEMMA VisitingDirectoryKeepsTypes ==
    ASSUME WalkTyped, Walk!VisitDirectory, Walk!TreeWalkAssumption
    PROVE  WalkTyped'
<1>1. /\ pc = "walk" /\ Walk!Top.next <= Len(Walk!Records) /\ Walk!See
      /\ disk' = IF mode = "extract" THEN Walk!With(Walk!Directory) ELSE disk
      /\ \/ frames' = Walk!Passed /\ pc' = pc
         \/ /\ ~Walk!TooDeep /\ pc' = pc
            /\ frames' = Append(Walk!Passed, Walk!Frame(Walk!Record.start, Walk!Path))
         \/ frames' = frames /\ pc' = "refused"
      /\ UNCHANGED <<image, mode, skip_system_update, partition, copied, statistics>>
  BY DEF Walk!VisitDirectory, Walk!HasNext, Walk!inputs
<1>2. frames # << >>
  BY <1>1 DEF WalkTyped
<1>3. seen' \in Seq(SeenSet)
  BY <1>1, <1>2, SeeingKeepsTypes
<1>4. disk' \in [DOMAIN disk' -> MadeSet]
  <2>1. Walk!Directory \in MadeSet
    BY DEF MadeSet, Walk!Directory
  <2>2. Walk!With(Walk!Directory) \in [DOMAIN Walk!With(Walk!Directory) -> MadeSet]
    BY <2>1, MakingKeepsTypes
  <2>3. disk \in [DOMAIN disk -> MadeSet]
    BY DEF WalkTyped
  <2> QED
    BY <1>1, <2>2, <2>3
<1>5. /\ frames' \in Seq(FrameSet) /\ frames' # << >> /\ Len(frames') <= MaxDepth + 1
      /\ \A k \in 1..Len(frames') :
            frames'[k].next <= Len(Walk!TableOf(Found, frames'[k].sector).records) + 1
  <2>1. /\ Walk!Passed \in Seq(FrameSet) /\ Walk!Passed # << >>
        /\ Len(Walk!Passed) \in Nat /\ Len(Walk!Passed) = Len(frames)
        /\ Len(Walk!Passed) <= MaxDepth + 1
        /\ \A k \in 1..Len(Walk!Passed) :
              Walk!Passed[k].next <= Len(Walk!TableOf(Found, Walk!Passed[k].sector).records) + 1
    BY <1>1, <1>2, PassingKeepsTypes
  <2>2. CASE frames' = Walk!Passed
    BY <2>1, <2>2
  <2>3. CASE frames' = frames
    BY <2>3, <1>2 DEF WalkTyped
  <2>4. CASE /\ ~Walk!TooDeep
             /\ frames' = Append(Walk!Passed, Walk!Frame(Walk!Record.start, Walk!Path))
    <3> DEFINE new == Walk!Frame(Walk!Record.start, Walk!Path)
    <3>1. new \in FrameSet /\ new.next = 1
      BY <1>1, <1>2, ThisRecord DEF Walk!Frame
    <3> HIDE DEF new
    <3>2. frames' = Append(Walk!Passed, new)
      BY <2>4 DEF new
    <3>3. /\ frames' \in Seq(FrameSet) /\ frames' # << >> /\ Len(frames') = Len(frames) + 1
          /\ frames'[Len(frames) + 1] = new
          /\ \A k \in 1..Len(frames) : frames'[k] = Walk!Passed[k]
      BY <2>1, <3>1, <3>2
    <3>4. Len(frames') <= MaxDepth + 1
      BY <2>1, <2>4, <3>3 DEF Walk!TooDeep, Walk!TreeWalkAssumption
    <3>5. new.next <= Len(Walk!TableOf(Found, new.sector).records) + 1
      <4>1. Walk!IsVolume(Found)
        BY <1>2, TopFrame, FoundIsVolume
      <4>2. Walk!TableOf(Found, new.sector).records \in Seq(RecordsOf(Found))
        BY <4>1, SomeTable
      <4>3. Len(Walk!TableOf(Found, new.sector).records) \in Nat
        BY <4>2
      <4> QED
        BY <4>3, <3>1
    <3>6. ASSUME NEW k \in 1..Len(frames')
          PROVE  frames'[k].next <= Len(Walk!TableOf(Found, frames'[k].sector).records) + 1
      <4>1. k \in 1..Len(frames) \/ k = Len(frames) + 1
        BY <2>1, <3>3
      <4> QED
        BY <4>1, <3>3, <3>5, <2>1
    <3> QED
      BY <3>3, <3>4, <3>6
  <2> QED
    BY <1>1, <2>2, <2>3, <2>4
<1>6. copied \in Nat /\ statistics \in [files : Nat, bytes : Nat]
  BY DEF WalkTyped
<1>7. pc' \in {"walk", "refused"}
  BY <1>1
<1> QED
  BY <1>1, <1>2, <1>3, <1>4, <1>5, <1>6, <1>7, WalkGoesOn

LEMMA VisitingFileKeepsTypes ==
    ASSUME WalkTyped, Walk!VisitFile
    PROVE  WalkTyped'
<1>1. /\ pc = "walk" /\ Walk!Top.next <= Len(Walk!Records) /\ Walk!See
      /\ frames' = Walk!Passed /\ mode # "extract"
      /\ IF mode = "list" THEN Walk!Count(Walk!Record.size) ELSE UNCHANGED statistics
      /\ UNCHANGED <<image, mode, skip_system_update, partition, disk, copied, pc>>
  BY DEF Walk!VisitFile, Walk!HasNext, Walk!inputs
<1>2. frames # << >>
  BY <1>1 DEF WalkTyped
<1>3. seen' \in Seq(SeenSet)
  BY <1>1, <1>2, SeeingKeepsTypes
<1>4. /\ frames' \in Seq(FrameSet) /\ frames' # << >> /\ Len(frames') <= MaxDepth + 1
      /\ \A k \in 1..Len(frames') :
            frames'[k].next <= Len(Walk!TableOf(Found, frames'[k].sector).records) + 1
  BY <1>1, <1>2, PassingKeepsTypes
<1>5. disk \in [DOMAIN disk -> MadeSet] /\ copied \in Nat
  BY DEF WalkTyped
<1>6. statistics' \in [files : Nat, bytes : Nat] /\ (mode = "read" => statistics' = statistics)
  <2>1. statistics \in [files : Nat, bytes : Nat]
    BY DEF WalkTyped
  <2>2. Walk!Record.size \in Nat
    BY <1>1, <1>2, ThisRecord
  <2> QED
    BY <1>1, <2>1, <2>2 DEF Walk!Count
<1> QED
  BY <1>1, <1>2, <1>3, <1>4, <1>5, <1>6, WalkGoesOn

LEMMA OpeningTargetKeepsTypes ==
    ASSUME WalkTyped, Walk!OpenTarget
    PROVE  WalkTyped'
<1> DEFINE made == [kind |-> "file", size |-> 0, content |-> Walk!Record.start]
<1>1. /\ pc = "walk" /\ Walk!Top.next <= Len(Walk!Records)
      /\ mode = "extract" /\ ~Walk!Record.is_directory /\ ~Walk!Skipped(Walk!Record)
      /\ disk' = Walk!With(made) /\ copied' = 0 /\ pc' = "extract"
      /\ UNCHANGED <<image, mode, skip_system_update, partition, frames, seen, statistics>>
  BY DEF Walk!OpenTarget, Walk!HasNext, Walk!inputs
<1>2. frames # << >>
  BY <1>1 DEF WalkTyped
<1>3. made \in MadeSet /\ Walk!Record.size \in Nat /\ Walk!Record.there \in Nat
  BY <1>1, <1>2, ThisRecord DEF MadeSet
<1> HIDE DEF made
<1>4. disk' \in [DOMAIN disk' -> MadeSet]
  BY <1>1, <1>3, MakingKeepsTypes
<1>5. /\ Walk!Top' = Walk!Top /\ Walk!Records' = Walk!Records /\ Walk!Record' = Walk!Record
      /\ Walk!Path' = Walk!Path /\ Walk!Skipped(Walk!Record)' = Walk!Skipped(Walk!Record)
  BY <1>1, Zenon DEF Walk!Top, Walk!Records, Walk!Record, Walk!Path, Walk!Skipped, Walk!TableAt
<1>6. Walk!Path \in DOMAIN disk' /\ disk'[Walk!Path] = made
  BY <1>1 DEF Walk!With
<1>7. AtFile'
  <2>1. disk'[Walk!Path] = [kind |-> "file", size |-> copied', content |-> Walk!Record.start]
    BY <1>1, <1>6 DEF made
  <2> QED
    BY <1>1, <1>3, <1>5, <1>6, <2>1 DEF AtFile
<1>8. /\ frames \in Seq(FrameSet) /\ Len(frames) <= MaxDepth + 1
      /\ \A k \in 1..Len(frames) :
            frames[k].next <= Len(Walk!TableOf(Found, frames[k].sector).records) + 1
      /\ seen \in Seq(SeenSet) /\ statistics \in [files : Nat, bytes : Nat]
  BY DEF WalkTyped
<1> QED
  BY <1>1, <1>2, <1>4, <1>7, <1>8, WalkGoesOn

LEMMA MinOfThree ==
    ASSUME NEW a \in Int, NEW b \in Int, NEW c \in Int
    PROVE  LET m == Walk!Min({a, b, c})
           IN  m \in {a, b, c} /\ m <= a /\ m <= b /\ m <= c
<1> DEFINE S == {a, b, c}
<1>1. \E m \in S : \A i \in S : m <= i
  <2>1. CASE a <= b /\ a <= c
    BY <2>1
  <2>2. CASE b <= a /\ b <= c
    BY <2>2
  <2>3. CASE c <= b /\ c <= a
    BY <2>3
  <2> QED
    BY <2>1, <2>2, <2>3
<1>2. Walk!Min(S) \in S /\ \A i \in S : Walk!Min(S) <= i
  <2> HIDE DEF S
  <2> QED
    BY <1>1 DEF Walk!Min
<1> QED
  BY <1>2

LEMMA ExtractingKeepsTypes ==
    ASSUME WalkTyped, Walk!ExtractChunk, Walk!TreeWalkAssumption
    PROVE  WalkTyped'
<1>1. /\ pc = "extract" /\ copied < Walk!Record.size /\ copied < Walk!Record.there
      /\ disk' = [disk EXCEPT ![Walk!Path].size = @ + Walk!ChunkSize]
      /\ copied' = copied + Walk!ChunkSize
      /\ UNCHANGED <<image, mode, skip_system_update, partition, frames, seen, statistics, pc>>
  BY DEF Walk!ExtractChunk, Walk!inputs
<1>2. frames # << >> /\ AtFile
  BY <1>1 DEF WalkTyped
<1>3. Walk!Record.size \in Nat /\ Walk!Record.there \in Nat /\ copied \in Nat /\ BufferSize \in Nat \ {0}
  BY <1>2, ThisRecord DEF AtFile, WalkTyped, Walk!TreeWalkAssumption
<1>4. /\ Walk!ChunkSize \in Nat /\ copied' \in Nat
      /\ copied' <= Walk!Record.size /\ copied' <= Walk!Record.there
  <2>1. /\ Walk!ChunkSize \in {Walk!Record.size - copied, Walk!Record.there - copied, BufferSize}
        /\ Walk!ChunkSize <= Walk!Record.size - copied
        /\ Walk!ChunkSize <= Walk!Record.there - copied
    <3> DEFINE a == Walk!Record.size - copied  b == Walk!Record.there - copied
    <3>1. a \in Int /\ b \in Int /\ BufferSize \in Int
      BY <1>3
    <3> HIDE DEF a, b
    <3>2. /\ Walk!Min({a, b, BufferSize}) \in {a, b, BufferSize}
          /\ Walk!Min({a, b, BufferSize}) <= a /\ Walk!Min({a, b, BufferSize}) <= b
      BY <3>1, MinOfThree, Zenon
    <3>3. Walk!ChunkSize = Walk!Min({a, b, BufferSize})
      BY DEF Walk!ChunkSize, a, b
    <3> QED
      BY <3>2, <3>3 DEF a, b
  <2> QED
    BY <1>1, <1>3, <2>1
<1>5. /\ Walk!Top' = Walk!Top /\ Walk!Records' = Walk!Records /\ Walk!Record' = Walk!Record
      /\ Walk!Path' = Walk!Path /\ Walk!Skipped(Walk!Record)' = Walk!Skipped(Walk!Record)
  BY <1>1, Zenon DEF Walk!Top, Walk!Records, Walk!Record, Walk!Path, Walk!Skipped, Walk!TableAt
<1> DEFINE made == [kind |-> "file", size |-> copied', content |-> Walk!Record.start]
<1>6. disk' = [disk EXCEPT ![Walk!Path] = made]
  <2>1. disk[Walk!Path] = [kind |-> "file", size |-> copied, content |-> Walk!Record.start]
    BY <1>2 DEF AtFile
  <2>2. [disk[Walk!Path] EXCEPT !.size = @ + Walk!ChunkSize] = made
    BY <1>1, <2>1
  <2>3. disk' = [disk EXCEPT ![Walk!Path] = [disk[Walk!Path] EXCEPT !.size = @ + Walk!ChunkSize]]
    BY <1>1
  <2> QED
    BY <2>2, <2>3
<1>7. made \in MadeSet
  BY <1>2, <1>4, ThisRecord DEF MadeSet, AtFile
<1> HIDE DEF made
<1>8. disk' \in [DOMAIN disk' -> MadeSet]
  BY <1>6, <1>7 DEF WalkTyped
<1>9. Walk!Path \in DOMAIN disk' /\ disk'[Walk!Path] = made
  BY <1>2, <1>6 DEF AtFile
<1>10. AtFile'
  <2>1. disk'[Walk!Path] = [kind |-> "file", size |-> copied', content |-> Walk!Record.start]
    BY <1>9 DEF made
  <2> QED
    BY <1>1, <1>2, <1>4, <1>5, <1>9, <2>1 DEF AtFile
<1>11. /\ frames \in Seq(FrameSet) /\ Len(frames) <= MaxDepth + 1
      /\ \A k \in 1..Len(frames) :
            frames[k].next <= Len(Walk!TableOf(Found, frames[k].sector).records) + 1
      /\ seen \in Seq(SeenSet) /\ statistics \in [files : Nat, bytes : Nat]
  BY DEF WalkTyped
<1>12. mode = "extract"
  BY <1>2 DEF AtFile
<1> QED
  BY <1>1, <1>2, <1>4, <1>8, <1>10, <1>11, <1>12, WalkGoesOn

LEMMA ClosingKeepsTypes ==
    ASSUME WalkTyped, Walk!CloseTarget
    PROVE  WalkTyped'
<1>1. /\ pc = "extract" /\ Walk!Count(copied) /\ Walk!See /\ frames' = Walk!Passed /\ pc' = "walk"
      /\ UNCHANGED <<image, mode, skip_system_update, partition, disk, copied>>
  BY DEF Walk!CloseTarget, Walk!inputs
<1>2. frames # << >> /\ AtFile /\ Walk!Top.next <= Len(Walk!Records) /\ mode = "extract"
  BY <1>1 DEF WalkTyped, AtFile
<1>3. seen' \in Seq(SeenSet)
  BY <1>1, <1>2, SeeingKeepsTypes
<1>4. /\ frames' \in Seq(FrameSet) /\ frames' # << >> /\ Len(frames') <= MaxDepth + 1
      /\ \A k \in 1..Len(frames') :
            frames'[k].next <= Len(Walk!TableOf(Found, frames'[k].sector).records) + 1
  BY <1>1, <1>2, PassingKeepsTypes
<1>5. disk \in [DOMAIN disk -> MadeSet] /\ copied \in Nat
  BY DEF WalkTyped
<1>6. statistics' \in [files : Nat, bytes : Nat]
  BY <1>1 DEF WalkTyped, Walk!Count
<1> QED
  BY <1>1, <1>2, <1>3, <1>4, <1>5, <1>6, WalkGoesOn

LEMMA AllButLast ==
    ASSUME NEW S, NEW s \in Seq(S), s # << >>
    PROVE  /\ SubSeq(s, 1, Len(s) - 1) \in Seq(S)
           /\ Len(SubSeq(s, 1, Len(s) - 1)) = Len(s) - 1
           /\ \A i \in 1..(Len(s) - 1) : SubSeq(s, 1, Len(s) - 1)[i] = s[i]
<1> DEFINE t == SubSeq(s, 1, Len(s) - 1)
<1>0. Len(s) \in Nat /\ Len(s) >= 1 /\ \A i \in 1..Len(s) : s[i] \in S
  OBVIOUS
<1>1. 1 \in Int /\ Len(s) - 1 \in Int /\ \A i \in 1..(Len(s) - 1) : s[i] \in S
  BY <1>0
<1>2. /\ t \in Seq(S)
      /\ Len(t) = IF 1 <= Len(s) - 1 THEN (Len(s) - 1) - 1 + 1 ELSE 0
      /\ \A i \in 1..((Len(s) - 1) - 1 + 1) : t[i] = s[1 + i - 1]
  BY <1>1, SubSeqProperties
<1> HIDE DEF t
<1>3. Len(t) = Len(s) - 1
  <2> DEFINE n == Len(s) - 1
  <2>1. n \in Nat
    BY <1>0
  <2>2. Len(t) = IF 1 <= n THEN n - 1 + 1 ELSE 0
    BY <1>2
  <2> HIDE DEF n
  <2>3. Len(t) = n
    BY <2>1, <2>2
  <2> QED
    BY <2>3 DEF n
<1>4. ASSUME NEW i \in 1..(Len(s) - 1)
      PROVE  t[i] = s[i]
  <2>1. i \in 1..((Len(s) - 1) - 1 + 1) /\ 1 + i - 1 = i
    BY <1>0
  <2> QED
    BY <1>2, <2>1
<1> QED
  BY <1>2, <1>3, <1>4

LEMMA LeavingKeepsTypes ==
    ASSUME WalkTyped, Walk!LeaveTable
    PROVE  WalkTyped'
<1>1. /\ pc = "walk" /\ frames' = SubSeq(frames, 1, Len(frames) - 1)
      /\ pc' = IF frames' = << >> THEN "done" ELSE "walk"
      /\ UNCHANGED <<image, mode, skip_system_update, partition, seen, disk, copied, statistics>>
  BY DEF Walk!LeaveTable, Walk!inputs
<1>2. frames # << >>
  BY <1>1 DEF WalkTyped
<1>3. /\ frames \in Seq(FrameSet) /\ Len(frames) <= MaxDepth + 1
      /\ \A k \in 1..Len(frames) :
            frames[k].next <= Len(Walk!TableOf(Found, frames[k].sector).records) + 1
      /\ seen \in Seq(SeenSet) /\ statistics \in [files : Nat, bytes : Nat]
      /\ disk \in [DOMAIN disk -> MadeSet] /\ copied \in Nat /\ MaxDepth + 1 = MaxDepth + 1
  BY DEF WalkTyped
<1>4. Len(frames) \in Nat \ {0}
  BY <1>2, TopFrame
<1>5. /\ frames' \in Seq(FrameSet) /\ Len(frames') = Len(frames) - 1
      /\ \A k \in 1..(Len(frames) - 1) : frames'[k] = frames[k]
  BY <1>1, <1>2, <1>3, AllButLast
<1>6. Len(frames') <= MaxDepth + 1
  BY <1>3, <1>4, <1>5, TripAssumption DEF Walk!TreeWalkAssumption
<1>7. \A k \in 1..Len(frames') :
          frames'[k].next <= Len(Walk!TableOf(Found, frames'[k].sector).records) + 1
  <2> SUFFICES ASSUME NEW k \in 1..Len(frames')
               PROVE  frames'[k].next <= Len(Walk!TableOf(Found, frames'[k].sector).records) + 1
    OBVIOUS
  <2>1. k \in 1..Len(frames) /\ frames'[k] = frames[k]
    BY <1>4, <1>5
  <2> QED
    BY <1>3, <2>1
<1>8. pc' \in {"walk", "done"} /\ (pc' = "walk" => frames' # << >>)
  BY <1>1
<1> QED
  BY <1>1, <1>2, <1>3, <1>5, <1>6, <1>7, <1>8, WalkGoesOn

LEMMA WalkKeepsTypes ==
    ASSUME WalkTyped, Walk!Step \/ Walk!Fail
    PROVE  WalkTyped'
<1>0. Walk!TreeWalkAssumption
  BY TripAssumption
<1>1. CASE \/ Walk!NoMagic \/ Walk!SecondMagicMissing \/ Walk!NoFiles \/ Walk!DuplicateName
           \/ Walk!NameIsTaken \/ Walk!TableIsCorrupt \/ Walk!Fail
  <2>1. \E result \in {"done", "refused", "failed"} : Walk!End(result)
    BY <1>1 DEF Walk!NoMagic, Walk!SecondMagicMissing, Walk!NoFiles, Walk!DuplicateName,
                Walk!NameIsTaken, Walk!TableIsCorrupt, Walk!Fail
  <2> QED
    BY <2>1, EndKeepsTypes
<1>2. CASE Walk!OpenVolume
  BY <1>0, <1>2, OpeningKeepsTypes
<1>3. CASE Walk!SkipDirectory
  BY <1>3, SkippingKeepsTypes
<1>4. CASE Walk!VisitDirectory
  BY <1>0, <1>4, VisitingDirectoryKeepsTypes
<1>5. CASE Walk!VisitFile
  BY <1>5, VisitingFileKeepsTypes
<1>6. CASE Walk!OpenTarget
  BY <1>6, OpeningTargetKeepsTypes
<1>7. CASE Walk!ExtractChunk
  BY <1>0, <1>7, ExtractingKeepsTypes
<1>8. CASE Walk!CloseTarget
  BY <1>8, ClosingKeepsTypes
<1>9. CASE Walk!LeaveTable
  BY <1>9, LeavingKeepsTypes
<1> QED
  BY <1>1, <1>2, <1>3, <1>4, <1>5, <1>6, <1>7, <1>8, <1>9 DEF Walk!Step

-------------------------------------------------------------------------------
(* The scan and the images: what their variables can be. *)

FilesTyped ==
    \A n \in DOMAIN files :
       /\ files[n].kind \in {"directory", "file", "other", "dangling", "image"}
       /\ files[n].kind = "directory" =>
             /\ DOMAIN files[n].entries \subseteq DOMAIN Key
             /\ Range(files[n].entries) \subseteq DOMAIN files
       /\ files[n].kind = "file" => files[n].size \in Nat

ScanFrames ==
    {f \in [node : DOMAIN files, path : Seq(DOMAIN Key), left : SUBSET DOMAIN Key] :
        files[f.node].kind = "directory" /\ f.left \subseteq DOMAIN files[f.node].entries}

\* What the tree of an image can be.
IsTreeOf(made) ==
    /\ IsFiniteSet(DOMAIN made) /\ DOMAIN made \subseteq Seq(DOMAIN Key) \ {<< >>}
    /\ \A p \in DOMAIN made : made[p].kind \in {"directory", "file"} /\ made[p].size \in Nat

TreeTyped ==
    /\ IsFiniteSet(DOMAIN tree) /\ DOMAIN tree \subseteq Seq(DOMAIN Key) \ {<< >>}
    /\ tree \in [DOMAIN tree -> [kind : {"directory", "file"}, size : 0..MaxSize, content : {0} \cup DOMAIN files]]
    /\ \A p \in DOMAIN tree : tree[p].kind = "file" => tree[p].content \in DOMAIN files
    /\ to_copy \subseteq {p \in DOMAIN tree : tree[p].kind = "file"}
    /\ step # "write" => to_copy = {}

ScanTyped ==
    /\ scanning \in Seq(ScanFrames)
    /\ Len(scanning) <= MaxPath + 1
    /\ \A i \in 1..Len(scanning) : Len(scanning[i].path) = i - 1
    /\ step = "scan" <=> scanning # << >>

CreateTyped ==
    /\ FilesTyped /\ ScanTyped /\ TreeTyped
    /\ \A n \in DOMAIN images : images[n].state = "whole" => IsTreeOf(images[n].tree)

LEMMA TreeIsTree == TreeTyped => IsTreeOf(tree)
<1> SUFFICES ASSUME TreeTyped PROVE IsTreeOf(tree)
  OBVIOUS
<1>1. ASSUME NEW p \in DOMAIN tree
      PROVE  tree[p].kind \in {"directory", "file"} /\ tree[p].size \in Nat
  <2>1. tree[p] \in [kind : {"directory", "file"}, size : 0..MaxSize, content : {0} \cup DOMAIN files]
    BY DEF TreeTyped
  <2>2. MaxSize \in Nat
    BY CreateAssumption
  <2> QED
    BY <2>1, <2>2
<1> QED
  BY <1>1 DEF TreeTyped, IsTreeOf

LEMMA InnermostDirectory ==
    ASSUME ScanTyped, step = "scan"
    PROVE  /\ Len(scanning) \in Nat \ {0} /\ Innermost \in ScanFrames
           /\ Len(Innermost.path) = Len(scanning) - 1
           /\ Outer \in Seq(ScanFrames) /\ Len(Outer) = Len(scanning) - 1
           /\ \A i \in 1..(Len(scanning) - 1) : Outer[i] = scanning[i]
<1>1. scanning \in Seq(ScanFrames) /\ scanning # << >>
  BY DEF ScanTyped
<1>2. Len(scanning) \in Nat \ {0}
  BY <1>1
<1>3. Innermost \in ScanFrames
  BY <1>1, <1>2, ElementOfSeq DEF Innermost
<1>4. Len(Innermost.path) = Len(scanning) - 1
  BY <1>2 DEF ScanTyped, Innermost
<1>5. /\ Outer \in Seq(ScanFrames) /\ Len(Outer) = Len(scanning) - 1
      /\ \A i \in 1..(Len(scanning) - 1) : Outer[i] = scanning[i]
  BY <1>1, AllButLast DEF Outer
<1> QED
  BY <1>2, <1>3, <1>4, <1>5

LEMMA LeftWithout ==
    ASSUME NEW node, NEW path, NEW left, NEW name,
           Innermost = [node |-> node, path |-> path, left |-> left]
    PROVE  [Innermost EXCEPT !.left = @ \ {name}] = [node |-> node, path |-> path, left |-> left \ {name}]
OBVIOUS

LEMMA EntryLookedAt ==
    ASSUME ScanTyped, FilesTyped, step = "scan", NEW name \in Innermost.left
    PROVE  /\ name \in DOMAIN files[Innermost.node].entries
           /\ NodeOf(name) \in DOMAIN files
           /\ PathOf(name) \in Seq(DOMAIN Key) \ {<< >>} /\ Len(PathOf(name)) = Len(scanning)
           /\ LookedAt(name) \in Seq(ScanFrames) /\ Len(LookedAt(name)) = Len(scanning)
           /\ \A i \in 1..(Len(scanning) - 1) : LookedAt(name)[i] = scanning[i]
           /\ LookedAt(name)[Len(scanning)] = [node |-> Innermost.node, path |-> Innermost.path,
                                               left |-> Innermost.left \ {name}]
<1>1. /\ Len(scanning) \in Nat \ {0} /\ Innermost \in ScanFrames
      /\ Len(Innermost.path) = Len(scanning) - 1
      /\ Outer \in Seq(ScanFrames) /\ Len(Outer) = Len(scanning) - 1
      /\ \A i \in 1..(Len(scanning) - 1) : Outer[i] = scanning[i]
  BY InnermostDirectory
<1>2. PICK node \in DOMAIN files, path \in Seq(DOMAIN Key), left \in SUBSET DOMAIN Key :
          /\ Innermost = [node |-> node, path |-> path, left |-> left]
          /\ files[node].kind = "directory" /\ left \subseteq DOMAIN files[node].entries
  BY <1>1 DEF ScanFrames
<1>3. /\ name \in DOMAIN files[Innermost.node].entries /\ name \in DOMAIN Key
      /\ NodeOf(name) \in DOMAIN files
  <2>1. name \in DOMAIN files[node].entries /\ name \in DOMAIN Key
    BY <1>2
  <2>2. Range(files[node].entries) \subseteq DOMAIN files
    BY <1>2 DEF FilesTyped
  <2>3. files[node].entries[name] \in DOMAIN files
    BY <2>1, <2>2 DEF Range
  <2> QED
    BY <1>2, <2>1, <2>3 DEF NodeOf
<1>4. PathOf(name) \in Seq(DOMAIN Key) \ {<< >>} /\ Len(PathOf(name)) = Len(scanning)
  <2>1. PathOf(name) = Append(path, name) /\ Len(path) = Len(scanning) - 1
    BY <1>1, <1>2 DEF PathOf
  <2>2. Append(path, name) \in Seq(DOMAIN Key) /\ Len(Append(path, name)) = Len(path) + 1
    BY <1>3
  <2> QED
    BY <2>1, <2>2, <1>1
<1> DEFINE new == [node |-> node, path |-> path, left |-> left \ {name}]
<1>5. LookedAt(name) = Append(Outer, new)
  <2>1. [Innermost EXCEPT !.left = @ \ {name}] = new
    BY <1>2, LeftWithout
  <2> QED
    BY <2>1 DEF LookedAt
<1>6. new \in ScanFrames
  BY <1>2 DEF ScanFrames
<1>6a. new = [node |-> Innermost.node, path |-> Innermost.path, left |-> Innermost.left \ {name}]
  BY <1>2
<1> HIDE DEF new
<1>7. /\ LookedAt(name) \in Seq(ScanFrames) /\ Len(LookedAt(name)) = Len(scanning)
      /\ \A i \in 1..(Len(scanning) - 1) : LookedAt(name)[i] = scanning[i]
      /\ LookedAt(name)[Len(scanning)] = new
  BY <1>1, <1>5, <1>6
<1> QED
  BY <1>3, <1>4, <1>6a, <1>7

LEMMA ScanGoesOn ==
    ASSUME CreateTyped, UNCHANGED <<files, images, to_copy>>, step = "scan",
           scanning' \in Seq(ScanFrames), Len(scanning') <= MaxPath + 1,
           \A i \in 1..Len(scanning') : Len(scanning'[i].path) = i - 1,
           step' = "scan", scanning' # << >>,
           tree' = tree \/ TreeTyped'
    PROVE  CreateTyped'
<1>1. ScanFrames' = ScanFrames /\ FilesTyped' = FilesTyped
  BY DEF ScanFrames, FilesTyped
<1>2. TreeTyped'
  BY DEF CreateTyped, TreeTyped
<1> QED
  BY <1>1, <1>2 DEF CreateTyped, ScanTyped

LEMMA InsertingKeepsTypes ==
    ASSUME CreateTyped, step = "scan", step' = "scan", UNCHANGED <<files, images, to_copy>>,
           NEW path \in Seq(DOMAIN Key) \ {<< >>}, NEW node \in DOMAIN files,
           Kind(node) \in {"directory", "file"}, Kind(node) = "file" => SizeOf(node) \in 0..MaxSize,
           tree' = Inserted(path, node)
    PROVE  TreeTyped'
<1> DEFINE new == [kind    |-> Kind(node),
                   size    |-> IF Kind(node) = "directory" THEN 0 ELSE SizeOf(node),
                   content |-> IF Kind(node) = "directory" THEN 0 ELSE node]
           Entry == [kind : {"directory", "file"}, size : 0..MaxSize, content : {0} \cup DOMAIN files]
<1>1. new \in Entry /\ (new.kind = "file" => new.content \in DOMAIN files)
  <2>1. MaxSize \in Nat
    BY CreateAssumption
  <2> QED
    BY <2>1
<1>2. tree' = [p \in DOMAIN tree \cup {path} |-> IF p \in DOMAIN tree THEN tree[p] ELSE new]
  BY DEF Inserted
<1> HIDE DEF new
<1>3. /\ tree \in [DOMAIN tree -> Entry] /\ IsFiniteSet(DOMAIN tree)
      /\ DOMAIN tree \subseteq Seq(DOMAIN Key) \ {<< >>} /\ to_copy = {}
      /\ \A p \in DOMAIN tree : tree[p].kind = "file" => tree[p].content \in DOMAIN files
  BY DEF CreateTyped, TreeTyped
<1> HIDE DEF Entry
<1>4. tree' \in [DOMAIN tree' -> Entry] /\ DOMAIN tree' = DOMAIN tree \cup {path}
  BY <1>1, <1>2, <1>3
<1>5. IsFiniteSet(DOMAIN tree') /\ DOMAIN tree' \subseteq Seq(DOMAIN Key) \ {<< >>}
  BY <1>3, <1>4, FS_AddElement
<1>6. \A p \in DOMAIN tree' : tree'[p].kind = "file" => tree'[p].content \in DOMAIN files
  BY <1>1, <1>2, <1>3
<1> QED
  BY <1>3, <1>4, <1>5, <1>6 DEF TreeTyped, Entry

LEMMA ScanKeepsTypes ==
    ASSUME CreateTyped, Ignore \/ AddFile \/ EnterDirectory \/ AddDirectory
    PROVE  CreateTyped'
<1>1. /\ step = "scan" /\ step' = "scan" /\ UNCHANGED <<files, images, to_copy>>
      /\ ScanTyped /\ FilesTyped /\ TreeTyped
  BY DEF Ignore, AddFile, EnterDirectory, AddDirectory, CreateTyped
<1>2. /\ Len(scanning) \in Nat \ {0} /\ Innermost \in ScanFrames
      /\ Len(Innermost.path) = Len(scanning) - 1
      /\ Outer \in Seq(ScanFrames) /\ Len(Outer) = Len(scanning) - 1
      /\ \A i \in 1..(Len(scanning) - 1) : Outer[i] = scanning[i]
  BY <1>1, InnermostDirectory
<1>3. MaxPath \in Nat /\ Len(scanning) <= MaxPath + 1
      /\ \A i \in 1..Len(scanning) : Len(scanning[i].path) = i - 1
  BY <1>1, CreateAssumption DEF ScanTyped
<1>4. ASSUME NEW name \in Innermost.left
      PROVE  /\ \A i \in 1..Len(LookedAt(name)) : Len(LookedAt(name)[i].path) = i - 1
             /\ LookedAt(name) \in Seq(ScanFrames) /\ Len(LookedAt(name)) = Len(scanning)
             /\ LookedAt(name) # << >>
             /\ NodeOf(name) \in DOMAIN files
             /\ PathOf(name) \in Seq(DOMAIN Key) \ {<< >>} /\ Len(PathOf(name)) = Len(scanning)
  <2>1. /\ NodeOf(name) \in DOMAIN files
        /\ PathOf(name) \in Seq(DOMAIN Key) \ {<< >>} /\ Len(PathOf(name)) = Len(scanning)
        /\ LookedAt(name) \in Seq(ScanFrames) /\ Len(LookedAt(name)) = Len(scanning)
        /\ \A i \in 1..(Len(scanning) - 1) : LookedAt(name)[i] = scanning[i]
        /\ LookedAt(name)[Len(scanning)] = [node |-> Innermost.node, path |-> Innermost.path,
                                            left |-> Innermost.left \ {name}]
    BY <1>1, EntryLookedAt
  <2>2. LookedAt(name)[Len(scanning)].path = Innermost.path
    BY <2>1
  <2>3. \A i \in 1..Len(scanning) : i = Len(scanning) \/ i \in 1..(Len(scanning) - 1)
    BY <1>2
  <2>4. \A i \in 1..Len(scanning) : Len(LookedAt(name)[i].path) = i - 1
    BY <1>2, <1>3, <2>1, <2>2, <2>3
  <2> QED
    BY <1>2, <2>1, <2>4
<1>5. CASE Ignore
  <2>1. PICK name \in Innermost.left : scanning' = LookedAt(name) /\ tree' = tree
    BY <1>5 DEF Ignore
  <2> QED
    BY <1>1, <1>3, <1>4, <2>1, ScanGoesOn
<1>6. CASE AddFile
  <2>1. PICK name \in Innermost.left :
            /\ scanning' = LookedAt(name) /\ tree' = Inserted(PathOf(name), NodeOf(name))
            /\ Kind(NodeOf(name)) = "file" /\ ~TooLarge(name)
    BY <1>6 DEF AddFile
  <2>2. SizeOf(NodeOf(name)) \in 0..MaxSize
    <3>1. SizeOf(NodeOf(name)) \in Nat /\ MaxSize \in Nat
      BY <1>1, <1>4, <2>1, CreateAssumption DEF SizeOf, Kind, FilesTyped
    <3> QED
      BY <2>1, <3>1 DEF TooLarge
  <2>3. TreeTyped'
    BY <1>1, <1>4, <2>1, <2>2, InsertingKeepsTypes
  <2> QED
    BY <1>1, <1>3, <1>4, <2>1, <2>3, ScanGoesOn
<1>7. CASE EnterDirectory
  <2>1. PICK name \in Innermost.left :
            /\ scanning' = Append(LookedAt(name), DirectoryFrame(NodeOf(name), PathOf(name)))
            /\ Kind(NodeOf(name)) = "directory" /\ HasStatus(name) /\ tree' = tree
    BY <1>7 DEF EnterDirectory
  <2> DEFINE new == DirectoryFrame(NodeOf(name), PathOf(name))
  <2>2. new \in ScanFrames /\ new.path = PathOf(name)
    <3>1. files[NodeOf(name)].kind = "directory"
      BY <2>1 DEF Kind
    <3>2. Listed(NodeOf(name)) \subseteq DOMAIN files[NodeOf(name)].entries
      BY DEF Listed
    <3>3. DOMAIN files[NodeOf(name)].entries \subseteq DOMAIN Key
      BY <1>1, <1>4, <3>1 DEF FilesTyped
    <3> QED
      BY <1>4, <3>1, <3>2, <3>3 DEF DirectoryFrame, ScanFrames
  <2> HIDE DEF new
  <2>3. Len(PathOf(name)) = Len(scanning) /\ Len(scanning) <= MaxPath
    BY <1>4, <2>1 DEF HasStatus
  <2>4. /\ scanning' \in Seq(ScanFrames) /\ Len(scanning') = Len(scanning) + 1 /\ scanning' # << >>
        /\ \A i \in 1..Len(scanning) : scanning'[i] = LookedAt(name)[i]
        /\ scanning'[Len(scanning) + 1] = new
    <3>1. scanning' = Append(LookedAt(name), new)
      BY <2>1 DEF new
    <3> QED
      BY <1>2, <1>4, <2>2, <3>1
  <2>5. \A i \in 1..Len(scanning') : Len(scanning'[i].path) = i - 1
    <3>1. \A i \in 1..Len(scanning') : i \in 1..Len(scanning) \/ i = Len(scanning) + 1
      BY <1>2, <2>4
    <3>2. Len(scanning'[Len(scanning) + 1].path) = (Len(scanning) + 1) - 1
      BY <1>2, <2>2, <2>3, <2>4
    <3>3. \A i \in 1..Len(scanning) : Len(scanning'[i].path) = i - 1
      BY <1>2, <1>4, <2>4
    <3> QED
      BY <3>1, <3>2, <3>3
  <2>6. Len(scanning') <= MaxPath + 1
    BY <1>2, <1>3, <2>3, <2>4
  <2> QED
    BY <1>1, <2>1, <2>4, <2>5, <2>6, ScanGoesOn
<1>8. CASE AddDirectory
  <2>1. /\ Len(scanning) > 1 /\ tree' = Inserted(Innermost.path, Innermost.node) /\ scanning' = Outer
    BY <1>8 DEF AddDirectory
  <2>2. /\ Innermost.path \in Seq(DOMAIN Key) \ {<< >>} /\ Innermost.node \in DOMAIN files
        /\ Kind(Innermost.node) = "directory"
    <3>1. /\ Innermost.path \in Seq(DOMAIN Key) /\ Innermost.node \in DOMAIN files
          /\ files[Innermost.node].kind = "directory"
      BY <1>2 DEF ScanFrames
    <3>2. Innermost.path # << >>
      BY <1>2, <2>1
    <3> QED
      BY <3>1, <3>2 DEF Kind
  <2>3. TreeTyped'
    BY <1>1, <2>1, <2>2, InsertingKeepsTypes
  <2>4. /\ scanning' \in Seq(ScanFrames) /\ scanning' # << >> /\ Len(scanning') <= MaxPath + 1
        /\ \A i \in 1..Len(scanning') : Len(scanning'[i].path) = i - 1
    <3>1. \A i \in 1..(Len(scanning) - 1) : i \in 1..Len(scanning) /\ Len(Outer[i].path) = i - 1
      BY <1>2, <1>3
    <3>2. Outer # << >> /\ Len(Outer) <= MaxPath + 1
      BY <1>2, <1>3, <2>1
    <3> QED
      BY <1>2, <2>1, <3>1, <3>2
  <2> QED
    BY <1>1, <2>3, <2>4, ScanGoesOn
<1> QED
  BY <1>5, <1>6, <1>7, <1>8

LEMMA MinOfTwo ==
    ASSUME NEW x \in Int, NEW y \in Int
    PROVE  Min({x, y}) \in {x, y} /\ Min({x, y}) <= x /\ Min({x, y}) <= y
<1> SUFFICES \E m \in {x, y} : \A i \in {x, y} : m <= i
  BY DEF Min
<1>1. CASE x <= y
  BY <1>1
<1>2. CASE y <= x
  BY <1>2
<1> QED
  BY <1>1, <1>2

\* Outside a scan.
LEMMA NoScanTyped ==
    ASSUME CreateTyped, UNCHANGED files, step' # "scan", scanning' = << >>, tree' = tree,
           step' # "write" => to_copy' = {},
           to_copy' \subseteq {p \in DOMAIN tree : tree[p].kind = "file"},
           \A n \in DOMAIN images' :
              images'[n].state = "whole" =>
                 (n \in DOMAIN images /\ images'[n] = images[n]) \/ images'[n].tree = tree
    PROVE  CreateTyped'
<1>1. FilesTyped' /\ TreeTyped' /\ TreeTyped
  BY DEF CreateTyped, FilesTyped, TreeTyped
<1>2. ScanTyped'
  <2>1. /\ scanning' \in Seq(ScanFrames') /\ Len(scanning') = 0 /\ Len(scanning') <= MaxPath + 1
        /\ \A i \in 1..Len(scanning') : Len(scanning'[i].path) = i - 1
    BY CreateAssumption
  <2> QED
    BY <2>1 DEF ScanTyped
<1>3. IsTreeOf(tree)
  BY <1>1, TreeIsTree
<1>4. \A n \in DOMAIN images' : images'[n].state = "whole" => IsTreeOf(images'[n].tree)
  BY <1>3 DEF CreateTyped
<1> QED
  BY <1>1, <1>2, <1>4 DEF CreateTyped

LEMMA CopyingKeepsTypes ==
    ASSUME CreateTyped, CopyFile
    PROVE  CreateTyped'
<1>1. PICK path \in to_copy : \E size \in Copies(path) :
          /\ Kind(tree[path].content) = "file"
          /\ tree' = [tree EXCEPT ![path].size = size]
          /\ to_copy' = to_copy \ {path}
  BY DEF CopyFile
<1>1a. PICK size \in Copies(path) :
          /\ Kind(tree[path].content) = "file"
          /\ tree' = [tree EXCEPT ![path].size = size]
          /\ to_copy' = to_copy \ {path}
  BY <1>1
<1>2. /\ step = "write" /\ step' = "write" /\ UNCHANGED <<files, scanning, images>>
      /\ FilesTyped /\ ScanTyped /\ TreeTyped
  BY DEF CopyFile, CreateTyped
<1> DEFINE Entry == [kind : {"directory", "file"}, size : 0..MaxSize, content : {0} \cup DOMAIN files]
<1>3. /\ path \in DOMAIN tree /\ tree[path] \in Entry /\ tree[path].kind = "file"
      /\ tree[path].content \in DOMAIN files
  BY <1>1a, <1>2 DEF TreeTyped
<1>4. size \in 0..MaxSize
  <2>1. MaxSize \in Nat /\ tree[path].size \in 0..MaxSize /\ tree[path].size \in Int
    BY <1>3, CreateAssumption
  <2>2. SizeOf(tree[path].content) \in Nat
    BY <1>1a, <1>2, <1>3, CreateAssumption DEF SizeOf, Kind, FilesTyped
  <2>3. CASE tree[path].content = Output
    BY <1>1a, <2>1, <2>3 DEF Copies
  <2>4. CASE tree[path].content # Output
    <3> DEFINE x == tree[path].size  y == SizeOf(tree[path].content)
    <3>1. x \in 0..MaxSize /\ x \in Int /\ y \in Nat /\ y \in Int
      BY <2>1, <2>2
    <3>2. size = Min({x, y})
      BY <1>1a, <2>4 DEF Copies
    <3> HIDE DEF x, y
    <3>3. Min({x, y}) \in {x, y} /\ Min({x, y}) <= x
      BY <3>1, MinOfTwo
    <3> QED
      BY <2>1, <3>1, <3>2, <3>3
  <2> QED
    BY <2>3, <2>4
<1> DEFINE new == [kind |-> tree[path].kind, size |-> size, content |-> tree[path].content]
<1>5. tree' = [tree EXCEPT ![path] = new]
  <2>1. PICK kind, old, content : tree[path] = [kind |-> kind, size |-> old, content |-> content]
    BY <1>3
  <2>2. [tree[path] EXCEPT !.size = size] = new
    BY <2>1
  <2> QED
    BY <1>1a, <2>2
<1>6. new \in Entry /\ new.kind = "file" /\ new.content \in DOMAIN files
  BY <1>3, <1>4
<1> HIDE DEF new
<1>7. /\ tree \in [DOMAIN tree -> Entry] /\ IsFiniteSet(DOMAIN tree)
      /\ DOMAIN tree \subseteq Seq(DOMAIN Key) \ {<< >>}
      /\ to_copy \subseteq {p \in DOMAIN tree : tree[p].kind = "file"}
      /\ \A p \in DOMAIN tree : tree[p].kind = "file" => tree[p].content \in DOMAIN files
  BY <1>2 DEF TreeTyped
<1> HIDE DEF Entry
<1>8. DOMAIN tree' = DOMAIN tree /\ tree' \in [DOMAIN tree' -> Entry]
  BY <1>5, <1>6, <1>7
<1>9. /\ \A p \in DOMAIN tree' : tree'[p].kind = tree[p].kind
      /\ \A p \in DOMAIN tree' : tree'[p].kind = "file" => tree'[p].content \in DOMAIN files
  BY <1>3, <1>5, <1>6, <1>7
<1>10. TreeTyped'
  BY <1>1a, <1>2, <1>7, <1>8, <1>9 DEF TreeTyped, Entry
<1>11. FilesTyped' /\ ScanTyped'
  BY <1>2 DEF FilesTyped, ScanTyped, ScanFrames
<1> QED
  BY <1>2, <1>10, <1>11 DEF CreateTyped

LEMMA ChangingKeepsTypes ==
    ASSUME CreateTyped, FileChanges
    PROVE  CreateTyped'
<1>1. PICK node, now :
          /\ now \in [kind : {"file"}, size : 0..(MaxSize + 1)] \cup {[kind |-> "dangling"]}
          /\ files[node].kind = "file"
          /\ files' = [files EXCEPT ![node] = now]
  BY DEF FileChanges
<1>2. step = "write" /\ UNCHANGED <<step, scanning, tree, to_copy, images>>
  BY DEF FileChanges
<1>3. /\ DOMAIN files' = DOMAIN files
      /\ \A n \in DOMAIN files : files'[n] = IF n = node THEN now ELSE files[n]
  BY <1>1
<1>4. now.kind \in {"file", "dangling"} /\ (now.kind = "file" => now.size \in Nat)
  <2>1. MaxSize + 1 \in Nat
    BY CreateAssumption
  <2> QED
    BY <1>1, <2>1
<1>5. FilesTyped'
  <2> SUFFICES ASSUME NEW n \in DOMAIN files
               PROVE  /\ files'[n].kind \in {"directory", "file", "other", "dangling", "image"}
                      /\ files'[n].kind = "directory" =>
                            /\ DOMAIN files'[n].entries \subseteq DOMAIN Key
                            /\ Range(files'[n].entries) \subseteq DOMAIN files
                      /\ files'[n].kind = "file" => files'[n].size \in Nat
    BY <1>3 DEF FilesTyped
  <2>1. CASE n = node
    BY <1>3, <1>4, <2>1
  <2>2. CASE n # node
    <3>1. files'[n] = files[n]
      BY <1>3, <2>2
    <3>2. /\ files[n].kind \in {"directory", "file", "other", "dangling", "image"}
          /\ files[n].kind = "directory" =>
                /\ DOMAIN files[n].entries \subseteq DOMAIN Key
                /\ Range(files[n].entries) \subseteq DOMAIN files
          /\ files[n].kind = "file" => files[n].size \in Nat
      BY DEF CreateTyped, FilesTyped
    <3> QED
      BY <3>1, <3>2
  <2> QED
    BY <2>1, <2>2
<1>6. TreeTyped'
  BY <1>2, <1>3 DEF CreateTyped, TreeTyped
<1>7. ScanTyped'
  <2>1. scanning' = << >> /\ step' = "write"
    BY <1>2 DEF CreateTyped, ScanTyped
  <2>2. /\ scanning' \in Seq(ScanFrames') /\ Len(scanning') = 0 /\ Len(scanning') <= MaxPath + 1
        /\ \A i \in 1..Len(scanning') : Len(scanning'[i].path) = i - 1
    BY <2>1, CreateAssumption
  <2> QED
    BY <2>1, <2>2 DEF ScanTyped
<1> QED
  BY <1>2, <1>5, <1>6, <1>7 DEF CreateTyped

LEMMA BeginningKeepsTypes ==
    ASSUME BatchInv, CreateTyped, BeginScan
    PROVE  CreateTyped'
<1> DEFINE new == DirectoryFrame(groups[group].directory, << >>)
<1>1. /\ step = "begin" /\ step' = "scan" /\ Kind(groups[group].directory) = "directory"
      /\ scanning' = <<new>> /\ tree' = << >> /\ UNCHANGED <<files, to_copy, images>>
  BY DEF BeginScan
<1>2. groups[group].directory \in DOMAIN files
  <2>1. groups \in Seq([directory : DOMAIN files, output : DOMAIN images]) /\ group \in 1..Len(groups)
    BY <1>1 DEF BatchInv
  <2>2. groups[group] \in [directory : DOMAIN files, output : DOMAIN images]
    BY <2>1, ElementOfSeq
  <2> QED
    BY <2>2
<1>3. new \in ScanFrames /\ new.path = << >>
  <2> DEFINE node == groups[group].directory
  <2> HIDE DEF node
  <2>1. node \in DOMAIN files /\ files[node].kind = "directory" /\ new = DirectoryFrame(node, << >>)
    BY <1>1, <1>2 DEF Kind, node
  <2>2. Listed(node) \subseteq DOMAIN files[node].entries /\ DOMAIN files[node].entries \subseteq DOMAIN Key
    BY <2>1 DEF Listed, CreateTyped, FilesTyped
  <2>3. << >> \in Seq(DOMAIN Key)
    OBVIOUS
  <2> QED
    BY <2>1, <2>2, <2>3 DEF DirectoryFrame, ScanFrames
<1> HIDE DEF new
<1>4. ScanFrames' = ScanFrames /\ FilesTyped'
  BY <1>1 DEF ScanFrames, CreateTyped, FilesTyped
<1>5. ScanTyped'
  <2>1. scanning' \in Seq(ScanFrames) /\ Len(scanning') = 1 /\ scanning'[1].path = << >> /\ scanning' # << >>
    BY <1>1, <1>3
  <2>2. Len(scanning') <= MaxPath + 1
    BY <2>1, CreateAssumption
  <2>3. \A i \in 1..Len(scanning') : Len(scanning'[i].path) = i - 1
    BY <2>1
  <2> QED
    BY <1>1, <1>4, <2>1, <2>2, <2>3 DEF ScanTyped
<1>6. TreeTyped'
  <2>1. DOMAIN tree' = {} /\ to_copy' = {}
    BY <1>1 DEF CreateTyped, TreeTyped
  <2>2. IsFiniteSet(DOMAIN tree')
    BY <2>1, FS_EmptySet
  <2>3. tree' \in [DOMAIN tree' -> [kind : {"directory", "file"}, size : 0..MaxSize, content : {0} \cup DOMAIN files']]
    BY <1>1, <2>1
  <2> QED
    BY <2>1, <2>2, <2>3 DEF TreeTyped
<1> QED
  BY <1>1, <1>4, <1>5, <1>6 DEF CreateTyped

LEMMA CreateKeepsTypes ==
    ASSUME BatchInv, CreateTyped, [CreateNext]_create_vars
    PROVE  CreateTyped'
<1>0. /\ step # "scan" => scanning = << >>
      /\ step # "write" => to_copy = {}
      /\ to_copy \subseteq {p \in DOMAIN tree : tree[p].kind = "file"}
  BY DEF CreateTyped, ScanTyped, TreeTyped
<1>1. CASE BeginScan
  BY <1>1, BeginningKeepsTypes
<1>2. CASE NotADirectory \/ NoAccess \/ NoWorkingDirectory
  <2>1. /\ step = "begin" /\ step' \in {"begin", "finished", "aborted"}
        /\ UNCHANGED <<files, scanning, tree, to_copy, images>>
    BY <1>2 DEF NotADirectory, NoAccess, NoWorkingDirectory, Report
  <2> QED
    BY <2>1, <1>0, NoScanTyped
<1>3. CASE Ignore \/ AddFile \/ EnterDirectory \/ AddDirectory
  BY <1>3, ScanKeepsTypes
<1>4. CASE RefuseEntry \/ ScanFails
  <2>1. /\ step = "scan" /\ step' \in {"begin", "finished"} /\ scanning' = << >>
        /\ UNCHANGED <<files, tree, to_copy, images>>
    BY <1>4 DEF RefuseEntry, ScanFails, Refuse, Report
  <2> QED
    BY <2>1, <1>0, NoScanTyped
<1>5. CASE OpenOutput
  <2>1. /\ step = "scan" /\ step' = "write" /\ scanning' = << >> /\ UNCHANGED <<files, tree>>
        /\ images' = [images EXCEPT ![Output] = Partial]
        /\ to_copy' = {p \in DOMAIN tree : tree[p].kind = "file"}
    BY <1>5 DEF OpenOutput
  <2>2. \A n \in DOMAIN images' :
            images'[n].state = "whole" => n \in DOMAIN images /\ images'[n] = images[n]
    BY <2>1 DEF Partial
  <2> QED
    BY <2>1, <2>2, NoScanTyped
<1>6. CASE OpenFails
  <2>1. /\ step = "scan" /\ step' = "remove" /\ scanning' = << >>
        /\ UNCHANGED <<files, tree, to_copy, images>>
    BY <1>6 DEF OpenFails
  <2> QED
    BY <2>1, <1>0, NoScanTyped
<1>7. CASE CopyFile
  BY <1>7, CopyingKeepsTypes
<1>8. CASE FinishImage
  <2>1. /\ step = "write" /\ step' \in {"begin", "finished"}
        /\ UNCHANGED <<files, scanning, tree, to_copy>> /\ to_copy = {}
        /\ images' = [images EXCEPT ![Output] = Whole(tree)]
    BY <1>8 DEF FinishImage, Report
  <2>2. \A n \in DOMAIN images' :
            images'[n].state = "whole" =>
               (n \in DOMAIN images /\ images'[n] = images[n]) \/ images'[n].tree = tree
    BY <2>1 DEF Whole
  <2> QED
    BY <2>1, <2>2, <1>0, NoScanTyped
<1>9. CASE FileIsGone \/ WriteFails
  <2>1. /\ step = "write" /\ step' = "remove" /\ to_copy' = {}
        /\ UNCHANGED <<files, scanning, tree, images>>
    BY <1>9 DEF FileIsGone, WriteFails
  <2> QED
    BY <2>1, <1>0, NoScanTyped
<1>10. CASE RemoveOutput \/ RemoveFails
  <2>1. /\ step = "remove" /\ step' \in {"begin", "finished"}
        /\ UNCHANGED <<files, scanning, tree, to_copy>>
        /\ images' = images \/ images' = [images EXCEPT ![Output] = Absent]
    BY <1>10 DEF RemoveOutput, RemoveFails, Report
  <2>2. \A n \in DOMAIN images' :
            images'[n].state = "whole" => n \in DOMAIN images /\ images'[n] = images[n]
    BY <2>1 DEF Absent
  <2> QED
    BY <2>1, <2>2, <1>0, NoScanTyped
<1>11. CASE FileChanges
  BY <1>11, ChangingKeepsTypes
<1>12. CASE UNCHANGED create_vars
  <2>1. UNCHANGED <<files, groups, step, scanning, tree, to_copy, images>>
    BY <1>12 DEF create_vars
  <2> QED
    BY <2>1 DEF CreateTyped, FilesTyped, ScanTyped, ScanFrames, TreeTyped
<1> QED
  BY <1>1, <1>2, <1>3, <1>4, <1>5, <1>6, <1>7, <1>8, <1>9, <1>10, <1>11, <1>12
     DEF CreateNext, CreateStep, CreateFailure

LEMMA CreateStartsTyped == CreateInit => CreateTyped
<1> SUFFICES ASSUME CreateInit PROVE CreateTyped
  OBVIOUS
<1>1. PICK b \in Batches : files = b.files /\ groups = b.groups
  BY DEF CreateInit
<1>2. FilesTyped
  BY <1>1, CreateAssumption DEF FilesTyped
<1>3. scanning = << >> /\ step # "scan" /\ step # "write" /\ tree = << >> /\ to_copy = {}
  BY DEF CreateInit
<1>4. ScanTyped
  <2>1. /\ scanning \in Seq(ScanFrames) /\ Len(scanning) = 0 /\ Len(scanning) <= MaxPath + 1
        /\ \A i \in 1..Len(scanning) : Len(scanning[i].path) = i - 1
    BY <1>3, CreateAssumption
  <2> QED
    BY <1>3, <2>1 DEF ScanTyped
<1>5. TreeTyped
  <2>1. DOMAIN tree = {} /\ IsFiniteSet(DOMAIN tree)
    BY <1>3, FS_EmptySet
  <2>2. tree \in [DOMAIN tree -> [kind : {"directory", "file"}, size : 0..MaxSize, content : {0} \cup DOMAIN files]]
    BY <1>3, <2>1
  <2> QED
    BY <1>3, <2>1, <2>2 DEF TreeTyped
<1>6. \A n \in DOMAIN images : images[n].state # "whole"
  BY DEF CreateInit, Absent, Earlier
<1> QED
  BY <1>2, <1>4, <1>5, <1>6 DEF CreateTyped

\* An image that was made stays as it is until a later group is to replace it.
LEMMA ImagesStay ==
    ASSUME BatchInv, group <= Len(groups), UNCHANGED groups,
           \A n \in DOMAIN images : n # Output => images'[n] = images[n],
           NEW r \in Result,
           \/ UNCHANGED <<group, results>>
           \/ group' = group + 1 /\ results' = Append(results, r),
           NEW g \in Made' \cap Unreplaced'
    PROVE  \/ g \in Made \cap Unreplaced /\ ImageOf(g)' = ImageOf(g) /\ g < group /\ groups[g].output # Output
           \/ g = group /\ r = "created" /\ group' = group + 1
<1>1. /\ Len(results) \in Nat /\ Len(groups) \in Nat /\ group = Len(results) + 1
      /\ DOMAIN results = 1..Len(results) /\ DOMAIN groups = 1..Len(groups)
      /\ group \in 1..Len(groups) /\ results \in Seq(Result)
  <2>1. groups \in Seq([directory : DOMAIN files, output : DOMAIN images])
    BY DEF BatchInv
  <2>2. results \in Seq(Result) /\ Len(results) = group - 1 /\ group \in 1..(Len(groups) + 1)
    BY DEF BatchInv
  <2> QED
    BY <2>1, <2>2
<1>2. CASE g = group
  <2>1. g \notin DOMAIN results
    BY <1>1, <1>2
  <2>2. g \in DOMAIN results' /\ results'[g] = "created"
    BY DEF Made
  <2>3. group' = group + 1 /\ results' = Append(results, r)
    BY <2>1, <2>2
  <2>4. results'[Len(results) + 1] = r
    BY <1>1, <2>3
  <2> QED
    BY <1>1, <1>2, <2>2, <2>3, <2>4
<1>3. CASE g # group
  <2>1. g \in DOMAIN results' /\ results'[g] = "created"
    BY DEF Made
  <2>2. g \in 1..Len(results) /\ results'[g] = results[g] /\ group' \in {group, group + 1}
    <3>1. CASE UNCHANGED <<group, results>>
      BY <1>1, <2>1, <3>1
    <3>2. CASE group' = group + 1 /\ results' = Append(results, r)
      <4>1. DOMAIN results' = 1..(Len(results) + 1) /\ \A i \in 1..Len(results) : results'[i] = results[i]
        BY <1>1, <3>2
      <4> QED
        BY <1>1, <1>3, <2>1, <3>2, <4>1
    <3> QED
      BY <3>1, <3>2
  <2>3. \A h \in DOMAIN groups : g < h /\ h <= group => groups[h].output # groups[g].output
    <3>1. \A h \in DOMAIN groups : g < h /\ h <= group' => groups[h].output # groups[g].output
      BY DEF Unreplaced
    <3> QED
      BY <1>1, <2>2, <3>1
  <2>4. g \in Made \cap Unreplaced
    BY <1>1, <2>1, <2>2, <2>3 DEF Made, Unreplaced
  <2>5. groups[g].output # Output
    BY <1>1, <2>2, <2>3 DEF Output
  <2>6. groups[g].output \in DOMAIN images
    <3>1. groups \in Seq([directory : DOMAIN files, output : DOMAIN images]) /\ g \in 1..Len(groups)
      BY <1>1, <2>2 DEF BatchInv
    <3>2. groups[g] \in [directory : DOMAIN files, output : DOMAIN images]
      BY <3>1, ElementOfSeq
    <3> QED
      BY <3>2
  <2>7. ImageOf(g)' = ImageOf(g)
    BY <2>5, <2>6 DEF ImageOf
  <2> QED
    BY <1>1, <2>2, <2>4, <2>5, <2>7
<1> QED
  BY <1>2, <1>3

\* Which is one a group has finished.
LEMMA MadeOrStays ==
    ASSUME CreateInv, [CreateNext]_create_vars, NEW g \in Made' \cap Unreplaced'
    PROVE  /\ UNCHANGED groups
           /\ \/ g \in Made \cap Unreplaced /\ ImageOf(g)' = ImageOf(g)
              \/ FinishImage /\ g = group /\ g <= Len(groups) /\ ImageOf(g)' = Whole(tree)
<1> USE DEF CreateInv
<1>1. CASE UNCHANGED create_vars
  BY <1>1 DEF create_vars, Made, Unreplaced, ImageOf
<1>2. CASE CreateNext
  <2>1. step \notin {"finished", "aborted"} /\ UNCHANGED groups
    BY <1>2 DEF CreateNext, CreateStep, CreateFailure, BeginScan, NotADirectory, Ignore, AddFile,
                EnterDirectory, AddDirectory, RefuseEntry, OpenOutput, CopyFile, FileIsGone,
                FinishImage, RemoveOutput, NoAccess, NoWorkingDirectory, ScanFails, OpenFails,
                WriteFails, RemoveFails, FileChanges, Refuse
  <2>2. BatchInv /\ group <= Len(groups)
    BY <2>1 DEF BatchInv
  <2>3. CASE FinishImage
    <3>1. /\ images' = [images EXCEPT ![Output] = Whole(tree)]
          /\ group' = group + 1 /\ results' = Append(results, "created") /\ "created" \in Result
      BY <2>3 DEF FinishImage, Report, Result
    <3>2. \A n \in DOMAIN images : n # Output => images'[n] = images[n]
      BY <3>1
    <3>3. \/ g \in Made \cap Unreplaced /\ ImageOf(g)' = ImageOf(g)
          \/ g = group
      BY <2>1, <2>2, <3>1, <3>2, ImagesStay
    <3>4. g = group => ImageOf(g)' = Whole(tree)
      <4>1. Output \in DOMAIN images
        <5>1. groups \in Seq([directory : DOMAIN files, output : DOMAIN images]) /\ group \in 1..Len(groups)
          BY <2>2 DEF BatchInv
        <5>2. groups[group] \in [directory : DOMAIN files, output : DOMAIN images]
          BY <5>1, ElementOfSeq
        <5> QED
          BY <5>2 DEF Output
      <4> QED
        BY <2>1, <3>1, <4>1 DEF ImageOf, Output
    <3> QED
      BY <2>1, <2>2, <2>3, <3>3, <3>4
  <2>4. CASE ~FinishImage
    <3>1. \E r \in Result \ {"created"} :
              \/ UNCHANGED <<group, results>>
              \/ group' = group + 1 /\ results' = Append(results, r)
      <4>1. CASE \/ BeginScan \/ NoWorkingDirectory \/ Ignore \/ AddFile \/ EnterDirectory \/ AddDirectory
                \/ OpenOutput \/ OpenFails \/ CopyFile \/ FileIsGone \/ WriteFails \/ FileChanges
        <5>1. UNCHANGED <<group, results>> /\ "refused" \in Result \ {"created"}
          BY <4>1 DEF BeginScan, NoWorkingDirectory, Ignore, AddFile, EnterDirectory, AddDirectory,
                      OpenOutput, OpenFails, CopyFile, FileIsGone, WriteFails, FileChanges, Result
        <5> QED
          BY <5>1
      <4>2. CASE NotADirectory \/ NoAccess \/ RefuseEntry \/ ScanFails
        BY <4>2 DEF NotADirectory, NoAccess, RefuseEntry, ScanFails, Refuse, Report, Result
      <4>3. CASE RemoveOutput
        BY <4>3 DEF RemoveOutput, Report, Result
      <4>4. CASE RemoveFails
        BY <4>4 DEF RemoveFails, Report, Result
      <4> QED
        BY <1>2, <2>4, <4>1, <4>2, <4>3, <4>4 DEF CreateNext, CreateStep, CreateFailure
    <3>2. \A n \in DOMAIN images : n # Output => images'[n] = images[n]
      BY <1>2, <2>4
         DEF CreateNext, CreateStep, CreateFailure, BeginScan, NotADirectory, Ignore, AddFile,
                EnterDirectory, AddDirectory, RefuseEntry, OpenOutput, CopyFile, FileIsGone,
                RemoveOutput, NoAccess, NoWorkingDirectory, ScanFails, OpenFails,
                WriteFails, RemoveFails, FileChanges, Refuse
    <3> QED
      BY <2>1, <2>2, <3>1, <3>2, ImagesStay
  <2> QED
    BY <2>3, <2>4
<1> QED
  BY <1>1, <1>2

MadeAreWhole == \A g \in Made \cap Unreplaced : ImageOf(g).state = "whole"

LEMMA SequenceOf ==
    ASSUME NEW S, IsFiniteSet(S)
    PROVE  /\ SetToSeq(S) \in Seq(S)
           /\ \A x \in S : \E i \in 1..Len(SetToSeq(S)) : x = SetToSeq(S)[i]
           /\ \A i, j \in 1..Len(SetToSeq(S)) : SetToSeq(S)[i] = SetToSeq(S)[j] => i = j
<1> DEFINE n == Cardinality(S)
<1>1. n \in Nat /\ ExistsBijection(1..n, S)
  BY FS_CardinalityType
<1> HIDE DEF n
<1>2. PICK b \in [1..n -> S] : \A i, j \in 1..n : b[i] = b[j] => i = j
  BY <1>1 DEF ExistsBijection, Bijection, Injection, IsInjective
<1>3. \E f \in [1..n -> S] : IsInjective(f)
  BY <1>2 DEF IsInjective
<1> DEFINE f == SetToSeq(S)
<1>4. f \in [1..n -> S] /\ IsInjective(f)
  BY <1>3 DEF SetToSeq, n
<1> HIDE DEF f
<1>5. f \in Seq(S) /\ Len(f) = n
  BY <1>1, <1>4
<1>6. \A i, j \in 1..n : f[i] = f[j] => i = j
  BY <1>4 DEF IsInjective
<1>7. f \in Surjection(1..n, S)
  <2>1. f \in Injection(1..n, S) /\ IsFiniteSet(1..n) /\ Cardinality(1..n) = n
    <3>1. IsFiniteSet(1..n) /\ Cardinality(1..n) = IF 1 > n THEN 0 ELSE n - 1 + 1
      <4>1. 1 \in Int /\ n \in Int
        BY <1>1
      <4> QED
        BY <4>1, FS_Interval, Zenon
    <3>2. f \in Injection(1..n, S)
      BY <1>4 DEF Injection, IsInjective
    <3> QED
      BY <1>1, <3>1, <3>2
  <2> QED
    BY <2>1, FS_Injection DEF n
<1>8. \A x \in S : \E i \in 1..n : f[i] = x
  BY <1>7 DEF Surjection
<1> QED
  BY <1>5, <1>6, <1>8 DEF f

RecordsIn(made, d) == {RecordOf(made, p) : p \in ReadableEntries(made, d)}

WrittenVolume(made) ==
    [magic  |-> 2,
     root   |-> << >>,
     tables |-> [d \in TablesOf(made) |->
          [records |-> SetToSeq(RecordsIn(made, d)),
           sound   |-> HasUsableNames(made, d)]]]

LEMMA WrittenRecords ==
    ASSUME NEW made, IsTreeOf(made), NEW d
    PROVE  /\ SetToSeq(RecordsIn(made, d)) \in Seq(RecordsIn(made, d))
           /\ \A r \in RecordsIn(made, d) : \E i \in 1..Len(SetToSeq(RecordsIn(made, d))) :
                 r = SetToSeq(RecordsIn(made, d))[i]
           /\ Walk!Range(SetToSeq(RecordsIn(made, d))) = RecordsIn(made, d)
           /\ \A i, j \in 1..Len(SetToSeq(RecordsIn(made, d))) :
                 SetToSeq(RecordsIn(made, d))[i] = SetToSeq(RecordsIn(made, d))[j] => i = j
<1> DEFINE E == ReadableEntries(made, d)
           f == [p \in E |-> RecordOf(made, p)]
           S == RecordsIn(made, d)
<1>1. IsFiniteSet(E)
  <2>1. E \in SUBSET DOMAIN made
    BY DEF ReadableEntries, EntriesOf
  <2> QED
    BY <2>1, FS_Subset DEF IsTreeOf
<1>2. f \in Surjection(E, S)
  BY DEF RecordsIn, Surjection
<1> HIDE DEF f, E, S
<1>3. IsFiniteSet(S)
  BY <1>1, <1>2, FS_Surjection
<1>4. /\ SetToSeq(S) \in Seq(S)
      /\ \A x \in S : \E i \in 1..Len(SetToSeq(S)) : x = SetToSeq(S)[i]
      /\ \A i, j \in 1..Len(SetToSeq(S)) : SetToSeq(S)[i] = SetToSeq(S)[j] => i = j
  BY <1>3, SequenceOf
<1>5. Walk!Range(SetToSeq(S)) = S
  <2>1. DOMAIN SetToSeq(S) = 1..Len(SetToSeq(S)) /\ \A i \in 1..Len(SetToSeq(S)) : SetToSeq(S)[i] \in S
    BY <1>4, ElementOfSeq
  <2> QED
    BY <1>4, <2>1 DEF Walk!Range
<1> QED
  BY <1>4, <1>5 DEF S

LEMMA WrittenImageIs ==
    ASSUME NEW made
    PROVE  /\ WrittenImage(made) = <<WrittenVolume(made)>>
           /\ WrittenImage(made) # NoImage
           /\ Walk!Range(WrittenImage(made)) = {WrittenVolume(made)}
           /\ WrittenImage(made) \in Seq(Walk!Range(WrittenImage(made)))
           /\ Len(WrittenImage(made)) = 1
<1> DEFINE v == WrittenVolume(made)
<1>1. WrittenImage(made) = <<v>>
  BY DEF WrittenImage, WrittenVolume, RecordsIn
<1> HIDE DEF v
<1>2. <<v>> # << >> /\ DOMAIN <<v>> = {1} /\ <<v>>[1] = v /\ Len(<<v>>) = 1 /\ <<v>> \in Seq({v})
  OBVIOUS
<1>3. Walk!Range(<<v>>) = {v}
  BY <1>2 DEF Walk!Range
<1> QED
  BY <1>1, <1>2, <1>3 DEF NoImage, v

LEMMA WrittenImageIsSound ==
    ASSUME NEW made, IsTreeOf(made)
    PROVE  Walk!IsVolume(WrittenVolume(made))
<1> DEFINE v == WrittenVolume(made)
<1>1. v.magic \in 0..2
  BY DEF WrittenVolume
<1>2. ASSUME NEW table \in Walk!Range(v.tables)
      PROVE  /\ table.sound \in BOOLEAN
             /\ table.records \in Seq(Walk!Range(table.records))
             /\ \A r \in Walk!Range(table.records) :
                   /\ r.is_directory \in BOOLEAN /\ r.name \in DOMAIN Key
                   /\ r.size \in Nat /\ r.there \in Nat
  <2>1. PICK d \in TablesOf(made) : 
            table = [records |-> SetToSeq(RecordsIn(made, d)),
                     sound   |-> HasUsableNames(made, d)]
    BY DEF WrittenVolume, Walk!Range
  <2>2. table.sound \in BOOLEAN /\ table.records = SetToSeq(RecordsIn(made, d))
    BY <2>1 DEF HasUsableNames
  <2>3. table.records \in Seq(RecordsIn(made, d)) /\ Walk!Range(table.records) = RecordsIn(made, d)
    BY <2>2, WrittenRecords
  <2>4. ASSUME NEW r \in RecordsIn(made, d)
        PROVE  /\ r.is_directory \in BOOLEAN /\ r.name \in DOMAIN Key
               /\ r.size \in Nat /\ r.there \in Nat
    <3>1. PICK p \in EntriesOf(made, d) : r = RecordOf(made, p)
      BY DEF RecordsIn, ReadableEntries
    <3>2. p \in DOMAIN made /\ p \in Seq(DOMAIN Key) /\ p # << >> /\ made[p].size \in Nat
      BY DEF EntriesOf, IsTreeOf
    <3>3. p[Len(p)] \in DOMAIN Key
      BY <3>2
    <3> QED
      BY <3>1, <3>2, <3>3 DEF RecordOf
  <2> QED
    BY <2>2, <2>3, <2>4
<1> QED
  BY <1>1, <1>2 DEF Walk!IsVolume

LEMMA RecordsAreTyped ==
    ASSUME NEW volume, Walk!IsVolume(volume), NEW r \in RecordsOf(volume)
    PROVE  /\ r.is_directory \in BOOLEAN /\ r.name \in DOMAIN Key
           /\ r.size \in Nat /\ r.there \in Nat
BY DEF RecordsOf, Walk!IsVolume

LEMMA TreeReadIsTree ==
    ASSUME WalkTyped, partition # 0
    PROVE  IsTreeOf(TreeRead)
<1> DEFINE P == {seen[i].path : i \in DOMAIN seen}
           f == [i \in DOMAIN seen |-> seen[i].path]
<1>1. seen \in Seq(SeenSet) /\ DOMAIN seen = 1..Len(seen) /\ Len(seen) \in Nat
  BY DEF WalkTyped
<1>1a. \A i \in DOMAIN seen : seen[i].path \in Seq(DOMAIN Key) \ {<< >>} /\ seen[i].record \in RecordsOf(Found)
  <2>1. \A i \in DOMAIN seen : seen[i] \in SeenSet
    BY <1>1, ElementOfSeq
  <2> QED
    BY <2>1 DEF SeenSet
<1>2. IsFiniteSet(P)
  <2>1. IsFiniteSet(1..Len(seen))
    <3>1. 1 \in Int /\ Len(seen) \in Int
      BY <1>1
    <3> QED
      BY <3>1, FS_Interval
  <2>2. f \in Surjection(DOMAIN seen, P)
    BY DEF Surjection
  <2> HIDE DEF P, f
  <2> QED
    BY <1>1, <2>1, <2>2, FS_Surjection
<1>3. P \subseteq Seq(DOMAIN Key) \ {<< >>}
  BY <1>1a
<1>4. DOMAIN TreeRead = P
  BY DEF TreeRead
<1>5. ASSUME NEW p \in P
      PROVE  TreeRead[p].kind \in {"directory", "file"} /\ TreeRead[p].size \in Nat
  <2> DEFINE record == (CHOOSE s \in Range(seen) : s.path = p).record
  <2>1. \E s \in Range(seen) : s.path = p
    BY DEF Range
  <2>2. (CHOOSE s \in Range(seen) : s.path = p) \in Range(seen)
    BY <2>1
  <2>3. record \in RecordsOf(Found)
    <3>1. \A s \in Range(seen) : s.record \in RecordsOf(Found)
      BY <1>1a DEF Range
    <3> QED
      BY <2>2, <3>1
  <2>4. TreeRead[p] = IF record.is_directory THEN [kind |-> "directory", size |-> 0, content |-> 0]
                      ELSE [kind    |-> "file",
                            size    |-> Min({record.size, record.there}),
                            content |-> record.start[1]]
    BY DEF TreeRead
  <2> HIDE DEF record
  <2>5. Walk!IsVolume(Found)
    BY FoundIsVolume
  <2>6. record.size \in Nat /\ record.there \in Nat
    BY <2>3, <2>5, RecordsAreTyped
  <2>7. Min({record.size, record.there}) \in Nat
    <3> DEFINE x == record.size  y == record.there
    <3>1. x \in Nat /\ y \in Nat /\ x \in Int /\ y \in Int
      BY <2>6
    <3> HIDE DEF x, y
    <3>2. Min({x, y}) \in {x, y}
      BY <3>1, MinOfTwo
    <3> QED
      BY <3>1, <3>2 DEF x, y
  <2> QED
    BY <2>4, <2>7
<1> QED
  BY <1>2, <1>3, <1>4, <1>5 DEF IsTreeOf

-------------------------------------------------------------------------------
TripTyped ==
    /\ CreateInv /\ CreateTyped /\ MadeAreWhole
    /\ WalkTyped
    /\ image = NoImage => pc = "open"
    /\ origin \in 0..Len(groups)
    /\ \A p \in DOMAIN rewritten : rewritten[p].kind \in {"directory", "file"}

\* An image is there to be read, and nothing has been read of it.
LEMMA ImageToRead ==
    ASSUME ImageIsSound', mode' \in Walk!Modes, skip_system_update' \in BOOLEAN,
           partition' = 0, pc' = "open", frames' = << >>, seen' = << >>, disk' = << >>,
           copied' \in Nat, statistics' = NothingCounted
    PROVE  WalkTyped'
<1>1. frames' \in Seq(FrameSet') /\ Len(frames') = 0 /\ seen' \in Seq(SeenSet')
  OBVIOUS
<1>2. partition' \in 0..Len(image')
  BY DEF ImageIsSound
<1>3. MaxDepth \in Nat
  BY TripAssumption DEF Walk!TreeWalkAssumption
<1>4. disk' \in [DOMAIN disk' -> MadeSet']
  OBVIOUS
<1>5. statistics' \in [files : Nat, bytes : Nat]
  BY DEF NothingCounted
<1> QED
  BY <1>1, <1>2, <1>3, <1>4, <1>5 DEF WalkTyped, ImageIsSound

LEMMA ShownImage ==
    ASSUME NEW made, IsTreeOf(made), Show(made)
    PROVE  /\ ImageIsSound' /\ mode' \in Walk!Modes /\ mode' # "read"
           /\ skip_system_update' \in BOOLEAN /\ image' # NoImage
<1>1. image' = WrittenImage(made)
  BY DEF Show
<1>2. ImageIsSound'
  BY <1>1, WrittenImageIs, WrittenImageIsSound DEF ImageIsSound
<1>3. mode' \in Walk!Modes /\ mode' # "read" /\ skip_system_update' \in BOOLEAN
  BY DEF Show, Commands
<1> QED
  BY <1>1, <1>2, <1>3, WrittenImageIs

LEMMA TripStartsTyped == TripInit => TripTyped
<1> SUFFICES ASSUME TripInit PROVE TripTyped
  OBVIOUS
<1>1. CreateInv /\ CreateTyped
  BY CreateStarts, CreateStartsTyped DEF TripInit
<1>2. MadeAreWhole
  BY DEF TripInit, CreateInit, MadeAreWhole, Made
<1>3. ImageIsSound
  <2>1. CASE image = NoImage
    <3>1. image = << >> /\ Walk!Range(image) = {}
      BY <2>1 DEF NoImage, Walk!Range
    <3> QED
      BY <3>1 DEF ImageIsSound
  <2>2. CASE image \in ForeignImages
    BY <2>2, TripAssumption DEF ImageIsSound, Range, Walk!Range
  <2> QED
    BY <2>1, <2>2 DEF TripInit
<1>4. WalkTyped
  <2>1. /\ mode \in Walk!Modes /\ skip_system_update \in BOOLEAN
        /\ partition = 0 /\ pc = "open" /\ frames = << >> /\ seen = << >> /\ disk = << >>
        /\ copied = 0 /\ statistics = NothingCounted
    BY DEF TripInit, Walk!Begin, Walk!Modes, Commands, NothingCounted
  <2>2. frames \in Seq(FrameSet) /\ Len(frames) = 0 /\ seen \in Seq(SeenSet)
    BY <2>1
  <2>3. partition \in 0..Len(image)
    BY <1>3, <2>1 DEF ImageIsSound
  <2>4. MaxDepth \in Nat
    BY TripAssumption DEF Walk!TreeWalkAssumption
  <2>5. disk \in [DOMAIN disk -> MadeSet]
    BY <2>1
  <2>6. statistics \in [files : Nat, bytes : Nat]
    BY <2>1 DEF NothingCounted
  <2> QED
    BY <1>3, <2>1, <2>2, <2>3, <2>4, <2>5, <2>6 DEF WalkTyped
<1>5. Len(groups) \in Nat
  BY <1>1 DEF CreateInv, BatchInv
<1> QED
  BY <1>1, <1>2, <1>4, <1>5 DEF TripInit, TripTyped, Walk!Begin, NoTree

LEMMA MadeStayWhole ==
    ASSUME CreateInv, MadeAreWhole, [CreateNext]_create_vars
    PROVE  MadeAreWhole'
<1> SUFFICES ASSUME NEW g \in Made' \cap Unreplaced'
             PROVE  ImageOf(g)'.state = "whole"
  BY DEF MadeAreWhole
<1>1. \/ g \in Made \cap Unreplaced /\ ImageOf(g)' = ImageOf(g)
      \/ ImageOf(g)' = Whole(tree)
  BY MadeOrStays
<1> QED
  BY <1>1 DEF MadeAreWhole, Whole

LEMMA MadeIsTree ==
    ASSUME TripTyped, NEW g \in Made \cap Unreplaced
    PROVE  IsTreeOf(ImageOf(g).tree)
<1>1. ImageOf(g).state = "whole"
  BY DEF TripTyped, MadeAreWhole
<1>2. /\ groups \in Seq([directory : DOMAIN files, output : DOMAIN images])
      /\ results \in Seq(Result) /\ Len(results) = group - 1 /\ group \in 1..(Len(groups) + 1)
  BY DEF TripTyped, CreateInv, BatchInv
<1>3. g \in 1..Len(groups)
  BY <1>2 DEF Made
<1>4. groups[g] \in [directory : DOMAIN files, output : DOMAIN images]
  BY <1>2, <1>3, ElementOfSeq
<1>5. ImageOf(g) = images[groups[g].output] /\ groups[g].output \in DOMAIN images
  BY <1>4 DEF ImageOf
<1> QED
  BY <1>1, <1>5 DEF TripTyped, CreateTyped

LEMMA ReadingBackKeepsTypes ==
    ASSUME TripTyped, ReadBack
    PROVE  WalkTyped' /\ image' # NoImage /\ origin' \in 0..Len(groups)
<1>1. /\ image = NoImage /\ origin' \in Made \cap Unreplaced /\ Show(ImageOf(origin').tree)
      /\ UNCHANGED <<partition, frames, seen, disk, copied, statistics, pc>>
  BY DEF ReadBack
<1> DEFINE made == ImageOf(origin').tree
<1>2. IsTreeOf(made)
  BY <1>1, MadeIsTree
<1>3. /\ ImageIsSound' /\ mode' \in Walk!Modes /\ skip_system_update' \in BOOLEAN /\ image' # NoImage
  BY <1>1, <1>2, ShownImage
<1>4. /\ pc = "open" /\ partition = 0 /\ frames = << >> /\ seen = << >> /\ disk = << >>
      /\ statistics = NothingCounted /\ copied \in Nat
  BY <1>1 DEF TripTyped, WalkTyped
<1>5. WalkTyped'
  BY <1>1, <1>3, <1>4, ImageToRead
<1>6. origin' \in 0..Len(groups)
  <2>1. results \in Seq(Result) /\ Len(results) = group - 1 /\ group \in 1..(Len(groups) + 1)
    BY DEF TripTyped, CreateInv, BatchInv
  <2> QED
    BY <1>1, <2>1 DEF Made
<1> QED
  BY <1>3, <1>5, <1>6

LEMMA RewritingKeepsTypes ==
    ASSUME TripTyped, Rewrite
    PROVE  /\ WalkTyped' /\ image' # NoImage
           /\ \A p \in DOMAIN rewritten' : rewritten'[p].kind \in {"directory", "file"}
<1>1. /\ mode = "read" /\ partition # 0 /\ rewritten' = TreeRead /\ Show(TreeRead)
      /\ partition' = 0 /\ frames' = << >> /\ seen' = << >> /\ pc' = "open"
      /\ UNCHANGED <<disk, copied, statistics>>
  BY DEF Rewrite
<1>2. IsTreeOf(TreeRead)
  BY <1>1, TreeReadIsTree DEF TripTyped
<1>3. /\ ImageIsSound' /\ mode' \in Walk!Modes /\ skip_system_update' \in BOOLEAN /\ image' # NoImage
  BY <1>1, <1>2, ShownImage
<1>4. disk = << >> /\ statistics = NothingCounted /\ copied \in Nat
  BY <1>1 DEF TripTyped, WalkTyped
<1>5. WalkTyped'
  BY <1>1, <1>3, <1>4, ImageToRead
<1> QED
  BY <1>1, <1>2, <1>3, <1>5 DEF IsTreeOf

LEMMA StillTyped ==
    ASSUME WalkTyped, UNCHANGED walk_vars
    PROVE  WalkTyped'
<1>1. UNCHANGED <<image, mode, skip_system_update, partition, frames, seen, disk, copied, statistics, pc>>
  BY DEF walk_vars
<1>2. Walk!Top' = Walk!Top /\ Walk!Records' = Walk!Records /\ Walk!Record' = Walk!Record /\ Walk!Path' = Walk!Path
      /\ Walk!Skipped(Walk!Record)' = Walk!Skipped(Walk!Record)
  BY <1>1 DEF Walk!Top, Walk!Records, Walk!Record, Walk!Path, Walk!Skipped, Walk!TableAt
<1>3. AtFile' = AtFile
  BY <1>1, <1>2 DEF AtFile
<1>4. /\ FrameSet' = FrameSet /\ SeenSet' = SeenSet /\ MadeSet' = MadeSet
      /\ ImageIsSound' = ImageIsSound /\ Found' = Found
  BY <1>1, SameVolume
<1>5. \A k \in 1..Len(frames') : frames'[k].next <= Len(Walk!TableOf(Found', frames'[k].sector).records) + 1
  BY <1>1, <1>4 DEF WalkTyped
<1> QED
  BY <1>1, <1>3, <1>4, <1>5 DEF WalkTyped

LEMMA TripKeepsTypes == TripTyped /\ [TripNext]_trip_vars => TripTyped'
<1> SUFFICES ASSUME TripTyped, [TripNext]_trip_vars PROVE TripTyped'
  OBVIOUS
<1>1. CreateInv' /\ CreateTyped' /\ MadeAreWhole' /\ Len(groups') = Len(groups)
  <2>1. [CreateNext]_create_vars
    BY TripStepsCreate
  <2>2. CreateInv' /\ CreateTyped' /\ MadeAreWhole'
    BY <2>1, CreateKeeps, CreateKeepsTypes, MadeStayWhole DEF TripTyped, CreateInv
  <2>3. UNCHANGED groups
    BY <2>1 DEF CreateNext, CreateStep, CreateFailure, BeginScan, NotADirectory, Ignore, AddFile,
                EnterDirectory, AddDirectory, RefuseEntry, OpenOutput, CopyFile, FileIsGone,
                FinishImage, RemoveOutput, NoAccess, NoWorkingDirectory, ScanFails, OpenFails,
                WriteFails, RemoveFails, FileChanges, Refuse, create_vars
  <2> QED
    BY <2>2, <2>3
<1>2. CASE UNCHANGED <<walk_vars, origin, rewritten>>
  <2>1. WalkTyped'
    BY <1>2, StillTyped DEF TripTyped
  <2> QED
    BY <1>1, <1>2, <2>1 DEF TripTyped, walk_vars
<1>3. CASE ReadBack
  <2>1. WalkTyped' /\ image' # NoImage /\ origin' \in 0..Len(groups)
    BY <1>3, ReadingBackKeepsTypes
  <2> QED
    BY <1>1, <1>3, <2>1 DEF TripTyped, ReadBack
<1>4. CASE Read \/ ReadFails
  <2>1. WalkTyped'
    BY <1>4, WalkKeepsTypes DEF TripTyped, Read, ReadFails
  <2>2. image # NoImage /\ image' = image /\ UNCHANGED <<origin, rewritten>>
    BY <1>4 DEF Read, ReadFails, Walk!Step, Walk!Fail, Walk!End, Walk!inputs, Walk!NoMagic,
                Walk!SecondMagicMissing, Walk!NoFiles, Walk!OpenVolume, Walk!SkipDirectory,
                Walk!VisitDirectory, Walk!VisitFile, Walk!DuplicateName, Walk!NameIsTaken,
                Walk!OpenTarget, Walk!ExtractChunk, Walk!CloseTarget, Walk!LeaveTable,
                Walk!TableIsCorrupt
  <2> QED
    BY <1>1, <2>1, <2>2 DEF TripTyped
<1>5. CASE Rewrite
  <2>1. /\ WalkTyped' /\ image' # NoImage
        /\ \A p \in DOMAIN rewritten' : rewritten'[p].kind \in {"directory", "file"}
    BY <1>5, RewritingKeepsTypes
  <2> QED
    BY <1>1, <1>5, <2>1 DEF TripTyped, Rewrite
<1> QED
  BY <1>2, <1>3, <1>4, <1>5 DEF TripNext, trip_vars, Create, CreateFails, Change

LEMMA TripTypedIsEnough == TripTyped => TypeOK
<1> SUFFICES ASSUME TripTyped PROVE TypeOK
  OBVIOUS
<1>1. CreateTypeOK
  BY DEF TripTyped, CreateInv, BatchInv, CreateTyped, ScanTyped, TreeTyped, CreateTypeOK
<1>2. \A i \in DOMAIN frames :
          frames[i].next \in 1..(Len(Walk!TableAt(frames[i].sector).records) + 1)
  <2> SUFFICES ASSUME NEW i \in DOMAIN frames
               PROVE  frames[i].next \in 1..(Len(Walk!TableAt(frames[i].sector).records) + 1)
    OBVIOUS
  <2>1. WalkTyped
    BY DEF TripTyped
  <2>2. frames \in Seq(FrameSet) /\ DOMAIN frames = 1..Len(frames)
    BY <2>1 DEF WalkTyped
  <2>3. frames[i] \in FrameSet /\ partition # 0
    BY <2>1, <2>2, ElementOfSeq DEF WalkTyped
  <2>4. frames[i].next \in Nat \ {0}
    BY <2>3 DEF FrameSet
  <2>5. Walk!TableAt(frames[i].sector).records \in Seq(RecordsOf(Found))
    BY <2>1, <2>3, FoundIsVolume, SomeTable DEF Walk!TableAt, Found
  <2>6. Len(Walk!TableAt(frames[i].sector).records) \in Nat
    BY <2>5
  <2>7. frames[i].next <= Len(Walk!TableAt(frames[i].sector).records) + 1
    BY <2>1, <2>2 DEF WalkTyped, Walk!TableAt, Found
  <2> QED
    BY <2>4, <2>6, <2>7
<1>3. \A p \in DOMAIN disk : disk[p].kind \in {"directory", "file"} /\ disk[p].size \in Nat
  <2>1. disk \in [DOMAIN disk -> MadeSet]
    BY DEF TripTyped, WalkTyped
  <2>2. \A p \in DOMAIN disk : disk[p] \in MadeSet
    BY <2>1
  <2> QED
    BY <2>2 DEF MadeSet
<1>4. Walk!TypeOK
  BY <1>2, <1>3 DEF TripTyped, WalkTyped, Walk!TypeOK
<1> QED
  BY <1>1, <1>4 DEF TripTyped, TypeOK

\* Nothing the operations keep is ever out of its range: no index leaves its table,
\* no tree gets deeper than the limits, no file longer than an entry can say.
THEOREM TripIsTyped == TripSpec => []TypeOK
<1>1. TripInit => TripTyped
  BY TripStartsTyped
<1>2. TripTyped /\ [TripNext]_trip_vars => TripTyped'
  BY TripKeepsTypes
<1> QED
  BY <1>1, <1>2, TripTypedIsEnough, PTL DEF TripSpec

-------------------------------------------------------------------------------
(* The directories of a volume by breadth. *)

RootPlace(volume) == [path |-> << >>, sector |-> volume.root]

LevelFrom(f, volume, n) ==
    IF n = 0 THEN {RootPlace(volume)} ELSE UNION {Walk!Below(volume, place) : place \in f[n - 1]}

LEMMA LevelsExist ==
    ASSUME NEW volume
    PROVE  Walk!Levels(volume) = [n \in 0..(MaxDepth + 1) |-> LevelFrom(Walk!Levels(volume), volume, n)]
<1> DEFINE P(k) == \E f : f = [n \in 0..k |-> LevelFrom(f, volume, n)]
           S == {k \in Nat : P(k)}
<1>1. \A f, g : LevelFrom(f, volume, 0) = LevelFrom(g, volume, 0)
  BY DEF LevelFrom
<1>2. \A f, g : \A n : f[n - 1] = g[n - 1] => LevelFrom(f, volume, n) = LevelFrom(g, volume, n)
  BY DEF LevelFrom
<1>3. P(0)
  <2> DEFINE f == [n \in 0..0 |-> LevelFrom(n, volume, 0)]
  <2>1. f = [n \in 0..0 |-> LevelFrom(f, volume, n)]
    <3>1. \A n \in 0..0 : LevelFrom(n, volume, 0) = LevelFrom(f, volume, n)
      BY <1>1
    <3> QED
      BY <3>1
  <2> QED
    BY <2>1
<1>4. ASSUME NEW k \in Nat, P(k)
      PROVE  P(k + 1)
  <2>1. PICK f : f = [n \in 0..k |-> LevelFrom(f, volume, n)]
    BY <1>4
  <2> DEFINE g == [n \in 0..(k + 1) |-> IF n = k + 1 THEN LevelFrom(f, volume, k + 1) ELSE f[n]]
  <2>2. \A n \in 0..k : g[n] = f[n]
    OBVIOUS
  <2>3. \A n \in 0..(k + 1) : g[n] = LevelFrom(g, volume, n)
    <3> SUFFICES ASSUME NEW n \in 0..(k + 1)
                 PROVE  g[n] = LevelFrom(g, volume, n)
      OBVIOUS
    <3> HIDE DEF g
    <3>1. n # 0 => f[n - 1] = g[n - 1]
      BY <2>2
    <3>2. LevelFrom(f, volume, n) = LevelFrom(g, volume, n)
      BY <3>1, <1>1, <1>2
    <3>3. g[n] = LevelFrom(f, volume, n)
      BY <2>1 DEF g
    <3> QED
      BY <3>2, <3>3
  <2>4. g = [n \in 0..(k + 1) |-> LevelFrom(g, volume, n)]
    BY <2>3
  <2> HIDE DEF g
  <2> QED
    BY <2>4
<1>5. Nat \subseteq S
  <2>1. 0 \in S
    BY <1>3
  <2>2. \A k \in Nat : k \in S => k + 1 \in S
    BY <1>4
  <2> HIDE DEF S, P
  <2> QED
    BY <2>1, <2>2, Counting
<1>6. P(MaxDepth + 1)
  <2>1. MaxDepth + 1 \in S
    BY <1>5, TripAssumption DEF Walk!TreeWalkAssumption
  <2> HIDE DEF P
  <2> QED
    BY <2>1 DEF S
<1> DEFINE L == CHOOSE f : f = [n \in 0..(MaxDepth + 1) |-> LevelFrom(f, volume, n)]
<1>7. L = [n \in 0..(MaxDepth + 1) |-> LevelFrom(L, volume, n)]
  BY <1>6
<1>8. Walk!Levels(volume) = L
  BY DEF Walk!Levels, LevelFrom, RootPlace
<1> HIDE DEF L
<1> QED
  BY <1>7, <1>8

LEMMA LevelsAre ==
    ASSUME NEW volume
    PROVE  /\ DOMAIN Walk!Levels(volume) = 0..(MaxDepth + 1)
           /\ Walk!Levels(volume)[0] = {RootPlace(volume)}
           /\ \A n \in 0..MaxDepth :
                 Walk!Levels(volume)[n + 1] =
                     UNION {Walk!Below(volume, place) : place \in Walk!Levels(volume)[n]}
<1>1. Walk!Levels(volume) = [n \in 0..(MaxDepth + 1) |-> LevelFrom(Walk!Levels(volume), volume, n)]
  BY LevelsExist
<1>2. MaxDepth \in Nat
  BY TripAssumption DEF Walk!TreeWalkAssumption
<1> DEFINE L == Walk!Levels(volume)
<1> HIDE DEF L
<1>3. DOMAIN L = 0..(MaxDepth + 1) /\ \A n \in 0..(MaxDepth + 1) : L[n] = LevelFrom(L, volume, n)
  BY <1>1 DEF L
<1>4. L[0] = {RootPlace(volume)}
  BY <1>2, <1>3 DEF LevelFrom
<1>5. ASSUME NEW n \in 0..MaxDepth
      PROVE  L[n + 1] = UNION {Walk!Below(volume, place) : place \in L[n]}
  <2>1. n + 1 \in 0..(MaxDepth + 1) /\ n + 1 # 0 /\ (n + 1) - 1 = n
    BY <1>2
  <2>2. L[n + 1] = LevelFrom(L, volume, n + 1)
    BY <1>3, <2>1
  <2> QED
    BY <2>1, <2>2 DEF LevelFrom
<1> QED
  BY <1>3, <1>4, <1>5 DEF L

PlaceBelow(e) == [path |-> e.path, sector |-> e.record.start]

LEMMA LevelBelow ==
    ASSUME NEW volume, NEW n \in 0..MaxDepth, NEW place
    PROVE  place \in Walk!Levels(volume)[n + 1] <=>
              \E above \in Walk!Levels(volume)[n] : \E e \in Walk!EntriesAt(volume, above) :
                 e.record.is_directory /\ e.record.size > 0 /\ place = PlaceBelow(e)
<1>1. Walk!Levels(volume)[n + 1] = UNION {Walk!Below(volume, above) : above \in Walk!Levels(volume)[n]}
  BY LevelsAre
<1>2. \A above : place \in Walk!Below(volume, above) <=>
          \E e \in Walk!EntriesAt(volume, above) :
                 e.record.is_directory /\ e.record.size > 0 /\ place = PlaceBelow(e)
  BY DEF Walk!Below, PlaceBelow
<1> QED
  BY <1>1, <1>2

LEMMA EntryAt ==
    ASSUME NEW volume, NEW place, NEW e
    PROVE  e \in Walk!EntriesAt(volume, place) <=>
              \E r \in Walk!Range(Walk!TableOf(volume, place.sector).records) :
                 ~Walk!Skipped(r) /\ e = [path |-> Append(place.path, r.name), record |-> r]
BY DEF Walk!EntriesAt

LEMMA LevelPaths ==
    ASSUME NEW volume, Walk!IsVolume(volume)
    PROVE  \A n \in 0..(MaxDepth + 1) : \A place \in Walk!Levels(volume)[n] :
              place.path \in Seq(DOMAIN Key) /\ Len(place.path) = n
<1> DEFINE L == Walk!Levels(volume)
           S == {n \in Nat : n <= MaxDepth + 1 =>
                    \A place \in L[n] : place.path \in Seq(DOMAIN Key) /\ Len(place.path) = n}
<1>0. MaxDepth \in Nat
  BY TripAssumption DEF Walk!TreeWalkAssumption
<1>1. 0 \in S
  <2>1. L[0] = {RootPlace(volume)}
    BY LevelsAre
  <2>2. RootPlace(volume).path \in Seq(DOMAIN Key) /\ Len(RootPlace(volume).path) = 0
    BY DEF RootPlace
  <2> HIDE DEF L
  <2> QED
    BY <2>1, <2>2
<1>2. ASSUME NEW n \in Nat, n \in S
      PROVE  n + 1 \in S
  <2> SUFFICES ASSUME n + 1 <= MaxDepth + 1, NEW place \in L[n + 1]
               PROVE  place.path \in Seq(DOMAIN Key) /\ Len(place.path) = n + 1
    OBVIOUS
  <2>1. n \in 0..MaxDepth /\ \A above \in L[n] : above.path \in Seq(DOMAIN Key) /\ Len(above.path) = n
    BY <1>0, <1>2
  <2>2. PICK above \in L[n] : \E e \in Walk!EntriesAt(volume, above) : place = PlaceBelow(e)
    BY <2>1, LevelBelow
  <2>3. PICK e \in Walk!EntriesAt(volume, above) : place = PlaceBelow(e)
    BY <2>2
  <2>4. PICK r \in Walk!Range(Walk!TableOf(volume, above.sector).records) :
            e = [path |-> Append(above.path, r.name), record |-> r]
    BY EntryAt
  <2>5. r.name \in DOMAIN Key
    BY SomeTable
  <2>6. place.path = Append(above.path, r.name)
    BY <2>3, <2>4 DEF PlaceBelow
  <2>7. above.path \in Seq(DOMAIN Key) /\ Len(above.path) = n
    BY <2>1
  <2> QED
    BY <2>5, <2>6, <2>7
<1>3. Nat \subseteq S
  <2> HIDE DEF S
  <2> QED
    BY <1>1, <1>2, Counting
<1> QED
  BY <1>0, <1>3

-------------------------------------------------------------------------------
(* What a walk has seen. *)

Seen == Walk!Range(seen)

PlaceOf(frame) == [path |-> frame.path, sector |-> frame.sector]
EntryOf(path, r) == [path |-> Append(path, r.name), record |-> r]
RecordsAt(k) == Walk!TableOf(Found, frames[k].sector).records

\* A directory whose table was read to its end, and everything in it seen.
Complete(place) ==
    LET table == Walk!TableOf(Found, place.sector)
    IN  /\ table.sound
        /\ mode = "read" => ~Walk!HasDuplicates(table)
        /\ Walk!EntriesAt(Found, place) \subseteq Seen

FramesArePlaces ==
    \A k \in 1..Len(frames) : PlaceOf(frames[k]) \in Walk!Levels(Found)[k - 1]

SeenAreEntries ==
    \A e \in Seen : \E n \in 0..MaxDepth : \E place \in Walk!Levels(Found)[n] :
        e \in Walk!EntriesAt(Found, place)

PassedAreSeen ==
    \A k \in 1..Len(frames) : \A j \in 1..(frames[k].next - 1) :
        Walk!Skipped(RecordsAt(k)[j]) \/ EntryOf(frames[k].path, RecordsAt(k)[j]) \in Seen

PassedDiffer ==
    mode = "read" =>
        \A k \in 1..Len(frames) : \A i, j \in 1..(frames[k].next - 1) :
            Key[RecordsAt(k)[i].name] = Key[RecordsAt(k)[j].name] => i = j

DirectoriesAreWalked ==
    \A e \in Seen :
        e.record.is_directory /\ e.record.size > 0 =>
            /\ Len(e.path) <= MaxDepth
            /\ \/ Complete(PlaceBelow(e))
               \/ \E k \in 1..Len(frames) : PlaceOf(frames[k]) = PlaceBelow(e)

RootIsWalked == Complete(RootPlace(Found)) \/ frames # << >>

\* Of a directory that is being read only what was passed has been seen.
SeenWerePassed ==
    mode = "read" =>
        \A k \in 1..Len(frames) : \A e \in Seen : \A name \in DOMAIN Key :
            e.path = Append(frames[k].path, name) =>
                \E j \in 1..(frames[k].next - 1) : e = EntryOf(frames[k].path, RecordsAt(k)[j])

ParentsAreSeen ==
    \A e \in Seen : \E path \in {<< >>} \cup {above.path : above \in Seen} :
        \E name \in DOMAIN Key : e.path = Append(path, name)

FramesAreSeen ==
    \A k \in 1..Len(frames) : frames[k].path = << >> \/ \E e \in Seen : e.path = frames[k].path

WalkProgress ==
    /\ FramesArePlaces /\ SeenAreEntries /\ PassedAreSeen /\ PassedDiffer
    /\ DirectoriesAreWalked /\ RootIsWalked
    /\ SeenWerePassed /\ ParentsAreSeen /\ FramesAreSeen

LEMMA SameTree ==
    ASSUME UNCHANGED <<image, mode, skip_system_update, partition>>
    PROVE  /\ Found' = Found /\ Walk!Levels(Found)' = Walk!Levels(Found)
           /\ \A place : Walk!EntriesAt(Found, place)' = Walk!EntriesAt(Found, place)
           /\ \A r : Walk!Skipped(r)' = Walk!Skipped(r)
           /\ RootPlace(Found)' = RootPlace(Found)
<1>1. Found' = Found
  BY DEF Found
<1>2. \A r : Walk!Skipped(r)' = Walk!Skipped(r)
  BY DEF Walk!Skipped
<1>3. \A place : Walk!EntriesAt(Found, place)' = Walk!EntriesAt(Found, place)
  BY <1>1, <1>2 DEF Walk!EntriesAt
<1>4. Walk!Levels(Found)' = Walk!Levels(Found)
  BY DEF Walk!Levels, Walk!Below, Walk!EntriesAt, Walk!Skipped, Found
<1> QED
  BY <1>1, <1>2, <1>3, <1>4 DEF RootPlace

LEMMA SameReadable ==
    ASSUME UNCHANGED <<image, mode, skip_system_update, partition>>
    PROVE  /\ Walk!IsReadable(Found)' = Walk!IsReadable(Found)
           /\ (Walk!WithMagic)' = Walk!WithMagic /\ Found' = Found
<1>1. Found' = Found /\ Walk!Levels(Found)' = Walk!Levels(Found) /\ mode' = mode
  BY SameTree
<1>2. Walk!Places(Found)' = Walk!Places(Found)
  BY <1>1 DEF Walk!Places
<1>3. (Walk!WithMagic)' = Walk!WithMagic
  <2>1. image' = image
    OBVIOUS
  <2> QED
    BY <2>1, Zenon DEF Walk!WithMagic
<1> QED
  BY <1>1, <1>2, <1>3 DEF Walk!IsReadable

LEMMA StaysComplete ==
    ASSUME UNCHANGED <<image, mode, skip_system_update, partition>>, Seen \subseteq Seen',
           NEW place, Complete(place)
    PROVE  Complete(place)'
<1>1. Found' = Found /\ Walk!EntriesAt(Found, place)' = Walk!EntriesAt(Found, place)
  BY SameTree
<1> QED
  BY <1>1 DEF Complete

LEMMA AppendIs ==
    ASSUME NEW S, NEW s \in Seq(S), NEW x \in S
    PROVE  /\ Append(s, x) \in Seq(S) /\ Append(s, x) # << >> /\ Len(s) \in Nat
           /\ Len(Append(s, x)) = Len(s) + 1 /\ Append(s, x)[Len(s) + 1] = x
           /\ \A i \in 1..Len(s) : Append(s, x)[i] = s[i]
OBVIOUS

LEMMA AppendDiffers ==
    ASSUME NEW S, NEW s \in Seq(S), NEW t \in Seq(S), NEW x \in S, NEW y \in S,
           Append(s, x) = Append(t, y)
    PROVE  s = t /\ x = y
<1>1. Len(s) = Len(t) /\ x = y /\ \A i \in 1..Len(s) : s[i] = t[i]
  <2>1. /\ Len(s) \in Nat /\ Len(t) \in Nat
        /\ Len(Append(s, x)) = Len(s) + 1 /\ Len(Append(t, y)) = Len(t) + 1
    BY AppendIs
  <2>2. Len(s) = Len(t)
    BY <2>1
  <2> QED
    BY <2>2, AppendIs
<1>2. s = t
  BY <1>1, SeqEqual
<1> QED
  BY <1>1, <1>2

LEMMA SeqSplit ==
    ASSUME NEW S, NEW s \in Seq(S), NEW t \in Seq(S), Len(s) = Len(t) + 1, SubSeq(s, 1, Len(t)) = t
    PROVE  s[Len(s)] \in S /\ s = Append(t, s[Len(s)])
<1>1. Len(t) \in Nat /\ Len(s) \in Nat \ {0} /\ s # << >>
  <2>1. Len(t) \in Nat
    OBVIOUS
  <2>2. Len(s) \in Nat \ {0}
    BY <2>1
  <2> QED
    BY <2>1, <2>2
<1>2. Len(t) = Len(s) - 1
  BY <1>1
<1>3. s[Len(s)] \in S
  BY <1>1, ElementOfSeq
<1>4. \A i \in 1..Len(t) : t[i] = s[i]
  BY <1>1, <1>2, AllButLast
<1> DEFINE x == s[Len(s)]  u == Append(t, x)
<1>5. /\ u \in Seq(S) /\ Len(u) = Len(t) + 1 /\ u[Len(t) + 1] = x
      /\ \A i \in 1..Len(t) : u[i] = t[i]
  BY <1>3, AppendIs
<1> HIDE DEF u
<1>6. \A i \in 1..Len(s) : s[i] = u[i]
  BY <1>1, <1>2, <1>4, <1>5
<1>7. s = u
  BY <1>5, <1>6, SeqEqual
<1> QED
  BY <1>3, <1>7 DEF u

LEMMA SubSeqOfAppend ==
    ASSUME NEW S, NEW t \in Seq(S), NEW x \in S
    PROVE  SubSeq(Append(t, x), 1, Len(t)) = t
<1> DEFINE u == Append(t, x)
<1>1. /\ u \in Seq(S) /\ u # << >> /\ Len(t) \in Nat /\ Len(u) = Len(t) + 1
      /\ \A i \in 1..Len(t) : u[i] = t[i]
  BY AppendIs
<1> HIDE DEF u
<1>2. Len(u) - 1 = Len(t)
  BY <1>1
<1>3. /\ SubSeq(u, 1, Len(t)) \in Seq(S) /\ Len(SubSeq(u, 1, Len(t))) = Len(t)
      /\ \A i \in 1..Len(t) : SubSeq(u, 1, Len(t))[i] = u[i]
  BY <1>1, <1>2, AllButLast
<1>4. SubSeq(u, 1, Len(t)) = t
  BY <1>1, <1>3, SeqEqual
<1> QED
  BY <1>4 DEF u

\* When read_tree has read a name before.
LEMMA DuplicateIs ==
    ASSUME WalkTyped, frames # << >>, Walk!Top.next <= Len(Walk!Records), mode = "read"
    PROVE  Walk!IsDuplicate <=>
              \E e \in Seen : \E name \in DOMAIN Key :
                 e.path = Append(Walk!Top.path, name) /\ Key[name] = Key[Walk!Record.name]
<1> DEFINE top == Walk!Top.path
<1>1. top \in Seq(DOMAIN Key) /\ Walk!Record.name \in DOMAIN Key
  BY TopFrame, ThisRecord DEF FrameSet
<1>2. Len(Walk!Path) = Len(top) + 1 /\ Len(top) \in Nat
  <2>1. Walk!Path = Append(top, Walk!Record.name)
    BY DEF Walk!Path
  <2> HIDE DEF top
  <2> QED
    BY <1>1, <2>1, AppendIs
<1> HIDE DEF top
<1>3. seen \in Seq(SeenSet) /\ DOMAIN seen = 1..Len(seen)
  BY DEF WalkTyped
<1>4. \A i \in DOMAIN seen : seen[i].path \in Seq(DOMAIN Key)
  <2>1. \A i \in DOMAIN seen : seen[i] \in SeenSet
    BY <1>3, ElementOfSeq
  <2> QED
    BY <2>1 DEF SeenSet
<1>5. ASSUME NEW i \in DOMAIN seen
      PROVE  (/\ Len(seen[i].path) = Len(Walk!Path)
              /\ SubSeq(seen[i].path, 1, Len(top)) = top
              /\ Key[seen[i].path[Len(Walk!Path)]] = Key[Walk!Record.name])
             <=> \E name \in DOMAIN Key : seen[i].path = Append(top, name) /\ Key[name] = Key[Walk!Record.name]
  <2> DEFINE s == seen[i].path
  <2>1. s \in Seq(DOMAIN Key)
    BY <1>4
  <2> HIDE DEF s
  <2>2. ASSUME Len(s) = Len(Walk!Path), SubSeq(s, 1, Len(top)) = top,
               Key[s[Len(Walk!Path)]] = Key[Walk!Record.name]
        PROVE  \E name \in DOMAIN Key : s = Append(top, name) /\ Key[name] = Key[Walk!Record.name]
    <3>1. s[Len(s)] \in DOMAIN Key /\ s = Append(top, s[Len(s)])
      BY <1>1, <1>2, <2>1, <2>2, SeqSplit
    <3> QED
      BY <2>2, <3>1
  <2>3. ASSUME NEW name \in DOMAIN Key, s = Append(top, name), Key[name] = Key[Walk!Record.name]
        PROVE  /\ Len(s) = Len(Walk!Path) /\ SubSeq(s, 1, Len(top)) = top
               /\ Key[s[Len(Walk!Path)]] = Key[Walk!Record.name]
    <3>1. Len(s) = Len(top) + 1 /\ s[Len(top) + 1] = name
      BY <1>1, <2>3, AppendIs
    <3>2. SubSeq(s, 1, Len(top)) = top
      BY <1>1, <2>3, SubSeqOfAppend
    <3> QED
      BY <1>2, <2>3, <3>1, <3>2
  <2> QED
    BY <2>2, <2>3 DEF s
<1>6. Walk!IsDuplicate <=>
          \E i \in DOMAIN seen :
             /\ Len(seen[i].path) = Len(Walk!Path)
             /\ SubSeq(seen[i].path, 1, Len(top)) = top
             /\ Key[seen[i].path[Len(Walk!Path)]] = Key[Walk!Record.name]
  BY DEF Walk!IsDuplicate, top
<1>7. \A e : e \in Seen <=> \E i \in DOMAIN seen : e = seen[i]
  BY DEF Seen, Walk!Range
<1> QED
  BY <1>5, <1>6, <1>7 DEF top

LEMMA NewSeen ==
    ASSUME WalkTyped, frames # << >>, Walk!Top.next <= Len(Walk!Records), Walk!See
    PROVE  Seen' = Seen \cup {EntryOf(Walk!Top.path, Walk!Record)}
<1> DEFINE new == [path |-> Walk!Path, record |-> Walk!Record]
<1>1. new \in SeenSet /\ seen \in Seq(SeenSet) /\ seen' = Append(seen, new)
  BY ThisRecord DEF WalkTyped, Walk!See
<1>2. new = EntryOf(Walk!Top.path, Walk!Record)
  BY DEF EntryOf, Walk!Path
<1> HIDE DEF new
<1>3. /\ Len(seen) \in Nat /\ DOMAIN seen = 1..Len(seen) /\ DOMAIN seen' = 1..(Len(seen) + 1)
      /\ \A i \in 1..Len(seen) : seen'[i] = seen[i]
      /\ seen'[Len(seen) + 1] = new
  BY <1>1
<1>4. 1..(Len(seen) + 1) = 1..Len(seen) \cup {Len(seen) + 1}
  BY <1>3
<1>5. Seen' = Seen \cup {new}
  <2>1. \A e : e \in Seen <=> \E i \in 1..Len(seen) : e = seen[i]
    BY <1>3 DEF Seen, Walk!Range
  <2>2. \A e : e \in Seen' <=> \E i \in 1..(Len(seen) + 1) : e = seen'[i]
    BY <1>3 DEF Seen, Walk!Range
  <2> QED
    BY <1>3, <1>4, <2>1, <2>2
<1> QED
  BY <1>2, <1>5

\* The innermost directory of a walk.
LEMMA TopPlace ==
    ASSUME WalkTyped, WalkProgress, frames # << >>
    PROVE  /\ PlaceOf(Walk!Top) \in Walk!Levels(Found)[Len(frames) - 1]
           /\ Len(frames) - 1 \in 0..MaxDepth
           /\ Walk!Top.path \in Seq(DOMAIN Key)
           /\ \A k \in 1..Len(frames) : frames[k].path \in Seq(DOMAIN Key) /\ Len(frames[k].path) = k - 1
<1>1. /\ Len(frames) \in Nat \ {0} /\ Len(frames) <= MaxDepth + 1 /\ MaxDepth \in Nat
      /\ partition # 0 /\ Walk!Top \in FrameSet
  BY TopFrame, TripAssumption DEF WalkTyped, Walk!TreeWalkAssumption
<1>2. PlaceOf(Walk!Top) \in Walk!Levels(Found)[Len(frames) - 1]
  BY <1>1 DEF WalkProgress, FramesArePlaces, Walk!Top
<1>3. Walk!IsVolume(Found)
  BY <1>1, FoundIsVolume
<1>4. ASSUME NEW k \in 1..Len(frames)
      PROVE  frames[k].path \in Seq(DOMAIN Key) /\ Len(frames[k].path) = k - 1
  <2>1. PlaceOf(frames[k]) \in Walk!Levels(Found)[k - 1] /\ k - 1 \in 0..(MaxDepth + 1)
    BY <1>1 DEF WalkProgress, FramesArePlaces
  <2>2. PlaceOf(frames[k]).path \in Seq(DOMAIN Key) /\ Len(PlaceOf(frames[k]).path) = k - 1
    BY <1>3, <2>1, LevelPaths
  <2> QED
    BY <2>2 DEF PlaceOf
<1>5. Len(frames) - 1 \in 0..MaxDepth
  BY <1>1
<1> QED
  BY <1>1, <1>2, <1>4, <1>5 DEF FrameSet

\* A record is dealt with that is not left out: it is seen, and maybe descended into.
LEMMA SeeingMore ==
    ASSUME WalkTyped, WalkProgress, frames # << >>, Walk!Top.next <= Len(Walk!Records),
           UNCHANGED <<image, mode, skip_system_update, partition>>,
           ~Walk!Skipped(Walk!Record), mode = "read" => ~Walk!IsDuplicate, Walk!See,
           \/ /\ ~(Walk!Record.is_directory /\ Walk!Record.size > 0)
              /\ frames' = Walk!Passed
           \/ /\ Walk!Record.is_directory /\ Walk!Record.size > 0
              /\ Len(frames) <= MaxDepth
              /\ frames' = Append(Walk!Passed, Walk!Frame(Walk!Record.start, Walk!Path))
    PROVE  WalkProgress'
<1> DEFINE n == Len(frames)
           new == EntryOf(Walk!Top.path, Walk!Record)
           below == Walk!Frame(Walk!Record.start, Walk!Path)
           Enters == Walk!Record.is_directory /\ Walk!Record.size > 0
<1>1. /\ n \in Nat \ {0} /\ n - 1 \in 0..MaxDepth /\ MaxDepth \in Nat /\ Len(frames) \in Nat
      /\ PlaceOf(Walk!Top) \in Walk!Levels(Found)[n - 1]
      /\ Walk!Top.path \in Seq(DOMAIN Key) /\ Walk!Top = frames[n]
      /\ \A k \in 1..n : frames[k].path \in Seq(DOMAIN Key) /\ Len(frames[k].path) = k - 1
  BY TopFrame, TopPlace, TripAssumption DEF Walk!TreeWalkAssumption, Walk!Top
<1>2. /\ Found' = Found /\ Walk!Levels(Found)' = Walk!Levels(Found)
      /\ \A place : Walk!EntriesAt(Found, place)' = Walk!EntriesAt(Found, place)
      /\ \A r : Walk!Skipped(r)' = Walk!Skipped(r)
  BY SameTree
<1>3. /\ Walk!Record \in Walk!Range(Walk!Records) /\ Walk!Record.name \in DOMAIN Key
      /\ Walk!Top.next \in 1..Len(Walk!Records) /\ Walk!Record = Walk!Records[Walk!Top.next]
      /\ Walk!Path \in Seq(DOMAIN Key) \ {<< >>}
  BY ThisRecord DEF Walk!Record
<1>4. /\ Walk!Passed \in Seq(FrameSet) /\ Len(Walk!Passed) = n
      /\ \A k \in 1..n : k # n => Walk!Passed[k] = frames[k]
      /\ \A k \in 1..n : Walk!Passed[k].sector = frames[k].sector /\ Walk!Passed[k].path = frames[k].path
      /\ Walk!Passed[n].next = Walk!Top.next + 1
  BY PassedFrames
<1>5. below \in FrameSet /\ below.path = Walk!Path /\ below.sector = Walk!Record.start /\ below.next = 1
  BY ThisRecord DEF Walk!Frame
<1>6. Seen' = Seen \cup {new}
  BY NewSeen
<1>7. new.path = Walk!Path /\ new.record = Walk!Record /\ Walk!Path = Append(Walk!Top.path, Walk!Record.name)
  BY DEF EntryOf, Walk!Path
<1>8. Walk!Records = RecordsAt(n)
  BY <1>1 DEF Walk!Records, RecordsAt, Walk!TableAt, Found
<1>9. new \in Walk!EntriesAt(Found, PlaceOf(Walk!Top))
  <2>1. PlaceOf(Walk!Top).sector = frames[n].sector /\ PlaceOf(Walk!Top).path = Walk!Top.path
    BY <1>1 DEF PlaceOf
  <2>2. Walk!Record \in Walk!Range(Walk!TableOf(Found, PlaceOf(Walk!Top).sector).records)
    BY <1>3, <1>8, <2>1 DEF RecordsAt
  <2> QED
    BY <1>7, <2>1, <2>2, EntryAt DEF EntryOf
<1>10. Len(Walk!Path) = n
  <2>1. Len(Walk!Path) = Len(Walk!Top.path) + 1
    BY <1>1, <1>3, <1>7, AppendIs
  <2>2. n \in 1..n /\ Len(Walk!Top.path) = n - 1 /\ n \in Int
    BY <1>1
  <2> HIDE DEF n
  <2>3. (n - 1) + 1 = n
    BY <2>2
  <2>4. Len(Walk!Path) = (n - 1) + 1
    BY <2>1, <2>2, Zenon
  <2> QED
    BY <2>3, <2>4, Zenon
<1> HIDE DEF below
<1>11. \/ ~Enters /\ frames' = Walk!Passed /\ Len(frames') = n
       \/ /\ Enters /\ n <= MaxDepth /\ Len(frames') = n + 1 /\ frames'[n + 1] = below
          /\ \A k \in 1..n : frames'[k] = Walk!Passed[k]
  <2>1. CASE frames' = Walk!Passed /\ ~Enters
    BY <2>1, <1>4
  <2>2. CASE frames' = Append(Walk!Passed, below) /\ Enters /\ n <= MaxDepth
    BY <2>2, <1>4, <1>5, AppendIs
  <2> QED
    BY <2>1, <2>2 DEF below
<1>11a. new.record.is_directory /\ new.record.size > 0 <=> Enters
  BY <1>7
<1> HIDE DEF Enters
<1>12. /\ \A k \in 1..n : frames'[k].path = frames[k].path /\ frames'[k].sector = frames[k].sector
       /\ \A k \in 1..n : k # n => frames'[k].next = frames[k].next
       /\ frames'[n].next = Walk!Top.next + 1
       /\ Len(frames') = n \/ (Len(frames') = n + 1 /\ Enters /\ frames'[n + 1] = below)
  <2>1. \A k \in 1..n : frames'[k] = Walk!Passed[k]
    BY <1>11
  <2>2. n \in 1..n
    BY <1>1
  <2> HIDE DEF n
  <2> QED
    BY <1>4, <1>11, <2>1, <2>2
<1>13. \A k \in 1..Len(frames') : k \in 1..n \/ (k = n + 1 /\ Len(frames') = n + 1)
  BY <1>1, <1>12
<1>13a. ASSUME NEW k, k = n + 1, Len(frames') = n + 1
        PROVE  frames'[k] = below /\ frames'[k].next = 1 /\ frames'[k].path = Walk!Path
  <2>1. frames'[n + 1] = below
    BY <1>13a, <1>1, <1>12
  <2> QED
    BY <1>13a, <2>1, <1>5
<1>14. \A k \in 1..n : RecordsAt(k)' = RecordsAt(k) /\ PlaceOf(frames'[k]) = PlaceOf(frames[k])
  BY <1>2, <1>12 DEF RecordsAt, PlaceOf
<1>15. Walk!Top.next \in Nat \ {0} /\ \A k \in 1..n : frames[k].next \in Nat
  <2>1. \A k \in 1..n : frames[k] \in FrameSet
    BY ElementOfSeq DEF WalkTyped
  <2> QED
    BY <1>3, <2>1 DEF FrameSet
<1> HIDE DEF new, n
<1>16. ASSUME NEW k \in 1..n
       PROVE  /\ \A j \in 1..(frames'[k].next - 1) :
                    j \in 1..(frames[k].next - 1) \/ (k = n /\ j = Walk!Top.next)
              /\ \A j \in 1..(frames[k].next - 1) : j \in 1..(frames'[k].next - 1)
  <2>1. CASE k # n
    BY <2>1, <1>12
  <2>2. CASE k = n
    <3>1. frames'[k].next = Walk!Top.next + 1 /\ frames[k].next = Walk!Top.next
      BY <2>2, <1>1, <1>12
    <3> QED
      BY <2>2, <3>1, <1>15
  <2> QED
    BY <2>1, <2>2
<1>18. n = Len(frames)
  BY DEF n
<1> USE DEF WalkProgress
<1>20. FramesArePlaces'
  <2> SUFFICES ASSUME NEW k \in 1..Len(frames')
               PROVE  PlaceOf(frames'[k]) \in Walk!Levels(Found)[k - 1]
    BY <1>2 DEF FramesArePlaces
  <2>1. CASE k \in 1..n
    BY <2>1, <1>14, <1>18 DEF FramesArePlaces
  <2>2. CASE k = n + 1 /\ Len(frames') = n + 1
    <3>1. Enters /\ frames'[k] = below
      BY <2>2, <1>1, <1>12
    <3>2. PlaceOf(frames'[k]) = PlaceBelow(new)
      BY <3>1, <1>5, <1>7 DEF PlaceOf, PlaceBelow
    <3>3. PlaceBelow(new) \in Walk!Levels(Found)[(n - 1) + 1]
      BY <3>1, <1>1, <1>9, <1>11a, LevelBelow
    <3> QED
      BY <3>2, <3>3, <2>2, <1>1
  <2> QED
    BY <1>13, <2>1, <2>2
<1>21. SeenAreEntries'
  <2> SUFFICES ASSUME NEW e \in Seen'
               PROVE  \E m \in 0..MaxDepth : \E place \in Walk!Levels(Found)[m] :
                         e \in Walk!EntriesAt(Found, place)
    BY <1>2 DEF SeenAreEntries
  <2>1. CASE e \in Seen
    BY <2>1 DEF SeenAreEntries
  <2>2. CASE e = new
    BY <2>2, <1>1, <1>9
  <2> QED
    BY <2>1, <2>2, <1>6
<1>22. PassedAreSeen'
  <2> SUFFICES ASSUME NEW k \in 1..Len(frames'), NEW j \in 1..(frames'[k].next - 1)
               PROVE  \/ Walk!Skipped(RecordsAt(k)'[j])
                      \/ EntryOf(frames'[k].path, RecordsAt(k)'[j]) \in Seen'
    BY <1>2, Zenon DEF PassedAreSeen, EntryOf
  <2>1. CASE k \in 1..n /\ j \in 1..(frames[k].next - 1)
    BY <2>1, <1>6, <1>12, <1>14, <1>18 DEF PassedAreSeen
  <2>2. CASE k = n /\ j = Walk!Top.next
    <3>1. RecordsAt(k)' = RecordsAt(n) /\ frames'[k].path = Walk!Top.path
      BY <2>2, <1>1, <1>12, <1>14
    <3>2. RecordsAt(k)'[j] = Walk!Record
      BY <2>2, <3>1, <1>3, <1>8
    <3> QED
      BY <3>1, <3>2, <1>6 DEF new
  <2>3. CASE k = n + 1 /\ Len(frames') = n + 1
    <3>1. frames'[k].next = 1
      BY <2>3, <1>13a
    <3> QED
      BY <3>1
  <2> QED
    BY <1>13, <1>16, <2>1, <2>2, <2>3
<1>23. PassedDiffer'
  <2> SUFFICES ASSUME mode = "read", NEW k \in 1..Len(frames'),
                      NEW i \in 1..(frames'[k].next - 1), NEW j \in 1..(frames'[k].next - 1),
                      Key[RecordsAt(k)'[i].name] = Key[RecordsAt(k)'[j].name]
               PROVE  i = j
    BY DEF PassedDiffer
  <2>1. CASE k = n + 1 /\ Len(frames') = n + 1
    <3>1. frames'[k].next = 1
      BY <2>1, <1>13a
    <3> QED
      BY <3>1
  <2>2. CASE k \in 1..n
    <3>1. RecordsAt(k)' = RecordsAt(k)
      BY <2>2, <1>14
    <3>2. CASE i \in 1..(frames[k].next - 1) /\ j \in 1..(frames[k].next - 1)
      BY <2>2, <3>1, <3>2, <1>18 DEF PassedDiffer
    <3>3. ASSUME NEW m \in 1..(frames[n].next - 1), k = n,
                 Key[RecordsAt(n)[m].name] = Key[Walk!Record.name]
          PROVE  FALSE
      <4>1. n \in 1..n
        BY <1>1
      <4>2. ~Walk!Skipped(RecordsAt(n)[m])
        BY DEF Walk!Skipped
      <4>3. EntryOf(frames[n].path, RecordsAt(n)[m]) \in Seen
        BY <4>1, <4>2, <1>18 DEF PassedAreSeen
      <4>4. RecordsAt(n)[m].name \in DOMAIN Key
        <5>1. Walk!Records \in Seq(RecordsOf(Found)) /\ m \in 1..Len(Walk!Records)
          <6>1. Walk!Records \in Seq(RecordsOf(Found)) /\ Walk!Top.next <= Len(Walk!Records) + 1
            BY TopFrame
          <6>2. Len(Walk!Records) \in Nat
            BY <6>1
          <6>3. m \in 1..(Walk!Top.next - 1)
            BY <1>1
          <6> QED
            BY <6>1, <6>2, <6>3, <1>15
        <5>2. Walk!Records[m] \in RecordsOf(Found)
          BY <5>1, ElementOfSeq
        <5>3. partition # 0
          BY TopFrame
        <5>4. Walk!IsVolume(Found)
          BY <5>3, FoundIsVolume
        <5> QED
          BY <5>2, <5>4, <1>8, RecordsAreTyped
      <4>5. \E e \in Seen : \E name \in DOMAIN Key :
                e.path = Append(Walk!Top.path, name) /\ Key[name] = Key[Walk!Record.name]
        BY <3>3, <4>3, <4>4, <1>1 DEF EntryOf
      <4>6. Walk!IsDuplicate
        BY <4>5, DuplicateIs
      <4> QED
        BY <4>6
    <3>4. CASE k = n /\ i = Walk!Top.next /\ j \in 1..(frames[k].next - 1)
      BY <3>1, <3>3, <3>4, <1>3, <1>8
    <3>5. CASE k = n /\ j = Walk!Top.next /\ i \in 1..(frames[k].next - 1)
      BY <3>1, <3>3, <3>5, <1>3, <1>8
    <3> QED
      BY <2>2, <3>2, <3>4, <3>5, <1>16
  <2> QED
    BY <1>13, <2>1, <2>2
<1>24. DirectoriesAreWalked'
  <2> SUFFICES ASSUME NEW e \in Seen', e.record.is_directory, e.record.size > 0
               PROVE  /\ Len(e.path) <= MaxDepth
                      /\ \/ Complete(PlaceBelow(e))'
                         \/ \E k \in 1..Len(frames') : PlaceOf(frames'[k]) = PlaceBelow(e)
    BY DEF DirectoriesAreWalked, PlaceBelow
  <2>1. CASE e \in Seen
    <3>1. Len(e.path) <= MaxDepth
      BY <2>1 DEF DirectoriesAreWalked
    <3>2. CASE Complete(PlaceBelow(e))
      <4> DEFINE place == PlaceBelow(e)
      <4>1. Complete(place)
        BY <3>2
      <4> HIDE DEF place
      <4>2. Complete(place)'
        BY <4>1, <1>6, StaysComplete
      <4> QED
        BY <3>1, <4>2 DEF place, PlaceBelow
    <3>3. CASE \E k \in 1..n : PlaceOf(frames[k]) = PlaceBelow(e)
      <4>1. PICK k \in 1..n : PlaceOf(frames[k]) = PlaceBelow(e)
        BY <3>3
      <4>2. k \in 1..Len(frames') /\ PlaceOf(frames'[k]) = PlaceBelow(e)
        BY <4>1, <1>1, <1>12, <1>14
      <4> QED
        BY <3>1, <4>2
    <3> QED
      BY <2>1, <3>2, <3>3, <1>18 DEF DirectoriesAreWalked
  <2>2. CASE e = new
    <3>1. Enters
      BY <2>2, <1>11a
    <3>2. n <= MaxDepth /\ Len(frames') = n + 1 /\ frames'[n + 1] = below
      BY <3>1, <1>11
    <3>3. PlaceOf(frames'[n + 1]) = PlaceBelow(e)
      BY <2>2, <3>2, <1>5, <1>7 DEF PlaceOf, PlaceBelow
    <3>4. n + 1 \in 1..Len(frames')
      BY <3>2, <1>1
    <3> QED
      BY <2>2, <3>2, <3>3, <3>4, <1>7, <1>10
  <2> QED
    BY <2>1, <2>2, <1>6
<1>25. RootIsWalked'
  <2>1. Len(frames') # 0
    BY <1>1, <1>12
  <2> QED
    BY <2>1 DEF RootIsWalked
<1>26. SeenWerePassed'
  <2> SUFFICES ASSUME mode = "read", NEW k \in 1..Len(frames'), NEW e \in Seen',
                      NEW name \in DOMAIN Key, e.path = Append(frames'[k].path, name)
               PROVE  \E j \in 1..(frames'[k].next - 1) : e = EntryOf(frames'[k].path, RecordsAt(k)'[j])
    BY DEF SeenWerePassed, EntryOf
  <2>1. CASE k \in 1..n /\ e \in Seen
    <3>1. PICK j \in 1..(frames[k].next - 1) : e = EntryOf(frames[k].path, RecordsAt(k)[j])
      BY <2>1, <1>12, <1>18 DEF SeenWerePassed
    <3> QED
      BY <2>1, <3>1, <1>12, <1>14, <1>16
  <2>2. CASE k \in 1..n /\ e = new
    <3>1. frames[k].path \in Seq(DOMAIN Key) /\ Len(frames[k].path) = k - 1 /\ frames'[k].path = frames[k].path
      BY <2>2, <1>1, <1>12
    <3>2. Walk!Path = Append(frames[k].path, name)
      BY <2>2, <3>1, <1>7
    <3>3. Len(Walk!Path) = (k - 1) + 1
      BY <3>1, <3>2, AppendIs
    <3>4. k = n
      BY <2>2, <3>3, <1>1, <1>10
    <3>5. Walk!Top.next \in 1..(frames'[k].next - 1)
      <4>1. frames'[k].next = Walk!Top.next + 1
        BY <3>4, <1>12
      <4> QED
        BY <4>1, <1>15
    <3>6. e = EntryOf(frames'[k].path, RecordsAt(k)'[Walk!Top.next])
      <4>1. RecordsAt(k)' = Walk!Records
        BY <2>2, <3>4, <1>8, <1>14
      <4>2. frames'[k].path = Walk!Top.path
        BY <3>1, <3>4, <1>1
      <4> QED
        BY <2>2, <4>1, <4>2, <1>3 DEF new
    <3> QED
      BY <3>5, <3>6
  <2>3. CASE k = n + 1 /\ Len(frames') = n + 1
    <3>1. frames'[k].path = Walk!Path
      BY <2>3, <1>13a
    <3>2. CASE e = new
      <4>1. Len(Walk!Path) = Len(Walk!Path) + 1 /\ Len(Walk!Path) \in Nat
        BY <2>3, <3>1, <3>2, <1>3, <1>7, AppendIs
      <4> QED
        BY <4>1
    <3>3. CASE e \in Seen
      <4>1. PICK path \in {<< >>} \cup {above.path : above \in Seen}, last \in DOMAIN Key :
                e.path = Append(path, last)
        BY <3>3 DEF ParentsAreSeen
      <4>2. path \in Seq(DOMAIN Key)
        <5>1. \A above \in Seen : above.path \in Seq(DOMAIN Key)
          <6>1. seen \in Seq(SeenSet)
            BY DEF WalkTyped
          <6>2. \A above \in Seen : above \in SeenSet
            BY <6>1, SeqAndRange DEF Seen
          <6> QED
            BY <6>2 DEF SeenSet
        <5>2. << >> \in Seq(DOMAIN Key)
          OBVIOUS
        <5> QED
          BY <4>1, <5>1, <5>2
      <4>3. path = Walk!Path
        BY <3>1, <4>1, <4>2, <1>3, AppendDiffers
      <4>4. \E above \in Seen : above.path = Append(Walk!Top.path, Walk!Record.name)
        BY <4>1, <4>3, <1>3, <1>7
      <4>5. Walk!IsDuplicate
        BY <4>4, <1>3, DuplicateIs
      <4> QED
        BY <4>5
    <3> QED
      BY <3>2, <3>3, <1>6
  <2> QED
    BY <1>6, <1>13, <2>1, <2>2, <2>3
<1>27. ParentsAreSeen'
  <2> SUFFICES ASSUME NEW e \in Seen'
               PROVE  \E path \in {<< >>} \cup {above.path : above \in Seen'} :
                         \E name \in DOMAIN Key : e.path = Append(path, name)
    BY DEF ParentsAreSeen
  <2>1. CASE e \in Seen
    BY <2>1, <1>6 DEF ParentsAreSeen
  <2>2. CASE e = new
    <3>1. n \in 1..Len(frames)
      BY <1>1, <1>18
    <3>2. Walk!Top.path = << >> \/ \E above \in Seen : above.path = Walk!Top.path
      BY <3>1, <1>1 DEF FramesAreSeen
    <3> QED
      BY <2>2, <3>2, <1>3, <1>6, <1>7
  <2> QED
    BY <2>1, <2>2, <1>6
<1>28. FramesAreSeen'
  <2> SUFFICES ASSUME NEW k \in 1..Len(frames')
               PROVE  frames'[k].path = << >> \/ \E e \in Seen' : e.path = frames'[k].path
    BY DEF FramesAreSeen
  <2>1. CASE k \in 1..n
    BY <2>1, <1>6, <1>12, <1>18 DEF FramesAreSeen
  <2>2. CASE k = n + 1 /\ Len(frames') = n + 1
    <3>1. frames'[k].path = Walk!Path
      BY <2>2, <1>13a
    <3> QED
      BY <3>1, <1>6, <1>7
  <2> QED
    BY <1>13, <2>1, <2>2
<1> QED
  BY <1>20, <1>21, <1>22, <1>23, <1>24, <1>25, <1>26, <1>27, <1>28

LEMMA SkippingOne ==
    ASSUME WalkTyped, WalkProgress, Walk!SkipDirectory
    PROVE  WalkProgress'
<1> DEFINE n == Len(frames)
<1>1. /\ frames # << >> /\ Walk!Top.next <= Len(Walk!Records) /\ Walk!Skipped(Walk!Record)
      /\ frames' = Walk!Passed /\ mode # "read"
      /\ UNCHANGED <<image, mode, skip_system_update, partition, seen>>
  BY DEF WalkTyped, Walk!SkipDirectory, Walk!HasNext, Walk!inputs, Walk!Skipped
<1>2. /\ n \in Nat \ {0} /\ Walk!Records = RecordsAt(n) /\ Walk!Top = frames[n]
  BY <1>1, TopFrame DEF Walk!Records, RecordsAt, Walk!TableAt, Found, Walk!Top
<1>3. /\ Found' = Found /\ Walk!Levels(Found)' = Walk!Levels(Found)
      /\ \A place : Walk!EntriesAt(Found, place)' = Walk!EntriesAt(Found, place)
      /\ \A r : Walk!Skipped(r)' = Walk!Skipped(r)
  BY <1>1, SameTree
<1>4. Seen' = Seen
  BY <1>1 DEF Seen
<1>5. /\ Len(frames') = n
      /\ \A k \in 1..n : k # n => frames'[k] = frames[k]
      /\ \A k \in 1..n : frames'[k].sector = frames[k].sector /\ frames'[k].path = frames[k].path
      /\ frames'[n].next = Walk!Top.next + 1
  BY <1>1, PassedFrames
<1>6. Walk!Top.next \in 1..Len(Walk!Records) /\ Walk!Record = Walk!Records[Walk!Top.next]
  BY <1>1, ThisRecord DEF Walk!Record
<1>7. \A k \in 1..n : RecordsAt(k)' = RecordsAt(k) /\ PlaceOf(frames'[k]) = PlaceOf(frames[k])
  BY <1>3, <1>5 DEF RecordsAt, PlaceOf
<1> HIDE DEF n
<1>8. n = Len(frames)
  BY DEF n
<1> USE DEF WalkProgress
<1>9. FramesArePlaces' /\ SeenAreEntries' /\ ParentsAreSeen' /\ FramesAreSeen'
  <2>1. FramesArePlaces'
    <3> SUFFICES ASSUME NEW k \in 1..n
                 PROVE  PlaceOf(frames'[k]) \in Walk!Levels(Found)[k - 1]
      BY <1>3, <1>5 DEF FramesArePlaces
    <3> QED
      BY <1>7, <1>8 DEF FramesArePlaces
  <2>2. SeenAreEntries'
    <3> SUFFICES ASSUME NEW e \in Seen
                 PROVE  \E m \in 0..MaxDepth : \E place \in Walk!Levels(Found)[m] :
                           e \in Walk!EntriesAt(Found, place)
      BY <1>3, <1>4 DEF SeenAreEntries
    <3> QED
      BY DEF SeenAreEntries
  <2>3. ParentsAreSeen'
    BY <1>4 DEF ParentsAreSeen
  <2>4. FramesAreSeen'
    <3> SUFFICES ASSUME NEW k \in 1..n
                 PROVE  frames'[k].path = << >> \/ \E e \in Seen : e.path = frames'[k].path
      BY <1>4, <1>5 DEF FramesAreSeen
    <3> QED
      BY <1>5, <1>8 DEF FramesAreSeen
  <2> QED
    BY <2>1, <2>2, <2>3, <2>4
<1>10. PassedAreSeen'
  <2> SUFFICES ASSUME NEW k \in 1..n, NEW j \in 1..(frames'[k].next - 1)
               PROVE  \/ Walk!Skipped(RecordsAt(k)'[j])
                      \/ EntryOf(frames'[k].path, RecordsAt(k)'[j]) \in Seen
    BY <1>3, <1>4, <1>5, Zenon DEF PassedAreSeen, EntryOf
  <2>1. CASE j \in 1..(frames[k].next - 1)
    BY <2>1, <1>5, <1>7, <1>8 DEF PassedAreSeen
  <2>2. CASE j \notin 1..(frames[k].next - 1)
    <3>1. k = n
      BY <2>2, <1>5
    <3>2. j = Walk!Top.next
      <4>1. frames'[k].next = Walk!Top.next + 1 /\ frames[k].next = Walk!Top.next
        BY <3>1, <1>2, <1>5
      <4> QED
        BY <2>2, <4>1, <1>6
    <3>3. RecordsAt(k)' = Walk!Records
      BY <3>1, <1>2, <1>7
    <3> QED
      BY <3>2, <3>3, <1>1, <1>6
  <2> QED
    BY <2>1, <2>2
<1>11. PassedDiffer' /\ SeenWerePassed'
  BY <1>1 DEF PassedDiffer, SeenWerePassed
<1>12. DirectoriesAreWalked'
  <2> SUFFICES ASSUME NEW e \in Seen, e.record.is_directory, e.record.size > 0
               PROVE  /\ Len(e.path) <= MaxDepth
                      /\ \/ Complete(PlaceBelow(e))'
                         \/ \E k \in 1..n : PlaceOf(frames'[k]) = PlaceBelow(e)
    BY <1>4, <1>5 DEF DirectoriesAreWalked, PlaceBelow
  <2>1. /\ Len(e.path) <= MaxDepth
        /\ Complete(PlaceBelow(e)) \/ \E k \in 1..n : PlaceOf(frames[k]) = PlaceBelow(e)
    BY <1>8 DEF DirectoriesAreWalked
  <2>2. \A place : Complete(place) => Complete(place)'
    BY <1>1, <1>4, StaysComplete
  <2>3. Complete(PlaceBelow(e)) => Complete(PlaceBelow(e))'
    BY <2>2 DEF PlaceBelow
  <2> QED
    BY <2>1, <2>3, <1>7
<1>13. RootIsWalked'
  <2>1. Len(frames') # 0
    BY <1>2, <1>5
  <2> QED
    BY <2>1 DEF RootIsWalked
<1> QED
  BY <1>9, <1>10, <1>11, <1>12, <1>13

\* A table that was read to its end.
LEMMA TopIsComplete ==
    ASSUME WalkTyped, WalkProgress, frames # << >>, ~(Walk!Top.next <= Len(Walk!Records)),
           Walk!TableAt(Walk!Top.sector).sound
    PROVE  Complete(PlaceOf(Walk!Top))
<1> DEFINE n == Len(frames)
<1>1. /\ n \in Nat \ {0} /\ Walk!Records = RecordsAt(n) /\ Walk!Top = frames[n]
      /\ Walk!Records = Walk!TableOf(Found, Walk!Top.sector).records
      /\ Walk!Records \in Seq(RecordsOf(Found)) /\ Walk!Top \in FrameSet
      /\ Walk!Top.next <= Len(Walk!Records) + 1
  BY TopFrame DEF Walk!Records, RecordsAt, Walk!TableAt, Found, Walk!Top
<1>2. /\ Len(Walk!Records) \in Nat /\ DOMAIN Walk!Records = 1..Len(Walk!Records)
      /\ frames[n].next - 1 = Len(Walk!Records) /\ n \in 1..Len(frames)
  <2>1. Len(Walk!Records) \in Nat /\ DOMAIN Walk!Records = 1..Len(Walk!Records)
    BY <1>1
  <2>2. Walk!Top.next \in Nat \ {0}
    BY <1>1 DEF FrameSet
  <2> QED
    BY <1>1, <2>1, <2>2
<1>3. Walk!TableOf(Found, Walk!Top.sector).sound
  BY DEF Walk!TableAt, Found
<1>4. ASSUME mode = "read", Walk!HasDuplicates(Walk!TableOf(Found, Walk!Top.sector))
      PROVE  FALSE
  <2> DEFINE table == Walk!TableOf(Found, Walk!Top.sector)
  <2>1. table.records = Walk!Records /\ Walk!HasDuplicates(table)
    BY <1>1, <1>4
  <2> HIDE DEF table
  <2>2. \E i, j \in DOMAIN Walk!Records :
            i # j /\ Key[Walk!Records[i].name] = Key[Walk!Records[j].name]
    BY <2>1 DEF Walk!HasDuplicates
  <2>3. \A k \in 1..Len(frames) : \A i, j \in 1..(frames[k].next - 1) :
            Key[RecordsAt(k)[i].name] = Key[RecordsAt(k)[j].name] => i = j
    BY <1>4 DEF WalkProgress, PassedDiffer
  <2>4. \A i, j \in 1..(frames[n].next - 1) :
            Key[RecordsAt(n)[i].name] = Key[RecordsAt(n)[j].name] => i = j
    BY <1>2, <2>3
  <2>5. 1..(frames[n].next - 1) = DOMAIN Walk!Records /\ RecordsAt(n) = Walk!Records
    BY <1>1, <1>2
  <2> QED
    BY <2>2, <2>4, <2>5
<1>5. ASSUME NEW e \in Walk!EntriesAt(Found, PlaceOf(Walk!Top))
      PROVE  e \in Seen
  <2>1. PlaceOf(Walk!Top).sector = Walk!Top.sector /\ PlaceOf(Walk!Top).path = Walk!Top.path
    BY DEF PlaceOf
  <2>2. PICK r \in Walk!Range(Walk!Records) :
            ~Walk!Skipped(r) /\ e = [path |-> Append(Walk!Top.path, r.name), record |-> r]
    BY <2>1, <1>1, EntryAt
  <2>3. PICK j \in 1..Len(Walk!Records) : r = Walk!Records[j]
    BY <1>1, SeqAndRange
  <2>4. EntryOf(frames[n].path, RecordsAt(n)[j]) \in Seen
    BY <2>2, <2>3, <1>1, <1>2 DEF WalkProgress, PassedAreSeen
  <2> QED
    BY <2>2, <2>3, <2>4, <1>1 DEF EntryOf
<1>6. PlaceOf(Walk!Top).sector = Walk!Top.sector
  BY DEF PlaceOf
<1> QED
  BY <1>3, <1>4, <1>5, <1>6 DEF Complete

LEMMA LeavingOne ==
    ASSUME WalkTyped, WalkProgress, Walk!LeaveTable
    PROVE  WalkProgress'
<1> DEFINE n == Len(frames)
<1>1. /\ frames # << >> /\ ~(Walk!Top.next <= Len(Walk!Records))
      /\ frames' = SubSeq(frames, 1, Len(frames) - 1)
      /\ Walk!TableAt(Walk!Top.sector).sound
      /\ UNCHANGED <<image, mode, skip_system_update, partition, seen>>
  BY DEF WalkTyped, Walk!LeaveTable, Walk!HasNext, Walk!inputs
<1>2. n \in Nat \ {0} /\ Walk!Top = frames[n]
  BY <1>1, TopFrame DEF Walk!Top
<1>3. /\ Found' = Found /\ Walk!Levels(Found)' = Walk!Levels(Found)
      /\ \A place : Walk!EntriesAt(Found, place)' = Walk!EntriesAt(Found, place)
      /\ \A r : Walk!Skipped(r)' = Walk!Skipped(r)
      /\ RootPlace(Found)' = RootPlace(Found)
  BY <1>1, SameTree
<1>4. Seen' = Seen
  BY <1>1 DEF Seen
<1>5. /\ Len(frames') = n - 1
      /\ \A k \in 1..(n - 1) : k \in 1..n /\ frames'[k] = frames[k]
  <2>1. frames \in Seq(FrameSet)
    BY DEF WalkTyped
  <2>2. Len(frames') = n - 1 /\ \A k \in 1..(n - 1) : frames'[k] = frames[k]
    BY <1>1, <2>1, AllButLast
  <2> QED
    BY <1>2, <2>2
<1>6. Complete(PlaceOf(Walk!Top))
  BY <1>1, TopIsComplete
<1>7. \A k \in 1..(n - 1) : RecordsAt(k)' = RecordsAt(k)
  BY <1>3, <1>5 DEF RecordsAt
<1>8. \A place : Complete(place) => Complete(place)'
  BY <1>1, <1>4, StaysComplete
<1> HIDE DEF n
<1>9. n = Len(frames)
  BY DEF n
<1> USE DEF WalkProgress
<1>10. FramesArePlaces' /\ SeenAreEntries' /\ ParentsAreSeen' /\ FramesAreSeen'
  <2>1. FramesArePlaces'
    <3> SUFFICES ASSUME NEW k \in 1..(n - 1)
                 PROVE  PlaceOf(frames'[k]) \in Walk!Levels(Found)[k - 1]
      BY <1>3, <1>5 DEF FramesArePlaces
    <3> QED
      BY <1>5, <1>9 DEF FramesArePlaces
  <2>2. SeenAreEntries'
    <3> SUFFICES ASSUME NEW e \in Seen
                 PROVE  \E m \in 0..MaxDepth : \E place \in Walk!Levels(Found)[m] :
                           e \in Walk!EntriesAt(Found, place)
      BY <1>3, <1>4 DEF SeenAreEntries
    <3> QED
      BY DEF SeenAreEntries
  <2>3. ParentsAreSeen'
    BY <1>4 DEF ParentsAreSeen
  <2>4. FramesAreSeen'
    <3> SUFFICES ASSUME NEW k \in 1..(n - 1)
                 PROVE  frames'[k].path = << >> \/ \E e \in Seen : e.path = frames'[k].path
      BY <1>4, <1>5 DEF FramesAreSeen
    <3> QED
      BY <1>5, <1>9 DEF FramesAreSeen
  <2> QED
    BY <2>1, <2>2, <2>3, <2>4
<1>11. PassedAreSeen'
  <2> SUFFICES ASSUME NEW k \in 1..(n - 1), NEW j \in 1..(frames'[k].next - 1)
               PROVE  \/ Walk!Skipped(RecordsAt(k)'[j])
                      \/ EntryOf(frames'[k].path, RecordsAt(k)'[j]) \in Seen
    BY <1>3, <1>4, <1>5, Zenon DEF PassedAreSeen, EntryOf
  <2> QED
    BY <1>5, <1>7, <1>9 DEF PassedAreSeen
<1>12. PassedDiffer'
  <2> SUFFICES ASSUME mode = "read", NEW k \in 1..(n - 1),
                      NEW i \in 1..(frames'[k].next - 1), NEW j \in 1..(frames'[k].next - 1),
                      Key[RecordsAt(k)'[i].name] = Key[RecordsAt(k)'[j].name]
               PROVE  i = j
    BY <1>1, <1>5 DEF PassedDiffer
  <2>1. k \in 1..Len(frames) /\ frames'[k].next = frames[k].next /\ RecordsAt(k)' = RecordsAt(k)
    BY <1>5, <1>7, <1>9
  <2> QED
    BY <2>1 DEF PassedDiffer
<1>13. SeenWerePassed'
  <2> SUFFICES ASSUME mode = "read", NEW k \in 1..(n - 1), NEW e \in Seen,
                      NEW name \in DOMAIN Key, e.path = Append(frames'[k].path, name)
               PROVE  \E j \in 1..(frames'[k].next - 1) : e = EntryOf(frames'[k].path, RecordsAt(k)'[j])
    BY <1>1, <1>4, <1>5 DEF SeenWerePassed, EntryOf
  <2>1. /\ k \in 1..Len(frames) /\ frames'[k].next = frames[k].next /\ frames'[k].path = frames[k].path
        /\ RecordsAt(k)' = RecordsAt(k)
    BY <1>5, <1>7, <1>9
  <2>2. \E j \in 1..(frames[k].next - 1) : e = EntryOf(frames[k].path, RecordsAt(k)[j])
    BY <2>1 DEF SeenWerePassed
  <2> QED
    BY <2>1, <2>2
<1>14. DirectoriesAreWalked'
  <2> SUFFICES ASSUME NEW e \in Seen, e.record.is_directory, e.record.size > 0
               PROVE  /\ Len(e.path) <= MaxDepth
                      /\ \/ Complete(PlaceBelow(e))'
                         \/ \E k \in 1..(n - 1) : PlaceOf(frames'[k]) = PlaceBelow(e)
    BY <1>4, <1>5 DEF DirectoriesAreWalked, PlaceBelow
  <2>1. /\ Len(e.path) <= MaxDepth
        /\ Complete(PlaceBelow(e)) \/ \E k \in 1..n : PlaceOf(frames[k]) = PlaceBelow(e)
    BY <1>9 DEF DirectoriesAreWalked
  <2>2. CASE Complete(PlaceBelow(e))
    <3>1. Complete(PlaceBelow(e))'
      BY <2>2, <1>8 DEF PlaceBelow
    <3> QED
      BY <2>1, <3>1
  <2>3. CASE \E k \in 1..n : PlaceOf(frames[k]) = PlaceBelow(e)
    <3>1. PICK k \in 1..n : PlaceOf(frames[k]) = PlaceBelow(e)
      BY <2>3
    <3>2. CASE k = n
      <4>1. Complete(PlaceBelow(e))
        BY <3>1, <3>2, <1>2, <1>6
      <4>2. Complete(PlaceBelow(e))'
        BY <4>1, <1>8 DEF PlaceBelow
      <4> QED
        BY <2>1, <4>2
    <3>3. CASE k # n
      <4>1. k \in 1..(n - 1)
        BY <3>3, <1>2
      <4> QED
        BY <2>1, <3>1, <4>1, <1>5
    <3> QED
      BY <3>2, <3>3
  <2> QED
    BY <2>1, <2>2, <2>3
<1>15. RootIsWalked'
  <2>1. CASE n = 1
    <3>1. PlaceOf(Walk!Top) \in Walk!Levels(Found)[0]
      <4>1. PlaceOf(frames[n]) \in Walk!Levels(Found)[n - 1] /\ n - 1 = 0
        BY <2>1, <1>9 DEF FramesArePlaces
      <4> QED
        BY <4>1, <1>2
    <3>2. PlaceOf(Walk!Top) = RootPlace(Found)
      BY <3>1, LevelsAre
    <3>3. Complete(RootPlace(Found))
      BY <3>2, <1>6
    <3> DEFINE root == RootPlace(Found)
    <3>4. Complete(root) /\ root = RootPlace(Found)'
      BY <3>3, <1>3
    <3>5. Complete(RootPlace(Found))'
      BY <1>3, <1>4, <3>3, <1>1 DEF Complete, RootPlace
    <3> QED
      BY <3>5 DEF RootIsWalked
  <2>2. CASE n # 1
    <3>1. Len(frames') # 0
      BY <2>2, <1>2, <1>5
    <3> QED
      BY <3>1 DEF RootIsWalked
  <2> QED
    BY <2>1, <2>2
<1> QED
  BY <1>10, <1>11, <1>12, <1>13, <1>14, <1>15

LEMMA OpeningOne ==
    ASSUME WalkTyped, Walk!OpenVolume
    PROVE  WalkProgress'
<1> DEFINE first == Walk!Frame(image[Walk!Min(Walk!WithMagic)].root, << >>)
<1>1. /\ partition' = Walk!Min(Walk!WithMagic) /\ frames' = <<first>>
      /\ UNCHANGED <<image, mode, skip_system_update, seen>> /\ seen = << >>
  BY DEF WalkTyped, Walk!OpenVolume, Walk!inputs
<1>2. first.path = << >> /\ first.next = 1 /\ PlaceOf(first) = RootPlace(Found')
  BY <1>1 DEF Walk!Frame, PlaceOf, RootPlace, Found
<1> HIDE DEF first
<1>3. Len(frames') = 1 /\ frames'[1] = first /\ frames' # << >>
  BY <1>1
<1>4. Seen' = {}
  BY <1>1 DEF Seen, Walk!Range
<1>5. Walk!Levels(Found)' = Walk!Levels(Found')
  BY <1>1 DEF Walk!Levels, Walk!Below, Walk!EntriesAt, Walk!Skipped, Found
<1>6. RootPlace(Found') \in Walk!Levels(Found')[0]
  BY LevelsAre
<1>7. \A k \in 1..Len(frames') : k = 1 /\ k - 1 = 0
  BY <1>3
<1>8. FramesArePlaces'
  BY <1>2, <1>3, <1>5, <1>6, <1>7 DEF FramesArePlaces
<1>9. SeenAreEntries' /\ DirectoriesAreWalked' /\ ParentsAreSeen' /\ SeenWerePassed' /\ RootIsWalked'
  BY <1>3, <1>4 DEF SeenAreEntries, DirectoriesAreWalked, ParentsAreSeen, SeenWerePassed, RootIsWalked
<1>10. PassedAreSeen' /\ PassedDiffer' /\ FramesAreSeen'
  BY <1>2, <1>3, <1>7 DEF PassedAreSeen, PassedDiffer, FramesAreSeen
<1> QED
  BY <1>8, <1>9, <1>10 DEF WalkProgress

-------------------------------------------------------------------------------
(* What a walk has seen when it is over. *)

LEMMA PlacesAre ==
    ASSUME NEW volume, NEW place
    PROVE  place \in Walk!Places(volume) <=>
              \E n \in 0..(MaxDepth + 1) : place \in Walk!Levels(volume)[n]
<1>1. DOMAIN Walk!Levels(volume) = 0..(MaxDepth + 1)
  BY LevelsAre
<1> QED
  BY <1>1 DEF Walk!Places, Walk!Range

LEMMA AllPlacesComplete ==
    ASSUME WalkTyped, WalkProgress, partition # 0, frames = << >>
    PROVE  \A n \in 0..MaxDepth : \A place \in Walk!Levels(Found)[n] : Complete(place)
<1> DEFINE L == Walk!Levels(Found)
           S == {n \in Nat : n <= MaxDepth => \A place \in L[n] : Complete(place)}
<1>1. 0 \in S
  <2>1. L[0] = {RootPlace(Found)} /\ Complete(RootPlace(Found))
    BY LevelsAre DEF WalkProgress, RootIsWalked
  <2> HIDE DEF L
  <2> QED
    BY <2>1
<1>2. ASSUME NEW n \in Nat, n \in S
      PROVE  n + 1 \in S
  <2> SUFFICES ASSUME n + 1 <= MaxDepth, NEW place \in L[n + 1]
               PROVE  Complete(place)
    OBVIOUS
  <2>1. n \in 0..MaxDepth
    BY TripAssumption DEF Walk!TreeWalkAssumption
  <2>2. PICK above \in L[n] : \E e \in Walk!EntriesAt(Found, above) :
            e.record.is_directory /\ e.record.size > 0 /\ place = PlaceBelow(e)
    BY <2>1, LevelBelow
  <2>3. PICK e \in Walk!EntriesAt(Found, above) :
            e.record.is_directory /\ e.record.size > 0 /\ place = PlaceBelow(e)
    BY <2>2
  <2>4. Complete(above)
    BY <1>2, <2>1
  <2>5. e \in Seen
    BY <2>4 DEF Complete
  <2>6. Len(frames) = 0
    OBVIOUS
  <2> QED
    BY <2>3, <2>5, <2>6 DEF WalkProgress, DirectoriesAreWalked
<1>3. Nat \subseteq S
  <2> HIDE DEF S
  <2> QED
    BY <1>1, <1>2, Counting
<1> QED
  BY <1>3, TripAssumption DEF Walk!TreeWalkAssumption

LEMMA NothingTooDeep ==
    ASSUME WalkTyped, WalkProgress, partition # 0, frames = << >>
    PROVE  Walk!Levels(Found)[MaxDepth + 1] = {}
<1> SUFFICES ASSUME NEW place \in Walk!Levels(Found)[MaxDepth + 1]
             PROVE  FALSE
  OBVIOUS
<1>1. MaxDepth \in Nat /\ MaxDepth \in 0..MaxDepth /\ MaxDepth + 1 \in 0..(MaxDepth + 1)
  BY TripAssumption DEF Walk!TreeWalkAssumption
<1>2. PICK above \in Walk!Levels(Found)[MaxDepth] : \E e \in Walk!EntriesAt(Found, above) :
            e.record.is_directory /\ e.record.size > 0 /\ place = PlaceBelow(e)
  BY <1>1, LevelBelow
<1>3. PICK e \in Walk!EntriesAt(Found, above) :
            e.record.is_directory /\ e.record.size > 0 /\ place = PlaceBelow(e)
  BY <1>2
<1>4. e \in Seen
  BY <1>1, AllPlacesComplete DEF Complete
<1>5. Len(e.path) <= MaxDepth
  BY <1>3, <1>4 DEF WalkProgress, DirectoriesAreWalked
<1>6. Walk!IsVolume(Found)
  BY FoundIsVolume
<1>7. Len(place.path) = MaxDepth + 1
  BY <1>1, <1>6, LevelPaths
<1> QED
  BY <1>1, <1>3, <1>5, <1>7 DEF PlaceBelow

LEMMA AllIsSeen ==
    ASSUME WalkTyped, WalkProgress, partition # 0, frames = << >>
    PROVE  Walk!IsReadable(Found) /\ Walk!Range(seen) = Walk!Entries(Found)
<1>1. MaxDepth \in Nat /\ \A n \in 0..(MaxDepth + 1) : n \in 0..MaxDepth \/ n = MaxDepth + 1
  BY TripAssumption DEF Walk!TreeWalkAssumption
<1>2. Walk!Levels(Found)[MaxDepth + 1] = {}
  BY NothingTooDeep
<1>3. \A place \in Walk!Places(Found) : Complete(place)
  BY <1>1, <1>2, PlacesAre, AllPlacesComplete
<1>4. Walk!IsReadable(Found)
  BY <1>2, <1>3 DEF Walk!IsReadable, Complete
<1>5. Walk!Entries(Found) \subseteq Seen
  BY <1>3 DEF Walk!Entries, Complete
<1>6. Seen \subseteq Walk!Entries(Found)
  <2> SUFFICES ASSUME NEW e \in Seen
               PROVE  e \in Walk!Entries(Found)
    OBVIOUS
  <2>1. PICK n \in 0..MaxDepth : \E place \in Walk!Levels(Found)[n] : e \in Walk!EntriesAt(Found, place)
    BY DEF WalkProgress, SeenAreEntries
  <2>2. PICK place \in Walk!Levels(Found)[n] : e \in Walk!EntriesAt(Found, place)
    BY <2>1
  <2>3. n \in 0..(MaxDepth + 1)
    BY <1>1
  <2>4. place \in Walk!Places(Found)
    BY <2>3, PlacesAre
  <2> QED
    BY <2>2, <2>4 DEF Walk!Entries
<1> QED
  BY <1>4, <1>5, <1>6 DEF Seen

\* The three reasons for which a walk gives up.
LEMMA TooDeepIsUnreadable ==
    ASSUME WalkTyped, WalkProgress, frames # << >>, Walk!Top.next <= Len(Walk!Records),
           ~Walk!Skipped(Walk!Record), Walk!Record.is_directory, Walk!Record.size > 0, Walk!TooDeep
    PROVE  ~Walk!IsReadable(Found)
<1> DEFINE e == EntryOf(Walk!Top.path, Walk!Record)
<1>1. /\ PlaceOf(Walk!Top) \in Walk!Levels(Found)[Len(frames) - 1] /\ Len(frames) \in Nat
      /\ Len(frames) <= MaxDepth + 1 /\ MaxDepth \in Nat /\ MaxDepth \in 0..MaxDepth
  BY TopFrame, TopPlace, TripAssumption DEF WalkTyped, Walk!TreeWalkAssumption
<1>2. Len(frames) - 1 = MaxDepth
  BY <1>1 DEF Walk!TooDeep
<1>3. /\ Walk!Record \in Walk!Range(Walk!TableOf(Found, PlaceOf(Walk!Top).sector).records)
      /\ PlaceOf(Walk!Top).path = Walk!Top.path
  BY ThisRecord DEF Walk!Records, Walk!TableAt, Found, PlaceOf
<1>4. e \in Walk!EntriesAt(Found, PlaceOf(Walk!Top)) /\ e.record = Walk!Record
  BY <1>3, EntryAt DEF EntryOf
<1> HIDE DEF e
<1>5. PlaceBelow(e) \in Walk!Levels(Found)[MaxDepth + 1]
  BY <1>1, <1>2, <1>4, LevelBelow
<1> QED
  BY <1>5 DEF Walk!IsReadable

LEMMA CorruptIsUnreadable ==
    ASSUME WalkTyped, WalkProgress, frames # << >>, ~Walk!TableAt(Walk!Top.sector).sound
    PROVE  ~Walk!IsReadable(Found)
<1>1. /\ PlaceOf(Walk!Top) \in Walk!Levels(Found)[Len(frames) - 1]
      /\ Len(frames) - 1 \in 0..MaxDepth /\ MaxDepth \in Nat
  BY TopPlace, TripAssumption DEF Walk!TreeWalkAssumption
<1>2. Len(frames) - 1 \in 0..(MaxDepth + 1)
  BY <1>1
<1>3. PlaceOf(Walk!Top) \in Walk!Places(Found)
  BY <1>1, <1>2, PlacesAre
<1>4. ~Walk!TableOf(Found, PlaceOf(Walk!Top).sector).sound
  BY DEF Walk!TableAt, Found, PlaceOf
<1> QED
  BY <1>3, <1>4 DEF Walk!IsReadable

LEMMA DuplicateIsUnreadable ==
    ASSUME WalkTyped, WalkProgress, frames # << >>, Walk!Top.next <= Len(Walk!Records), Walk!IsDuplicate
    PROVE  ~Walk!IsReadable(Found)
<1> DEFINE n == Len(frames)
           table == Walk!TableOf(Found, PlaceOf(Walk!Top).sector)
<1>1. mode = "read"
  BY DEF Walk!IsDuplicate
<1>2. /\ n \in Nat \ {0} /\ n \in 1..n /\ Walk!Top = frames[n]
      /\ n - 1 \in 0..MaxDepth /\ n - 1 \in 0..(MaxDepth + 1)
      /\ PlaceOf(Walk!Top) \in Walk!Levels(Found)[n - 1]
  <2>1. n \in Nat \ {0} /\ Walk!Top = frames[n] /\ MaxDepth \in Nat
    BY TopFrame, TripAssumption DEF Walk!Top, Walk!TreeWalkAssumption
  <2>2. n - 1 \in 0..MaxDepth /\ PlaceOf(Walk!Top) \in Walk!Levels(Found)[n - 1]
    BY TopPlace
  <2> QED
    BY <2>1, <2>2
<1>3. Walk!Records = RecordsAt(n) /\ Walk!Records = table.records
  BY <1>2 DEF Walk!Records, RecordsAt, Walk!TableAt, Found, PlaceOf
<1>4. PICK e \in Seen : \E name \in DOMAIN Key :
          e.path = Append(Walk!Top.path, name) /\ Key[name] = Key[Walk!Record.name]
  BY <1>1, DuplicateIs
<1>5. PICK name \in DOMAIN Key : e.path = Append(Walk!Top.path, name) /\ Key[name] = Key[Walk!Record.name]
  BY <1>4
<1>6. PICK j \in 1..(frames[n].next - 1) : e = EntryOf(frames[n].path, RecordsAt(n)[j])
  <2>1. e.path = Append(frames[n].path, name)
    BY <1>2, <1>5
  <2> QED
    BY <1>1, <1>2, <2>1 DEF WalkProgress, SeenWerePassed
<1>7. Walk!Top.next \in 1..Len(Walk!Records) /\ Walk!Record = Walk!Records[Walk!Top.next]
  BY ThisRecord DEF Walk!Record
<1>8. DOMAIN Walk!Records = 1..Len(Walk!Records) /\ Len(Walk!Records) \in Nat
      /\ Walk!Records \in Seq(RecordsOf(Found))
  BY TopFrame
<1>9. j \in 1..(Walk!Top.next - 1)
  BY <1>2
<1>10. j \in DOMAIN Walk!Records /\ Walk!Top.next \in DOMAIN Walk!Records /\ j # Walk!Top.next
  BY <1>7, <1>8, <1>9
<1>11. Key[Walk!Records[j].name] = Key[Walk!Records[Walk!Top.next].name]
  <2>1. Walk!Records[j].name \in DOMAIN Key
    <3>1. Walk!Records[j] \in RecordsOf(Found)
      BY <1>8, <1>10
    <3>2. Walk!IsVolume(Found)
      BY TopFrame, FoundIsVolume
    <3> QED
      BY <3>1, <3>2, RecordsAreTyped
  <2>2. Walk!Top.path \in Seq(DOMAIN Key)
    BY TopPlace
  <2>3. e.path = Append(Walk!Top.path, Walk!Records[j].name)
    BY <1>2, <1>3, <1>6 DEF EntryOf
  <2> DEFINE other == Walk!Records[j].name
             top == Walk!Top.path
  <2>4. other \in DOMAIN Key /\ top \in Seq(DOMAIN Key) /\ Append(top, name) = Append(top, other)
    BY <1>5, <2>1, <2>2, <2>3
  <2> HIDE DEF other, top
  <2>5. name = other
    BY <2>4, AppendDiffers
  <2> QED
    BY <1>5, <1>7, <2>5 DEF other
<1> HIDE DEF n
<1>12. Walk!HasDuplicates(table)
  BY <1>3, <1>10, <1>11 DEF Walk!HasDuplicates
<1>13. PlaceOf(Walk!Top) \in Walk!Places(Found)
  BY <1>2, PlacesAre
<1> QED
  BY <1>1, <1>12, <1>13 DEF Walk!IsReadable

\* The partition a walk has taken, and what it has seen of it.
FirstIs(magic) == Walk!WithMagic # {} /\ image[Walk!Min(Walk!WithMagic)].magic = magic

WalkSeen ==
    /\ partition # 0 =>
          /\ partition = Walk!Min(Walk!WithMagic) /\ FirstIs(2) /\ Found.root # NoRoot
          /\ pc \in {"walk", "extract", "done"} => WalkProgress
          /\ pc = "done" => frames = << >>
          /\ pc = "refused" => ~Walk!IsReadable(Found)
    /\ partition = 0 =>
          /\ pc = "done" => FirstIs(2) /\ image[Walk!Min(Walk!WithMagic)].root = NoRoot
          /\ pc = "refused" => ~FirstIs(2)

LEMMA WalkSeenIsEnough ==
    ASSUME WalkTyped, WalkSeen
    PROVE  Walk!WalkSeesTheVolume
<1>1. image \in Seq(Walk!Range(image)) /\ \A volume \in Walk!Range(image) : Walk!IsVolume(volume)
  BY DEF WalkTyped, ImageIsSound
<1> DEFINE magic == {i \in DOMAIN image : image[i].magic > 0}
           volume == image[Walk!Min(magic)]
<1>2. magic = Walk!WithMagic
  BY DEF Walk!WithMagic
<1>3. ASSUME pc = "done"
      PROVE  /\ FirstIs(2)
             /\ IF volume.root = NoRoot THEN seen = << >>
                ELSE Walk!IsReadable(volume) /\ Walk!Range(seen) = Walk!Entries(volume)
  <2>1. CASE partition = 0
    BY <1>2, <1>3, <2>1 DEF WalkSeen, WalkTyped
  <2>2. CASE partition # 0
    <3>1. WalkProgress /\ frames = << >> /\ FirstIs(2) /\ volume = Found /\ Found.root # NoRoot
      BY <1>2, <1>3, <2>2 DEF WalkSeen, Found
    <3>2. Walk!IsReadable(Found) /\ Walk!Range(seen) = Walk!Entries(Found)
      BY <2>2, <3>1, AllIsSeen
    <3> QED
      BY <3>1, <3>2
  <2> QED
    BY <2>1, <2>2
<1>4. ASSUME pc = "refused", FirstIs(2)
      PROVE  volume.root # NoRoot /\ ~Walk!IsReadable(volume)
  <2>1. partition # 0 /\ volume = Found
    BY <1>2, <1>4 DEF WalkSeen, Found
  <2> QED
    BY <1>4, <2>1 DEF WalkSeen
<1>5. FirstIs(2) <=> magic # {} /\ volume.magic = 2
  BY <1>2 DEF FirstIs
<1> QED
  BY <1>3, <1>4, <1>5 DEF Walk!WalkSeesTheVolume

LEMMA StillProgress ==
    ASSUME UNCHANGED <<image, mode, skip_system_update, partition, frames, seen>>
    PROVE  WalkProgress' = WalkProgress
<1>1. UNCHANGED <<image, mode, skip_system_update, partition>>
  OBVIOUS
<1>2. /\ Found' = Found /\ Walk!Levels(Found)' = Walk!Levels(Found)
      /\ \A place : Walk!EntriesAt(Found, place)' = Walk!EntriesAt(Found, place)
      /\ \A r : Walk!Skipped(r)' = Walk!Skipped(r)
      /\ RootPlace(Found)' = RootPlace(Found)
  BY <1>1, SameTree
<1>3. Seen' = Seen
  BY DEF Seen
<1>4. \A place : Complete(place)' = Complete(place)
  BY <1>2, <1>3 DEF Complete
<1>5. \A k : RecordsAt(k)' = RecordsAt(k)
  BY <1>2 DEF RecordsAt
<1>6. FramesArePlaces' = FramesArePlaces
  BY <1>2 DEF FramesArePlaces, PlaceOf
<1>7. SeenAreEntries' = SeenAreEntries
  BY <1>2, <1>3 DEF SeenAreEntries
<1>8. PassedAreSeen' = PassedAreSeen
  BY DEF PassedAreSeen, RecordsAt, Found, Walk!TableOf, Walk!Unreadable, Walk!Skipped, EntryOf, Seen, Walk!Range
<1>9. PassedDiffer' = PassedDiffer
  BY DEF PassedDiffer, RecordsAt, Found, Walk!TableOf, Walk!Unreadable
<1>10. DirectoriesAreWalked' = DirectoriesAreWalked
  BY DEF DirectoriesAreWalked, Complete, PlaceBelow, Found, Walk!TableOf, Walk!Unreadable, Walk!HasDuplicates,
         Walk!EntriesAt, Walk!Skipped, Seen, Walk!Range, PlaceOf
<1>11. RootIsWalked' = RootIsWalked
  BY DEF RootIsWalked, Complete, RootPlace, Found, Walk!TableOf, Walk!Unreadable, Walk!HasDuplicates,
         Walk!EntriesAt, Walk!Skipped, Seen, Walk!Range
<1>12. SeenWerePassed' = SeenWerePassed
  BY DEF SeenWerePassed, RecordsAt, Found, Walk!TableOf, Walk!Unreadable, EntryOf, Seen, Walk!Range
<1>13. ParentsAreSeen' = ParentsAreSeen /\ FramesAreSeen' = FramesAreSeen
  BY <1>3 DEF ParentsAreSeen, FramesAreSeen
<1> QED
  BY <1>6, <1>7, <1>8, <1>9, <1>10, <1>11, <1>12, <1>13 DEF WalkProgress

LEMMA StillSeen ==
    ASSUME WalkSeen, UNCHANGED <<image, mode, skip_system_update, partition, frames, seen>>,
           \/ pc' = pc \/ pc' = "failed"
           \/ pc' = "extract" /\ pc = "walk"
    PROVE  WalkSeen'
<1>1. WalkProgress' = WalkProgress
  BY StillProgress
<1>2. /\ Found' = Found /\ (Walk!WithMagic)' = Walk!WithMagic
      /\ Walk!IsReadable(Found)' = Walk!IsReadable(Found)
  BY SameReadable
<1>3. FirstIs(2)' = FirstIs(2)
  BY <1>2 DEF FirstIs
<1>4. partition # 0 /\ pc' \in {"walk", "extract", "done"} => WalkProgress
  BY DEF WalkSeen
<1> QED
  BY <1>1, <1>2, <1>3, <1>4 DEF WalkSeen

LEMMA SeesMore ==
    ASSUME WalkSeen, partition # 0, UNCHANGED <<image, mode, skip_system_update, partition>>,
           pc' \in {"walk", "extract", "done"} => WalkProgress',
           pc' = "done" => frames' = << >>,
           pc' = "refused" => ~Walk!IsReadable(Found)
    PROVE  WalkSeen'
<1>1. /\ Found' = Found /\ (Walk!WithMagic)' = Walk!WithMagic
      /\ Walk!IsReadable(Found)' = Walk!IsReadable(Found)
  BY SameReadable
<1>2. FirstIs(2)' = FirstIs(2)
  BY <1>1 DEF FirstIs
<1> QED
  BY <1>1, <1>2 DEF WalkSeen

LEMMA EndingSeesAll ==
    ASSUME WalkTyped, WalkSeen, Walk!NoMagic \/ Walk!SecondMagicMissing \/ Walk!NoFiles
    PROVE  WalkSeen'
<1>1. pc = "open" /\ partition = 0 /\ UNCHANGED <<image, partition>>
  BY DEF Walk!NoMagic, Walk!SecondMagicMissing, Walk!NoFiles, Walk!End, Walk!inputs, WalkTyped
<1>2. (Walk!WithMagic)' = Walk!WithMagic /\ FirstIs(2)' = FirstIs(2)
  BY <1>1 DEF Walk!WithMagic, FirstIs
<1>3. CASE Walk!NoMagic \/ Walk!SecondMagicMissing
  <2>1. pc' = "refused" /\ ~FirstIs(2)
    BY <1>3 DEF Walk!NoMagic, Walk!SecondMagicMissing, Walk!End, FirstIs
  <2> QED
    BY <1>1, <1>2, <2>1 DEF WalkSeen
<1>4. CASE Walk!NoFiles
  <2>1. pc' = "done" /\ FirstIs(2) /\ image[Walk!Min(Walk!WithMagic)].root = NoRoot
    BY <1>4 DEF Walk!NoFiles, Walk!End, FirstIs
  <2> QED
    BY <1>1, <1>2, <2>1 DEF WalkSeen
<1> QED
  BY <1>3, <1>4

LEMMA OpeningSees ==
    ASSUME WalkTyped, WalkSeen, Walk!OpenVolume
    PROVE  WalkSeen'
<1>1. WalkProgress' /\ partition' # 0
  BY OpeningOne, OpeningKeepsTypes, TripAssumption
<1>2. /\ FirstIs(2) /\ image[Walk!Min(Walk!WithMagic)].root # NoRoot
      /\ partition' = Walk!Min(Walk!WithMagic) /\ image' = image /\ pc' = "walk"
  BY DEF Walk!OpenVolume, Walk!inputs, FirstIs
<1>3. (Walk!WithMagic)' = Walk!WithMagic /\ FirstIs(2)' = FirstIs(2) /\ Found' = image[partition']
  BY <1>2 DEF Walk!WithMagic, FirstIs, Found
<1> QED
  BY <1>1, <1>2, <1>3 DEF WalkSeen

LEMMA VisitingDirectorySees ==
    ASSUME WalkTyped, WalkSeen, Walk!VisitDirectory
    PROVE  WalkSeen'
<1>1. /\ pc = "walk" /\ Walk!Top.next <= Len(Walk!Records) /\ Walk!Record.is_directory
      /\ ~Walk!Skipped(Walk!Record) /\ ~Walk!IsDuplicate /\ Walk!See
      /\ UNCHANGED <<image, mode, skip_system_update, partition>>
  BY DEF Walk!VisitDirectory, Walk!HasNext, Walk!inputs
<1>2. frames # << >> /\ partition # 0
  BY <1>1, TopFrame DEF WalkTyped
<1>3. WalkProgress
  BY <1>1, <1>2 DEF WalkSeen
<1>4. CASE Walk!Record.size = 0 /\ frames' = Walk!Passed /\ pc' = pc
  <2>1. ~(Walk!Record.size > 0)
    BY <1>4
  <2>2. WalkProgress'
    BY <1>1, <1>2, <1>3, <1>4, <2>1, SeeingMore
  <2> QED
    BY <1>1, <1>2, <1>4, <2>2, SeesMore
<1>5. CASE /\ Walk!Record.size > 0 /\ ~Walk!TooDeep
           /\ frames' = Append(Walk!Passed, Walk!Frame(Walk!Record.start, Walk!Path)) /\ pc' = pc
  <2>1. Len(frames) <= MaxDepth
    BY <1>2, <1>5, TopFrame, TripAssumption DEF Walk!TooDeep, Walk!TreeWalkAssumption
  <2>2. WalkProgress'
    BY <1>1, <1>2, <1>3, <1>5, <2>1, SeeingMore
  <2> QED
    BY <1>1, <1>2, <1>5, <2>2, SeesMore
<1>6. CASE Walk!Record.size > 0 /\ Walk!TooDeep /\ pc' = "refused"
  <2>1. ~Walk!IsReadable(Found)
    BY <1>1, <1>2, <1>3, <1>6, TooDeepIsUnreadable
  <2> QED
    BY <1>1, <1>2, <1>6, <2>1, SeesMore
<1> QED
  BY <1>4, <1>5, <1>6 DEF Walk!VisitDirectory

LEMMA VisitingFileSees ==
    ASSUME WalkTyped, WalkSeen, Walk!VisitFile \/ Walk!CloseTarget
    PROVE  WalkSeen'
<1>1. /\ Walk!See /\ frames' = Walk!Passed
      /\ UNCHANGED <<image, mode, skip_system_update, partition>>
      /\ pc \in {"walk", "extract"} /\ pc' = "walk"
  BY DEF Walk!VisitFile, Walk!CloseTarget, Walk!HasNext, Walk!inputs
<1>2. frames # << >> /\ partition # 0
  BY <1>1, TopFrame DEF WalkTyped
<1>3. /\ Walk!Top.next <= Len(Walk!Records) /\ ~Walk!Record.is_directory
      /\ ~Walk!Skipped(Walk!Record) /\ (mode = "read" => ~Walk!IsDuplicate)
  <2>1. CASE Walk!VisitFile
    BY <2>1 DEF Walk!VisitFile, Walk!HasNext
  <2>2. CASE Walk!CloseTarget
    BY <2>2 DEF Walk!CloseTarget, WalkTyped, AtFile
  <2> QED
    BY <2>1, <2>2
<1>4. WalkProgress
  BY <1>1, <1>2 DEF WalkSeen
<1>5. WalkProgress'
  BY <1>1, <1>2, <1>3, <1>4, SeeingMore
<1> QED
  BY <1>1, <1>2, <1>5, SeesMore

LEMMA PassingSees ==
    ASSUME WalkTyped, WalkSeen, Walk!SkipDirectory \/ Walk!LeaveTable
    PROVE  WalkSeen'
<1>1. /\ pc = "walk" /\ UNCHANGED <<image, mode, skip_system_update, partition>>
      /\ pc' = "walk" \/ (pc' = "done" /\ frames' = << >>)
  BY DEF Walk!SkipDirectory, Walk!LeaveTable, Walk!HasNext, Walk!inputs
<1>2. frames # << >> /\ partition # 0
  BY <1>1, TopFrame DEF WalkTyped
<1>3. WalkProgress
  BY <1>1, <1>2 DEF WalkSeen
<1>4. WalkProgress'
  BY <1>3, SkippingOne, LeavingOne
<1> QED
  BY <1>1, <1>2, <1>4, SeesMore

LEMMA RefusingSees ==
    ASSUME WalkTyped, WalkSeen, Walk!DuplicateName \/ Walk!TableIsCorrupt
    PROVE  WalkSeen'
<1>1. /\ pc = "walk" /\ pc' = "refused" /\ UNCHANGED <<image, mode, skip_system_update, partition>>
  BY DEF Walk!DuplicateName, Walk!TableIsCorrupt, Walk!HasNext, Walk!End, Walk!inputs
<1>2. frames # << >> /\ partition # 0
  BY <1>1, TopFrame DEF WalkTyped
<1>3. WalkProgress
  BY <1>1, <1>2 DEF WalkSeen
<1>4. ~Walk!IsReadable(Found)
  <2>1. CASE Walk!DuplicateName
    BY <2>1, <1>2, <1>3, DuplicateIsUnreadable DEF Walk!DuplicateName, Walk!HasNext
  <2>2. CASE Walk!TableIsCorrupt
    BY <2>2, <1>2, <1>3, CorruptIsUnreadable DEF Walk!TableIsCorrupt
  <2> QED
    BY <2>1, <2>2
<1> QED
  BY <1>1, <1>2, <1>4, SeesMore

LEMMA WalkKeepsSeen ==
    ASSUME WalkTyped, WalkSeen, Walk!Step \/ Walk!Fail
    PROVE  WalkSeen'
<1>1. CASE Walk!NoMagic \/ Walk!SecondMagicMissing \/ Walk!NoFiles
  BY <1>1, EndingSeesAll
<1>2. CASE Walk!OpenVolume
  BY <1>2, OpeningSees
<1>3. CASE Walk!VisitDirectory
  BY <1>3, VisitingDirectorySees
<1>4. CASE Walk!VisitFile \/ Walk!CloseTarget
  BY <1>4, VisitingFileSees
<1>5. CASE Walk!SkipDirectory \/ Walk!LeaveTable
  BY <1>5, PassingSees
<1>6. CASE Walk!DuplicateName \/ Walk!TableIsCorrupt
  BY <1>6, RefusingSees
<1>7. CASE Walk!NameIsTaken \/ Walk!Fail \/ Walk!OpenTarget \/ Walk!ExtractChunk
  <2>1. /\ UNCHANGED <<image, mode, skip_system_update, partition, frames, seen>>
        /\ \/ pc' = pc \/ pc' = "failed"
           \/ pc' = "extract" /\ pc = "walk"
    BY <1>7 DEF Walk!NameIsTaken, Walk!Fail, Walk!OpenTarget, Walk!ExtractChunk, Walk!End,
                Walk!inputs, Walk!HasNext
  <2> QED
    BY <2>1, StillSeen
<1> QED
  BY <1>1, <1>2, <1>3, <1>4, <1>5, <1>6, <1>7 DEF Walk!Step

LEMMA TripStartsSeen == TripInit => WalkSeen
BY DEF TripInit, Walk!Begin, WalkSeen

LEMMA TripKeepsSeen == TripTyped /\ WalkSeen /\ [TripNext]_trip_vars => WalkSeen'
<1> SUFFICES ASSUME TripTyped, WalkSeen, [TripNext]_trip_vars PROVE WalkSeen'
  OBVIOUS
<1>1. WalkTyped
  BY DEF TripTyped
<1>2. CASE UNCHANGED walk_vars
  <2>1. UNCHANGED <<image, mode, skip_system_update, partition, frames, seen>> /\ pc' = pc
    BY <1>2 DEF walk_vars
  <2> QED
    BY <2>1, StillSeen
<1>3. CASE ReadBack \/ Rewrite
  <2>1. partition' = 0 /\ pc' = "open"
    BY <1>3 DEF ReadBack, Rewrite, TripTyped, WalkTyped
  <2> QED
    BY <2>1 DEF WalkSeen
<1>4. CASE Read \/ ReadFails
  BY <1>1, <1>4, WalkKeepsSeen DEF Read, ReadFails
<1> QED
  BY <1>2, <1>3, <1>4 DEF TripNext, trip_vars, Create, CreateFails, Change

\* Of the volumes in a file the first is read and no other; a walk that ends well
\* has seen everything in it, and one that refuses it has a reason in the image: a
\* table that cannot be read, a directory too deep or inside itself, a name twice.
THEOREM TripSeesTheVolume == TripSpec => []WalkSeesTheVolume
<1>1. TripInit => TripTyped /\ WalkSeen
  BY TripStartsTyped, TripStartsSeen
<1>2. TripTyped /\ WalkSeen /\ [TripNext]_trip_vars => TripTyped' /\ WalkSeen'
  BY TripKeepsTypes, TripKeepsSeen
<1>3. TripTyped /\ WalkSeen => WalkSeesTheVolume
  BY WalkSeenIsEnough DEF TripTyped, WalkSeesTheVolume
<1> QED
  BY <1>1, <1>2, <1>3, PTL DEF TripSpec

-------------------------------------------------------------------------------
(* The paths of a file system by breadth. *)

\* What is under a name in the directory at a place.
Under(fs, place, name) ==
    [path |-> Append(place.path, name), node |-> fs[place.node].entries[name]]

PlacesBelow(fs, place) ==
    IF fs[place.node].kind # "directory" THEN {}
    ELSE {Under(fs, place, name) : name \in DOMAIN fs[place.node].entries}

LevelUnder(f, fs, directory, n) ==
    IF n = 0 THEN {[path |-> << >>, node |-> directory]}
    ELSE UNION {PlacesBelow(fs, place) : place \in f[n - 1]}

PathLevels(fs, directory) ==
    CHOOSE f : f = [n \in 0..(MaxPath + 1) |-> LevelUnder(f, fs, directory, n)]

Reached(fs, directory) == UNION {PathLevels(fs, directory)[n] : n \in 1..(MaxPath + 1)}

LEMMA PathLevelsExist ==
    ASSUME NEW fs, NEW directory
    PROVE  PathLevels(fs, directory) =
               [n \in 0..(MaxPath + 1) |-> LevelUnder(PathLevels(fs, directory), fs, directory, n)]
<1> DEFINE P(k) == \E f : f = [n \in 0..k |-> LevelUnder(f, fs, directory, n)]
           S == {k \in Nat : P(k)}
<1>1. \A f, g : LevelUnder(f, fs, directory, 0) = LevelUnder(g, fs, directory, 0)
  BY DEF LevelUnder
<1>2. \A f, g : \A n : f[n - 1] = g[n - 1] =>
          LevelUnder(f, fs, directory, n) = LevelUnder(g, fs, directory, n)
  BY DEF LevelUnder
<1>3. P(0)
  <2> DEFINE f == [n \in 0..0 |-> LevelUnder(n, fs, directory, 0)]
  <2>1. f = [n \in 0..0 |-> LevelUnder(f, fs, directory, n)]
    <3>1. \A n \in 0..0 : LevelUnder(n, fs, directory, 0) = LevelUnder(f, fs, directory, n)
      BY <1>1
    <3> QED
      BY <3>1
  <2> QED
    BY <2>1
<1>4. ASSUME NEW k \in Nat, P(k)
      PROVE  P(k + 1)
  <2>1. PICK f : f = [n \in 0..k |-> LevelUnder(f, fs, directory, n)]
    BY <1>4
  <2> DEFINE g == [n \in 0..(k + 1) |->
                      IF n = k + 1 THEN LevelUnder(f, fs, directory, k + 1) ELSE f[n]]
  <2>2. \A n \in 0..k : g[n] = f[n]
    OBVIOUS
  <2>3. \A n \in 0..(k + 1) : g[n] = LevelUnder(g, fs, directory, n)
    <3> SUFFICES ASSUME NEW n \in 0..(k + 1)
                 PROVE  g[n] = LevelUnder(g, fs, directory, n)
      OBVIOUS
    <3> HIDE DEF g
    <3>1. n # 0 => f[n - 1] = g[n - 1]
      BY <2>2
    <3>2. LevelUnder(f, fs, directory, n) = LevelUnder(g, fs, directory, n)
      BY <3>1, <1>1, <1>2
    <3>3. g[n] = LevelUnder(f, fs, directory, n)
      BY <2>1 DEF g
    <3> QED
      BY <3>2, <3>3
  <2>4. g = [n \in 0..(k + 1) |-> LevelUnder(g, fs, directory, n)]
    BY <2>3
  <2> HIDE DEF g
  <2> QED
    BY <2>4
<1>5. Nat \subseteq S
  <2>1. 0 \in S
    BY <1>3
  <2>2. \A k \in Nat : k \in S => k + 1 \in S
    BY <1>4
  <2> HIDE DEF S, P
  <2> QED
    BY <2>1, <2>2, Counting
<1>6. P(MaxPath + 1)
  <2>1. MaxPath + 1 \in S
    BY <1>5, CreateAssumption
  <2> HIDE DEF P
  <2> QED
    BY <2>1 DEF S
<1> QED
  BY <1>6 DEF PathLevels

LEMMA PathLevelsAre ==
    ASSUME NEW fs, NEW directory
    PROVE  /\ PathLevels(fs, directory)[0] = {[path |-> << >>, node |-> directory]}
           /\ \A n \in 0..MaxPath : PathLevels(fs, directory)[n + 1] =
                 UNION {PlacesBelow(fs, place) : place \in PathLevels(fs, directory)[n]}
<1> DEFINE L == PathLevels(fs, directory)
<1>1. L = [n \in 0..(MaxPath + 1) |-> LevelUnder(L, fs, directory, n)]
  BY PathLevelsExist
<1>2. MaxPath \in Nat
  BY CreateAssumption
<1> HIDE DEF L
<1>3. \A n \in 0..(MaxPath + 1) : L[n] = LevelUnder(L, fs, directory, n)
  BY <1>1
<1>4. L[0] = {[path |-> << >>, node |-> directory]}
  <2>1. 0 \in 0..(MaxPath + 1)
    BY <1>2
  <2>2. L[0] = LevelUnder(L, fs, directory, 0)
    BY <1>3, <2>1
  <2> QED
    BY <2>2 DEF LevelUnder
<1>5. ASSUME NEW n \in 0..MaxPath
      PROVE  L[n + 1] = UNION {PlacesBelow(fs, place) : place \in L[n]}
  <2>1. n + 1 \in 0..(MaxPath + 1) /\ n + 1 # 0 /\ (n + 1) - 1 = n
    BY <1>2
  <2>2. L[n + 1] = LevelUnder(L, fs, directory, n + 1)
    BY <1>3, <2>1
  <2> QED
    BY <2>1, <2>2 DEF LevelUnder
<1> QED
  BY <1>4, <1>5 DEF L

LEMMA PathsInAre ==
    ASSUME NEW directory
    PROVE  PathsIn(directory) = Reached(files, directory)
BY DEF PathsIn, Reached, PathLevels, LevelUnder, PlacesBelow, Under

LEMMA PathBelow ==
    ASSUME NEW fs, NEW directory, NEW n \in 0..MaxPath, NEW f
    PROVE  f \in PathLevels(fs, directory)[n + 1] <=>
              \E above \in PathLevels(fs, directory)[n] :
                 /\ fs[above.node].kind = "directory"
                 /\ \E name \in DOMAIN fs[above.node].entries : f = Under(fs, above, name)
<1>1. PathLevels(fs, directory)[n + 1] =
          UNION {PlacesBelow(fs, above) : above \in PathLevels(fs, directory)[n]}
  BY PathLevelsAre
<1>2. \A above : f \in PlacesBelow(fs, above) <=>
          /\ fs[above.node].kind = "directory"
          /\ \E name \in DOMAIN fs[above.node].entries : f = Under(fs, above, name)
  BY DEF PlacesBelow
<1> QED
  BY <1>1, <1>2

IsFileSystem(fs) ==
    \A n \in DOMAIN fs : fs[n].kind = "directory" =>
       DOMAIN fs[n].entries \subseteq DOMAIN Key /\ Range(fs[n].entries) \subseteq DOMAIN fs

LEMMA PathsAreTyped ==
    ASSUME NEW fs, IsFileSystem(fs), NEW directory \in DOMAIN fs
    PROVE  \A n \in 0..(MaxPath + 1) : \A f \in PathLevels(fs, directory)[n] :
              /\ f = [path |-> f.path, node |-> f.node]
              /\ f.node \in DOMAIN fs /\ f.path \in Seq(DOMAIN Key) /\ Len(f.path) = n
<1> DEFINE L == PathLevels(fs, directory)
           T(f, n) == /\ f = [path |-> f.path, node |-> f.node]
                      /\ f.node \in DOMAIN fs /\ f.path \in Seq(DOMAIN Key) /\ Len(f.path) = n
           S == {n \in Nat : n <= MaxPath + 1 => \A f \in L[n] : T(f, n)}
<1>0. MaxPath \in Nat
  BY CreateAssumption
<1>1. 0 \in S
  <2>1. L[0] = {[path |-> << >>, node |-> directory]}
    BY PathLevelsAre
  <2>2. T([path |-> << >>, node |-> directory], 0)
    OBVIOUS
  <2> HIDE DEF L, T
  <2> QED
    BY <2>1, <2>2
<1>2. ASSUME NEW n \in Nat, n \in S
      PROVE  n + 1 \in S
  <2> SUFFICES ASSUME n + 1 <= MaxPath + 1, NEW f \in L[n + 1]
               PROVE  T(f, n + 1)
    OBVIOUS
  <2>1. n \in 0..MaxPath /\ \A above \in L[n] : T(above, n)
    BY <1>0, <1>2
  <2>2. PICK above \in L[n] :
            /\ fs[above.node].kind = "directory"
            /\ \E name \in DOMAIN fs[above.node].entries : f = Under(fs, above, name)
    BY <2>1, PathBelow
  <2>3. PICK name \in DOMAIN fs[above.node].entries : f = Under(fs, above, name)
    BY <2>2
  <2>4. T(above, n)
    BY <2>1
  <2>5. name \in DOMAIN Key /\ fs[above.node].entries[name] \in DOMAIN fs
    BY <2>2, <2>4 DEF IsFileSystem, Range
  <2>6. Append(above.path, name) \in Seq(DOMAIN Key) /\ Len(Append(above.path, name)) = n + 1
    BY <2>4, <2>5
  <2> QED
    BY <2>3, <2>5, <2>6 DEF Under
<1>3. Nat \subseteq S
  <2> HIDE DEF S
  <2> QED
    BY <1>1, <1>2, Counting
<1> QED
  BY <1>0, <1>3

\* What was appended last is known.
LEMMA SameAppended ==
    ASSUME NEW S, NEW s \in Seq(S), NEW t \in Seq(S), NEW x \in S, NEW y \in S,
           Append(s, x) = Append(t, y)
    PROVE  s = t /\ x = y
<1>1. Len(s) + 1 = Len(t) + 1 /\ Len(s) \in Nat /\ Len(t) \in Nat
  <2>1. Len(Append(s, x)) = Len(s) + 1 /\ Len(Append(t, y)) = Len(t) + 1
    OBVIOUS
  <2> QED
    BY <2>1
<1>2. Len(s) = Len(t)
  BY <1>1
<1>3. Append(s, x)[Len(s) + 1] = x /\ Append(t, y)[Len(t) + 1] = y
  OBVIOUS
<1>4. \A i \in 1..Len(s) : s[i] = t[i]
  <2>1. \A i \in 1..Len(s) : Append(s, x)[i] = s[i] /\ Append(t, y)[i] = t[i]
    BY <1>2
  <2> QED
    BY <2>1
<1> QED
  BY <1>2, <1>3, <1>4

\* A path leads to one node.
LEMMA PathsLeadSomewhere ==
    ASSUME NEW fs, IsFileSystem(fs), NEW directory \in DOMAIN fs
    PROVE  \A n \in 0..(MaxPath + 1) : \A f, g \in PathLevels(fs, directory)[n] :
              f.path = g.path => f = g
<1> DEFINE L == PathLevels(fs, directory)
           S == {n \in Nat : n <= MaxPath + 1 => \A f, g \in L[n] : f.path = g.path => f = g}
<1>0. MaxPath \in Nat
  BY CreateAssumption
<1>1. 0 \in S
  <2>1. L[0] = {[path |-> << >>, node |-> directory]}
    BY PathLevelsAre
  <2> HIDE DEF L
  <2> QED
    BY <2>1
<1>2. ASSUME NEW n \in Nat, n \in S
      PROVE  n + 1 \in S
  <2> SUFFICES ASSUME n + 1 <= MaxPath + 1, NEW f \in L[n + 1], NEW g \in L[n + 1],
                      f.path = g.path
               PROVE  f = g
    OBVIOUS
  <2>1. n \in 0..MaxPath /\ \A a, b \in L[n] : a.path = b.path => a = b
    BY <1>0, <1>2
  <2>2. PICK a \in L[n] :
            /\ fs[a.node].kind = "directory"
            /\ \E name \in DOMAIN fs[a.node].entries : f = Under(fs, a, name)
    BY <2>1, PathBelow
  <2>3. PICK x \in DOMAIN fs[a.node].entries : f = Under(fs, a, x)
    BY <2>2
  <2>4. PICK b \in L[n] :
            /\ fs[b.node].kind = "directory"
            /\ \E name \in DOMAIN fs[b.node].entries : g = Under(fs, b, name)
    BY <2>1, PathBelow
  <2>5. PICK y \in DOMAIN fs[b.node].entries : g = Under(fs, b, y)
    BY <2>4
  <2>6. /\ a.node \in DOMAIN fs /\ a.path \in Seq(DOMAIN Key)
        /\ b.node \in DOMAIN fs /\ b.path \in Seq(DOMAIN Key)
    BY <2>1, <1>0, PathsAreTyped
  <2>7. x \in DOMAIN Key /\ y \in DOMAIN Key
    BY <2>2, <2>4, <2>6 DEF IsFileSystem
  <2>8. Append(a.path, x) = Append(b.path, y)
    BY <2>3, <2>5 DEF Under
  <2>9. a.path = b.path /\ x = y
    <3>1. PICK s, t : s = a.path /\ t = b.path
      OBVIOUS
    <3>2. s \in Seq(DOMAIN Key) /\ t \in Seq(DOMAIN Key) /\ Append(s, x) = Append(t, y)
      BY <2>6, <2>8, <3>1
    <3>3. s = t /\ x = y
      BY <2>7, <3>2, SameAppended
    <3> QED
      BY <3>1, <3>3
  <2>10. a = b
    BY <2>1, <2>9
  <2> QED
    BY <2>3, <2>5, <2>9, <2>10
<1>3. Nat \subseteq S
  <2> HIDE DEF S
  <2> QED
    BY <1>1, <1>2, Counting
<1> QED
  BY <1>0, <1>3

LEMMA ReachedPaths ==
    ASSUME NEW fs, IsFileSystem(fs), NEW directory \in DOMAIN fs
    PROVE  /\ \A f \in Reached(fs, directory) :
                 /\ f = [path |-> f.path, node |-> f.node]
                 /\ f.node \in DOMAIN fs /\ f.path \in Seq(DOMAIN Key) \ {<< >>}
                 /\ Len(f.path) \in 1..(MaxPath + 1)
                 /\ f \in PathLevels(fs, directory)[Len(f.path)]
           /\ \A f, g \in Reached(fs, directory) : f.path = g.path => f = g
<1> DEFINE L == PathLevels(fs, directory)
<1>0. MaxPath \in Nat
  BY CreateAssumption
<1>1. \A n \in 0..(MaxPath + 1) : \A f \in L[n] :
          /\ f = [path |-> f.path, node |-> f.node]
          /\ f.node \in DOMAIN fs /\ f.path \in Seq(DOMAIN Key) /\ Len(f.path) = n
  BY PathsAreTyped
<1>2. \A n \in 0..(MaxPath + 1) : \A f, g \in L[n] : f.path = g.path => f = g
  BY PathsLeadSomewhere
<1>3. Reached(fs, directory) = UNION {L[n] : n \in 1..(MaxPath + 1)}
  BY DEF Reached
<1> HIDE DEF L
<1>4. ASSUME NEW f \in Reached(fs, directory)
      PROVE  /\ f = [path |-> f.path, node |-> f.node]
             /\ f.node \in DOMAIN fs /\ f.path \in Seq(DOMAIN Key) \ {<< >>}
             /\ Len(f.path) \in 1..(MaxPath + 1) /\ f \in L[Len(f.path)]
  <2>1. PICK n \in 1..(MaxPath + 1) : f \in L[n]
    BY <1>3
  <2>2. n \in 0..(MaxPath + 1) /\ n > 0
    BY <1>0
  <2>3. /\ f = [path |-> f.path, node |-> f.node]
        /\ f.node \in DOMAIN fs /\ f.path \in Seq(DOMAIN Key) /\ Len(f.path) = n
    BY <1>1, <2>1, <2>2
  <2>4. f.path # << >>
    BY <2>2, <2>3
  <2> QED
    BY <2>1, <2>3, <2>4
<1>5. ASSUME NEW f \in Reached(fs, directory), NEW g \in Reached(fs, directory), f.path = g.path
      PROVE  f = g
  <2>1. /\ Len(f.path) \in 0..(MaxPath + 1) /\ f \in L[Len(f.path)] /\ g \in L[Len(f.path)]
    BY <1>0, <1>4, <1>5
  <2> QED
    BY <1>2, <1>5, <2>1
<1> QED
  BY <1>4, <1>5 DEF L

\* Paths go through directories, so they stay as long as the directories do.
LEMMA SameDirectories ==
    ASSUME NEW fs, NEW gs, IsFileSystem(fs), NEW directory \in DOMAIN fs,
           \A n \in DOMAIN fs : \/ gs[n] = fs[n]
                                \/ fs[n].kind # "directory" /\ gs[n].kind # "directory"
    PROVE  Reached(gs, directory) = Reached(fs, directory)
<1> DEFINE L == PathLevels(fs, directory)
           M == PathLevels(gs, directory)
           S == {n \in Nat : n <= MaxPath + 1 => M[n] = L[n]}
<1>0. MaxPath \in Nat
  BY CreateAssumption
<1>1. 0 \in S
  BY PathLevelsAre
<1>2. ASSUME NEW n \in Nat, n \in S
      PROVE  n + 1 \in S
  <2> SUFFICES ASSUME n + 1 <= MaxPath + 1
               PROVE  M[n + 1] = L[n + 1]
    OBVIOUS
  <2>1. n \in 0..MaxPath /\ n \in 0..(MaxPath + 1) /\ M[n] = L[n]
    BY <1>0, <1>2
  <2>2. ASSUME NEW f \in L[n]
        PROVE  PlacesBelow(gs, f) = PlacesBelow(fs, f)
    <3>1. f.node \in DOMAIN fs
      BY <2>1, PathsAreTyped
    <3> QED
      BY <3>1 DEF PlacesBelow, Under
  <2>3. /\ L[n + 1] = UNION {PlacesBelow(fs, f) : f \in L[n]}
        /\ M[n + 1] = UNION {PlacesBelow(gs, f) : f \in M[n]}
    BY <2>1, PathLevelsAre
  <2> HIDE DEF L, M
  <2>4. {PlacesBelow(gs, f) : f \in L[n]} = {PlacesBelow(fs, f) : f \in L[n]}
    BY <2>2
  <2> QED
    BY <2>1, <2>3, <2>4
<1>3. Nat \subseteq S
  <2> HIDE DEF S
  <2> QED
    BY <1>1, <1>2, Counting
<1>4. \A n \in 1..(MaxPath + 1) : M[n] = L[n]
  BY <1>0, <1>3
<1> HIDE DEF L, M
<1>5. {M[n] : n \in 1..(MaxPath + 1)} = {L[n] : n \in 1..(MaxPath + 1)}
  BY <1>4
<1>6. Reached(fs, directory) = UNION {L[n] : n \in 1..(MaxPath + 1)}
  BY DEF Reached, L
<1>7. Reached(gs, directory) = UNION {M[n] : n \in 1..(MaxPath + 1)}
  BY DEF Reached, M
<1> QED
  BY <1>5, <1>6, <1>7

-------------------------------------------------------------------------------
(* What the scan has found. *)

Root == groups[group].directory

\* What goes into the tree, if its name does.
Included(node) ==
    \/ files[node].kind \in {"directory", "image"}
    \/ files[node].kind = "file" /\ files[node].size <= MaxSize

EntryFor(node) ==
    [kind    |-> Kind(node),
     size    |-> IF Kind(node) = "directory" THEN 0 ELSE SizeOf(node),
     content |-> IF Kind(node) = "directory" THEN 0 ELSE node]

ScanPlace(frame) == [path |-> frame.path, node |-> frame.node]

\* What is at a place is in the tree if it has to be.  (About images nothing is
\* said: an earlier one may be there or not.)
Handled(place) ==
    \/ files[place.node].kind = "image"
    \/ /\ files[place.node].kind # "dangling"
       /\ Len(place.path) <= MaxPath
       /\ Belongs(place.node) => place.path \in DOMAIN tree

AllHandled(place) ==
    \A name \in DOMAIN files[place.node].entries : Handled(Under(files, place, name))

NamesDiffer(made) ==
    \A p, q \in DOMAIN made :
       Parent(p) = Parent(q) /\ Key[p[Len(p)]] = Key[q[Len(q)]] => p = q

\* The directory n deep that is being scanned is one of those n deep.
ScanPlaces ==
    \A i \in 1..Len(scanning) : ScanPlace(scanning[i]) \in PathLevels(files, Root)[i - 1]

\* What is not left in a directory has been looked at, or is the next directory
\* that is being scanned.
ScanHandles ==
    \A i \in 1..Len(scanning) :
       \A name \in DOMAIN files[scanning[i].node].entries \ scanning[i].left :
          \/ Handled(Under(files, ScanPlace(scanning[i]), name))
          \/ /\ i < Len(scanning)
             /\ Under(files, ScanPlace(scanning[i]), name) = ScanPlace(scanning[i + 1])

TreeIsReached ==
    \A p \in DOMAIN tree :
       \E f \in Reached(files, Root) : f.path = p /\ Included(f.node) /\ tree[p] = EntryFor(f.node)

DirectoriesAreHandled ==
    \A f \in Reached(files, Root) :
       f.path \in DOMAIN tree /\ files[f.node].kind = "directory" => AllHandled(f)

ScanProgress ==
    step = "scan" =>
        /\ files[Root].kind = "directory"
        /\ ScanPlaces /\ ScanHandles
        /\ TreeIsReached /\ DirectoriesAreHandled /\ NamesDiffer(tree)

LEMMA TypedFileSystem == FilesTyped => IsFileSystem(files)
BY DEF FilesTyped, IsFileSystem

LEMMA RootIsThere ==
    ASSUME BatchInv, group <= Len(groups)
    PROVE  Root \in DOMAIN files /\ Output \in DOMAIN images
<1>1. groups \in Seq([directory : DOMAIN files, output : DOMAIN images]) /\ group \in 1..Len(groups)
  BY DEF BatchInv
<1>2. groups[group] \in [directory : DOMAIN files, output : DOMAIN images]
  BY <1>1, ElementOfSeq
<1> QED
  BY <1>2 DEF Root, Output

LEMMA HandledGrows ==
    ASSUME UNCHANGED files, DOMAIN tree \subseteq DOMAIN tree', NEW place, Handled(place)
    PROVE  Handled(place)'
BY DEF Handled, Belongs

\* Something new that fits is put into the tree.
LEMMA InsertingKeepsProgress ==
    ASSUME CreateTyped, Root \in DOMAIN files, UNCHANGED <<files, groups, group>>,
           TreeIsReached, DirectoriesAreHandled, NamesDiffer(tree),
           NEW f \in Reached(files, Root), Included(f.node), Fits(f.path),
           files[f.node].kind = "directory" => AllHandled(f),
           tree' = Inserted(f.path, f.node)
    PROVE  /\ TreeIsReached' /\ DirectoriesAreHandled' /\ NamesDiffer(tree')
           /\ DOMAIN tree' = DOMAIN tree \cup {f.path}
           /\ Belongs(f.node) => Handled(f)' \/ Len(f.path) > MaxPath \/ files[f.node].kind = "dangling"
<1>1. tree' = [p \in DOMAIN tree \cup {f.path} |-> IF p \in DOMAIN tree THEN tree[p] ELSE EntryFor(f.node)]
  BY DEF Inserted, EntryFor
<1>2. /\ DOMAIN tree' = DOMAIN tree \cup {f.path}
      /\ \A p \in DOMAIN tree : tree'[p] = tree[p]
      /\ f.path \notin DOMAIN tree => tree'[f.path] = EntryFor(f.node)
  BY <1>1
<1>3. Root' = Root /\ Reached(files, Root)' = Reached(files, Root)
  BY DEF Root, Reached
<1>4. IsFileSystem(files)
  BY TypedFileSystem DEF CreateTyped
<1>5. /\ f.path \in Seq(DOMAIN Key) \ {<< >>}
      /\ \A g \in Reached(files, Root) : g.path = f.path => g = f
  BY <1>4, ReachedPaths
<1>6. DOMAIN tree \subseteq Seq(DOMAIN Key) \ {<< >>}
  BY DEF CreateTyped, TreeTyped
<1>7. f.path \notin DOMAIN tree
  BY DEF Fits
<1>8. TreeIsReached'
  <2> SUFFICES ASSUME NEW p \in DOMAIN tree'
               PROVE  \E g \in Reached(files, Root) :
                         g.path = p /\ Included(g.node)' /\ tree'[p] = EntryFor(g.node)'
    BY <1>3 DEF TreeIsReached
  <2>1. \A node : Included(node)' = Included(node) /\ EntryFor(node)' = EntryFor(node)
    BY DEF Included, EntryFor, Kind, SizeOf
  <2>2. CASE p \in DOMAIN tree
    BY <1>2, <2>1, <2>2 DEF TreeIsReached
  <2>3. CASE p = f.path
    BY <1>2, <1>7, <2>1, <2>3
  <2> QED
    BY <1>2, <2>2, <2>3
<1>9. DirectoriesAreHandled'
  <2> SUFFICES ASSUME NEW g \in Reached(files, Root), g.path \in DOMAIN tree',
                      files[g.node].kind = "directory",
                      NEW name \in DOMAIN files[g.node].entries
               PROVE  Handled(Under(files, g, name))'
    BY <1>3 DEF DirectoriesAreHandled, AllHandled, Under
  <2>1. AllHandled(g)
    BY <1>2, <1>5 DEF DirectoriesAreHandled
  <2>2. Handled(Under(files, g, name))
    BY <2>1 DEF AllHandled
  <2> DEFINE u == Under(files, g, name)
  <2>3. u = Under(files, g, name)'
    BY DEF Under
  <2> QED
    BY <1>2, <2>2, <2>3 DEF Handled, Belongs
<1>10. NamesDiffer(tree')
  <2> SUFFICES ASSUME NEW p \in DOMAIN tree', NEW q \in DOMAIN tree',
                      Parent(p) = Parent(q), Key[p[Len(p)]] = Key[q[Len(q)]]
               PROVE  p = q
    BY DEF NamesDiffer
  <2>1. p \in Seq(DOMAIN Key) \ {<< >>} /\ q \in Seq(DOMAIN Key) \ {<< >>}
    BY <1>2, <1>5, <1>6
  <2>2. Len(p) = Len(q)
    <3>1. Len(Parent(p)) = Len(p) - 1 /\ Len(Parent(q)) = Len(q) - 1 /\ Len(p) \in Nat /\ Len(q) \in Nat
      BY <2>1, AllButLast DEF Parent
    <3> QED
      BY <3>1
  <2>3. \A r \in DOMAIN tree : Len(r) = Len(f.path) /\ Parent(r) = Parent(f.path) =>
           Key[r[Len(r)]] # Key[f.path[Len(f.path)]]
    BY DEF Fits
  <2>4. p \in DOMAIN tree /\ q \in DOMAIN tree => p = q
    BY DEF NamesDiffer
  <2>5. p = f.path /\ q \in DOMAIN tree => FALSE
    BY <2>2, <2>3
  <2>6. q = f.path /\ p \in DOMAIN tree => FALSE
    BY <2>2, <2>3
  <2> QED
    BY <1>2, <2>4, <2>5, <2>6
<1>11. Belongs(f.node) => Handled(f)' \/ Len(f.path) > MaxPath \/ files[f.node].kind = "dangling"
  <2>1. Len(f.path) \in Nat /\ MaxPath \in Nat
    BY <1>5, CreateAssumption
  <2> QED
    BY <1>2, <2>1 DEF Handled
<1> QED
  BY <1>2, <1>8, <1>9, <1>10, <1>11

\* What is known where an entry is looked at.
LEMMA PlaceLookedAt ==
    ASSUME CreateTyped, BatchInv, step = "scan", ScanProgress, NEW name \in Innermost.left
    PROVE  /\ ScanPlace(Innermost) \in PathLevels(files, Root)[Len(scanning) - 1]
           /\ Under(files, ScanPlace(Innermost), name) = [path |-> PathOf(name), node |-> NodeOf(name)]
           /\ [path |-> PathOf(name), node |-> NodeOf(name)] \in PathLevels(files, Root)[Len(scanning)]
           /\ [path |-> PathOf(name), node |-> NodeOf(name)] \in Reached(files, Root)
           /\ Len(scanning) \in 1..(MaxPath + 1)
           /\ name \in DOMAIN files[Innermost.node].entries
           /\ NodeOf(name) \in DOMAIN files
           /\ PathOf(name) \in Seq(DOMAIN Key) \ {<< >>} /\ Len(PathOf(name)) = Len(scanning)
           /\ Root \in DOMAIN files
<1>1. ScanTyped /\ FilesTyped
  BY DEF CreateTyped
<1>2. /\ name \in DOMAIN files[Innermost.node].entries
      /\ NodeOf(name) \in DOMAIN files
      /\ PathOf(name) \in Seq(DOMAIN Key) \ {<< >>} /\ Len(PathOf(name)) = Len(scanning)
  BY <1>1, EntryLookedAt
<1>3. /\ Len(scanning) \in Nat \ {0} /\ Innermost \in ScanFrames
  BY <1>1, InnermostDirectory
<1>4. MaxPath \in Nat /\ Len(scanning) <= MaxPath + 1
  BY <1>1, CreateAssumption DEF ScanTyped
<1>5. Len(scanning) \in 1..(MaxPath + 1) /\ Len(scanning) - 1 \in 0..MaxPath
      /\ (Len(scanning) - 1) + 1 = Len(scanning)
  BY <1>3, <1>4
<1>6. ScanPlace(Innermost) \in PathLevels(files, Root)[Len(scanning) - 1]
  BY <1>3 DEF ScanProgress, ScanPlaces, Innermost
<1>7. Under(files, ScanPlace(Innermost), name) = [path |-> PathOf(name), node |-> NodeOf(name)]
  BY DEF Under, ScanPlace, PathOf, NodeOf
<1>8. files[ScanPlace(Innermost).node].kind = "directory"
      /\ name \in DOMAIN files[ScanPlace(Innermost).node].entries
  BY <1>2, <1>3 DEF ScanFrames, ScanPlace
<1>9. [path |-> PathOf(name), node |-> NodeOf(name)] \in PathLevels(files, Root)[Len(scanning)]
  <2> DEFINE k == Len(scanning) - 1
  <2>1. k \in 0..MaxPath /\ k + 1 = Len(scanning)
    BY <1>5
  <2> HIDE DEF k
  <2>2. ScanPlace(Innermost) \in PathLevels(files, Root)[k]
    BY <1>6 DEF k
  <2>3. Under(files, ScanPlace(Innermost), name) \in PathLevels(files, Root)[k + 1]
    BY <1>8, <2>1, <2>2, PathBelow
  <2> QED
    BY <1>7, <2>1, <2>3
<1>10. [path |-> PathOf(name), node |-> NodeOf(name)] \in Reached(files, Root)
  BY <1>5, <1>9 DEF Reached
<1>11. Root \in DOMAIN files
  BY RootIsThere DEF BatchInv
<1> QED
  BY <1>2, <1>5, <1>6, <1>7, <1>9, <1>10, <1>11

\* A name has been looked at and, where it has to be, put into the tree.
LEMMA LookingGoesOn ==
    ASSUME CreateTyped, BatchInv, step = "scan", ScanProgress, NEW name \in Innermost.left,
           UNCHANGED <<files, groups, group>>, scanning' = LookedAt(name),
           DOMAIN tree \subseteq DOMAIN tree',
           NEW place, place = [path |-> PathOf(name), node |-> NodeOf(name)], Handled(place)'
    PROVE  files'[Root'].kind = "directory" /\ ScanPlaces' /\ ScanHandles'
<1>1. /\ Under(files, ScanPlace(Innermost), name) = [path |-> PathOf(name), node |-> NodeOf(name)]
      /\ Len(scanning) \in 1..(MaxPath + 1)
  BY PlaceLookedAt
<1>2. /\ Len(scanning') = Len(scanning)
      /\ \A i \in 1..(Len(scanning) - 1) : scanning'[i] = scanning[i]
      /\ scanning'[Len(scanning)] = [node |-> Innermost.node, path |-> Innermost.path,
                                     left |-> Innermost.left \ {name}]
  BY EntryLookedAt DEF CreateTyped
<1>3. Root' = Root
  BY DEF Root
<1>4. \A i \in 1..Len(scanning) :
         /\ ScanPlace(scanning'[i]) = ScanPlace(scanning[i]) /\ scanning'[i].node = scanning[i].node
         /\ i # Len(scanning) => scanning'[i].left = scanning[i].left
         /\ i = Len(scanning) => scanning'[i].left = scanning[i].left \ {name}
  <2> SUFFICES ASSUME NEW i \in 1..Len(scanning)
               PROVE /\ ScanPlace(scanning'[i]) = ScanPlace(scanning[i]) /\ scanning'[i].node = scanning[i].node
                     /\ i # Len(scanning) => scanning'[i].left = scanning[i].left
                     /\ i = Len(scanning) => scanning'[i].left = scanning[i].left \ {name}
    OBVIOUS
  <2>1. CASE i = Len(scanning)
    BY <1>2, <2>1 DEF Innermost, ScanPlace
  <2>2. CASE i # Len(scanning)
    <3>1. i \in 1..(Len(scanning) - 1)
      BY <1>1, <2>2
    <3> QED
      BY <1>2, <2>2, <3>1
  <2> QED
    BY <2>1, <2>2
<1>5. ScanPlaces'
  <2> SUFFICES ASSUME NEW i \in 1..Len(scanning')
               PROVE  ScanPlace(scanning'[i]) \in PathLevels(files, Root)[i - 1]
    BY <1>3 DEF ScanPlaces, ScanPlace
  <2> QED
    BY <1>2, <1>4 DEF ScanProgress, ScanPlaces
<1>6. ScanHandles'
  <2> SUFFICES ASSUME NEW i \in 1..Len(scanning'),
                      NEW x \in (DOMAIN files[scanning[i].node].entries \ scanning[i].left)'
               PROVE  \/ Handled(Under(files, ScanPlace(scanning[i]), x))'
                      \/ /\ i < Len(scanning')
                         /\ Under(files, ScanPlace(scanning[i]), x)' = ScanPlace(scanning[i + 1])'
    BY DEF ScanHandles
  <2>1. PICK u : u = Under(files, ScanPlace(scanning[i]), x)
    OBVIOUS
  <2>2. /\ i \in 1..Len(scanning)
        /\ ScanPlace(scanning[i])' = ScanPlace(scanning[i])
        /\ scanning'[i].node = scanning[i].node
    BY <1>2, <1>4 DEF ScanPlace
  <2>3. u = Under(files, ScanPlace(scanning[i]), x)'
    BY <2>1, <2>2 DEF Under
  <2>4. SUFFICES \/ Handled(u)'
                 \/ i < Len(scanning) /\ u = ScanPlace(scanning[i + 1])'
    BY <1>2, <2>3 DEF Handled, Belongs
  <2>5. CASE x \in DOMAIN files[scanning[i].node].entries \ scanning[i].left
    <3>1. \/ Handled(u)
          \/ i < Len(scanning) /\ u = ScanPlace(scanning[i + 1])
      BY <2>1, <2>2, <2>5 DEF ScanProgress, ScanHandles
    <3>2. CASE Handled(u)
      BY <3>2, HandledGrows
    <3>3. CASE i < Len(scanning) /\ u = ScanPlace(scanning[i + 1])
      <4>1. i + 1 \in 1..Len(scanning)
        BY <1>1, <2>2, <3>3
      <4>2. ScanPlace(scanning[i + 1])' = ScanPlace(scanning[i + 1])
        BY <1>4, <4>1 DEF ScanPlace
      <4> QED
        BY <3>3, <4>2
    <3> QED
      BY <3>1, <3>2, <3>3
  <2>6. CASE x = name /\ i = Len(scanning)
    <3>1. u = [path |-> PathOf(name), node |-> NodeOf(name)]
      BY <1>1, <2>1, <2>6 DEF Innermost
    <3> QED
      BY <3>1
  <2> QED
    BY <1>4, <2>2, <2>5, <2>6
<1> QED
  BY <1>3, <1>5, <1>6 DEF ScanProgress

LEMMA BeginningScanStarts ==
    ASSUME CreateTyped, BatchInv, BeginScan
    PROVE  ScanProgress'
<1>1. /\ step = "begin" /\ Kind(Root) = "directory"
      /\ scanning' = <<DirectoryFrame(Root, << >>)>> /\ tree' = << >>
      /\ UNCHANGED <<files, groups, group>>
  BY DEF BeginScan, Root
<1>2. files[Root].kind = "directory"
  BY <1>1 DEF Kind
<1>3. Root' = Root /\ files' = files
  BY <1>1 DEF Root
<1>4. /\ Len(scanning') = 1
      /\ scanning'[1].path = << >> /\ scanning'[1].node = Root
      /\ scanning'[1].left = Listed(Root)
  BY <1>1 DEF DirectoryFrame
<1>5. ScanPlaces'
  <2>1. PathLevels(files, Root)[0] = {[path |-> << >>, node |-> Root]}
    BY PathLevelsAre
  <2> SUFFICES ASSUME NEW i \in 1..Len(scanning')
               PROVE  ScanPlace(scanning[i])' \in PathLevels(files, Root)[i - 1]
    BY <1>3 DEF ScanPlaces
  <2>2. i = 1
    BY <1>4
  <2> QED
    BY <1>4, <2>1, <2>2 DEF ScanPlace
<1>6. ScanHandles'
  <2> SUFFICES ASSUME NEW i \in 1..Len(scanning'),
                      NEW x \in (DOMAIN files[scanning[i].node].entries \ scanning[i].left)'
               PROVE  Handled(Under(files, ScanPlace(scanning[i]), x))'
    BY DEF ScanHandles
  <2>1. i = 1
    BY <1>4
  <2>2. x \in DOMAIN files[Root].entries /\ x \notin Listed(Root)
    BY <1>1, <1>4, <2>1
  <2>3. files[files[Root].entries[x]].kind = "image"
    BY <2>2 DEF Listed
  <2> QED
    BY <1>1, <1>4, <2>1, <2>3 DEF Handled, Under, ScanPlace
<1>7. DOMAIN tree' = {}
  BY <1>1
<1>8. TreeIsReached' /\ DirectoriesAreHandled' /\ NamesDiffer(tree)'
  BY <1>7 DEF TreeIsReached, DirectoriesAreHandled, NamesDiffer
<1> QED
  BY <1>2, <1>3, <1>5, <1>6, <1>8 DEF ScanProgress

LEMMA IgnoringKeepsProgress ==
    ASSUME CreateTyped, BatchInv, ScanProgress, Ignore
    PROVE  ScanProgress'
<1>1. step = "scan" /\ UNCHANGED <<files, groups, group, tree>>
  BY DEF Ignore
<1>2. PICK name \in Innermost.left : Ignored(name) /\ scanning' = LookedAt(name)
  BY DEF Ignore
<1>3. PICK place : place = [path |-> PathOf(name), node |-> NodeOf(name)]
  OBVIOUS
<1>4. Handled(place)
  <2>1. files[NodeOf(name)].kind # "dangling" /\ Len(PathOf(name)) <= MaxPath
    BY <1>2 DEF Ignored, HasStatus, Kind
  <2>2. files[NodeOf(name)].kind = "image" \/ ~Belongs(NodeOf(name))
    <3>1. NodeOf(name) \in DOMAIN files
      BY <1>1, PlaceLookedAt
    <3>2. MaxSize \in Nat
      BY CreateAssumption
    <3>3. files[NodeOf(name)].kind = "file" => files[NodeOf(name)].size \in Nat
      BY <3>1 DEF CreateTyped, FilesTyped
    <3> QED
      BY <1>2, <3>2, <3>3 DEF Ignored, TooLarge, Kind, SizeOf, Belongs
  <2> QED
    BY <1>3, <2>1, <2>2 DEF Handled
<1>5. Handled(place)'
  BY <1>1, <1>4, HandledGrows
<1>6. files'[Root'].kind = "directory" /\ ScanPlaces' /\ ScanHandles'
  BY <1>1, <1>2, <1>3, <1>5, LookingGoesOn
<1>7. TreeIsReached' /\ DirectoriesAreHandled' /\ NamesDiffer(tree)'
  <2>1. TreeIsReached /\ DirectoriesAreHandled /\ NamesDiffer(tree)
    BY <1>1 DEF ScanProgress
  <2> QED
    BY <1>1, <2>1 DEF TreeIsReached, DirectoriesAreHandled, NamesDiffer, Root, Included, EntryFor,
                      Kind, SizeOf, AllHandled, Handled, Belongs
<1> QED
  BY <1>6, <1>7 DEF ScanProgress

LEMMA AddingFileKeepsProgress ==
    ASSUME CreateTyped, BatchInv, ScanProgress, AddFile
    PROVE  ScanProgress'
<1>1. step = "scan" /\ UNCHANGED <<files, groups, group>>
  BY DEF AddFile
<1>2. PICK name \in Innermost.left :
          /\ HasStatus(name) /\ Kind(NodeOf(name)) = "file" /\ ~TooLarge(name)
          /\ Fits(PathOf(name))
          /\ tree' = Inserted(PathOf(name), NodeOf(name))
          /\ scanning' = LookedAt(name)
  BY DEF AddFile
<1>3. PICK place : place = [path |-> PathOf(name), node |-> NodeOf(name)]
  OBVIOUS
<1>4. place \in Reached(files, Root) /\ NodeOf(name) \in DOMAIN files /\ Root \in DOMAIN files
  BY <1>1, <1>3, PlaceLookedAt
<1>5. Included(place.node) /\ files[place.node].kind # "directory"
      /\ files[place.node].kind # "dangling" /\ Len(place.path) <= MaxPath
  <2>1. MaxSize \in Nat /\ ImageSize \in Nat
    BY CreateAssumption
  <2>2. files[NodeOf(name)].kind = "file" => files[NodeOf(name)].size \in Nat
    BY <1>4 DEF CreateTyped, FilesTyped
  <2> QED
    BY <1>2, <1>3, <2>1, <2>2 DEF Included, HasStatus, TooLarge, Kind, SizeOf
<1>6. /\ TreeIsReached' /\ DirectoriesAreHandled' /\ NamesDiffer(tree')
      /\ DOMAIN tree' = DOMAIN tree \cup {place.path}
  <2>1. TreeIsReached /\ DirectoriesAreHandled /\ NamesDiffer(tree)
    BY <1>1 DEF ScanProgress
  <2>2. Fits(place.path) /\ tree' = Inserted(place.path, place.node)
    BY <1>2, <1>3
  <2> QED
    BY <1>1, <1>4, <1>5, <2>1, <2>2, InsertingKeepsProgress
<1>7. Handled(place)'
  BY <1>1, <1>5, <1>6 DEF Handled
<1>8. files'[Root'].kind = "directory" /\ ScanPlaces' /\ ScanHandles'
  BY <1>1, <1>2, <1>3, <1>6, <1>7, LookingGoesOn
<1> QED
  BY <1>6, <1>8 DEF ScanProgress, NamesDiffer

LEMMA EnteringKeepsProgress ==
    ASSUME CreateTyped, BatchInv, ScanProgress, EnterDirectory
    PROVE  ScanProgress'
<1>1. step = "scan" /\ UNCHANGED <<files, groups, group, tree>>
  BY DEF EnterDirectory
<1>2. PICK name \in Innermost.left :
          /\ HasStatus(name) /\ Kind(NodeOf(name)) = "directory"
          /\ scanning' = Append(LookedAt(name), DirectoryFrame(NodeOf(name), PathOf(name)))
  BY DEF EnterDirectory
<1>3. /\ Under(files, ScanPlace(Innermost), name) = [path |-> PathOf(name), node |-> NodeOf(name)]
      /\ [path |-> PathOf(name), node |-> NodeOf(name)] \in PathLevels(files, Root)[Len(scanning)]
      /\ Len(scanning) \in 1..(MaxPath + 1)
  BY <1>1, PlaceLookedAt
<1>4. /\ LookedAt(name) \in Seq(ScanFrames) /\ Len(LookedAt(name)) = Len(scanning)
      /\ \A i \in 1..(Len(scanning) - 1) : LookedAt(name)[i] = scanning[i]
      /\ LookedAt(name)[Len(scanning)] = [node |-> Innermost.node, path |-> Innermost.path,
                                          left |-> Innermost.left \ {name}]
  BY <1>1, EntryLookedAt DEF CreateTyped
<1>4a. PICK n : n = Len(scanning)
  OBVIOUS
<1> DEFINE new == DirectoryFrame(NodeOf(name), PathOf(name))
<1>5. ScanPlace(new) = [path |-> PathOf(name), node |-> NodeOf(name)] /\ new.node = NodeOf(name)
      /\ new.left = Listed(NodeOf(name))
  BY DEF ScanPlace, DirectoryFrame
<1> HIDE DEF new
<1>6. /\ n \in Nat \ {0} /\ Len(scanning') = n + 1 /\ scanning'[n + 1] = new
      /\ \A i \in 1..(n - 1) : scanning'[i] = scanning[i]
      /\ scanning'[n] = [node |-> Innermost.node, path |-> Innermost.path,
                         left |-> Innermost.left \ {name}]
  <2>1. scanning' = Append(LookedAt(name), new)
    BY <1>2 DEF new
  <2>2. n \in Nat \ {0} /\ Len(LookedAt(name)) = n
    BY <1>3, <1>4, <1>4a
  <2>3. /\ Len(scanning') = n + 1 /\ scanning'[n + 1] = new
        /\ \A i \in 1..n : scanning'[i] = LookedAt(name)[i]
    BY <1>4, <2>1, <2>2
  <2> QED
    BY <1>4, <1>4a, <2>2, <2>3
<1>7. \A i \in 1..n :
         /\ ScanPlace(scanning[i])' = ScanPlace(scanning[i]) /\ scanning'[i].node = scanning[i].node
         /\ i # n => scanning'[i].left = scanning[i].left
         /\ i = n => scanning'[i].left = scanning[i].left \ {name}
  <2> SUFFICES ASSUME NEW i \in 1..n
               PROVE /\ ScanPlace(scanning[i])' = ScanPlace(scanning[i]) /\ scanning'[i].node = scanning[i].node
                     /\ i # n => scanning'[i].left = scanning[i].left
                     /\ i = n => scanning'[i].left = scanning[i].left \ {name}
    OBVIOUS
  <2>1. CASE i = n
    BY <1>4a, <1>6, <2>1 DEF Innermost, ScanPlace
  <2>2. CASE i # n
    <3>1. i \in 1..(n - 1)
      BY <1>6, <2>2
    <3> QED
      BY <1>6, <2>2, <3>1 DEF ScanPlace
  <2> QED
    BY <2>1, <2>2
<1>8. Root' = Root /\ files' = files
  BY <1>1 DEF Root
<1>9. ScanPlace(scanning[n + 1])' = [path |-> PathOf(name), node |-> NodeOf(name)]
  BY <1>5, <1>6 DEF ScanPlace
<1>10. ScanPlaces'
  <2> SUFFICES ASSUME NEW i \in 1..Len(scanning')
               PROVE  ScanPlace(scanning[i])' \in PathLevels(files, Root)[i - 1]
    BY <1>8 DEF ScanPlaces
  <2>1. CASE i \in 1..n
    BY <1>1, <1>4a, <1>7, <2>1 DEF ScanProgress, ScanPlaces
  <2>2. CASE i = n + 1
    <3>1. i - 1 = n
      BY <1>6, <2>2
    <3> QED
      BY <1>3, <1>4a, <1>9, <2>2, <3>1
  <2> QED
    BY <1>6, <2>1, <2>2
<1>11. ScanHandles'
  <2> SUFFICES ASSUME NEW i \in 1..Len(scanning'),
                      NEW x \in (DOMAIN files[scanning[i].node].entries \ scanning[i].left)'
               PROVE  \/ Handled(Under(files, ScanPlace(scanning[i]), x))'
                      \/ /\ i < Len(scanning')
                         /\ Under(files, ScanPlace(scanning[i]), x)' = ScanPlace(scanning[i + 1])'
    BY DEF ScanHandles
  <2>1. PICK u : u = Under(files, ScanPlace(scanning[i]), x)'
    OBVIOUS
  <2>2. SUFFICES \/ Handled(u)'
                 \/ i < Len(scanning') /\ u = ScanPlace(scanning[i + 1])'
    BY <2>1 DEF Handled, Belongs
  <2>3. CASE i = n + 1
    <3>1. x \in DOMAIN files[NodeOf(name)].entries /\ x \notin Listed(NodeOf(name))
      BY <1>1, <1>5, <1>6, <2>3
    <3>2. files[files[NodeOf(name)].entries[x]].kind = "image"
      BY <3>1 DEF Listed
    <3> QED
      BY <1>1, <1>9, <2>1, <2>3, <3>2 DEF Handled, Under
  <2>4. CASE i \in 1..n /\ x \in DOMAIN files[scanning[i].node].entries \ scanning[i].left
    <3>1. u = Under(files, ScanPlace(scanning[i]), x)
      BY <1>1, <1>7, <2>1, <2>4 DEF Under
    <3>2. \/ Handled(u)
          \/ i < n /\ u = ScanPlace(scanning[i + 1])
      BY <1>1, <1>4a, <2>4, <3>1 DEF ScanProgress, ScanHandles
    <3>3. CASE Handled(u)
      BY <1>1, <3>3, HandledGrows
    <3>4. CASE i < n /\ u = ScanPlace(scanning[i + 1])
      <4>1. i + 1 \in 1..n /\ i < Len(scanning')
        BY <1>6, <2>4, <3>4
      <4> QED
        BY <1>7, <3>4, <4>1
    <3> QED
      BY <3>2, <3>3, <3>4
  <2>5. CASE i = n /\ x = name
    <3>1. u = [path |-> PathOf(name), node |-> NodeOf(name)]
      <4>1. ScanPlace(scanning[n])' = ScanPlace(Innermost)
        BY <1>4a, <1>6, <1>7 DEF Innermost
      <4> QED
        BY <1>1, <1>3, <2>1, <2>5, <4>1 DEF Under
    <3>2. n < Len(scanning')
      BY <1>6
    <3> QED
      BY <1>9, <2>5, <3>1, <3>2
  <2> QED
    BY <1>1, <1>6, <1>7, <2>3, <2>4, <2>5
<1>12. TreeIsReached' /\ DirectoriesAreHandled' /\ NamesDiffer(tree)'
  <2>1. TreeIsReached /\ DirectoriesAreHandled /\ NamesDiffer(tree)
    BY <1>1 DEF ScanProgress
  <2> QED
    BY <1>1, <2>1 DEF TreeIsReached, DirectoriesAreHandled, NamesDiffer, Root, Included, EntryFor,
                      Kind, SizeOf, AllHandled, Handled, Belongs
<1>13. files'[Root'].kind = "directory"
  BY <1>1, <1>8 DEF ScanProgress
<1> QED
  BY <1>10, <1>11, <1>12, <1>13 DEF ScanProgress

LEMMA AddingDirectoryKeepsProgress ==
    ASSUME CreateTyped, BatchInv, ScanProgress, AddDirectory
    PROVE  ScanProgress'
<1>1. /\ step = "scan" /\ UNCHANGED <<files, groups, group>>
      /\ Len(scanning) > 1 /\ Innermost.left = {} /\ Fits(Innermost.path)
      /\ tree' = Inserted(Innermost.path, Innermost.node)
      /\ scanning' = Outer
  BY DEF AddDirectory
<1>2. PICK n : n = Len(scanning)
  OBVIOUS
<1>3. /\ n \in Nat \ {0} /\ n > 1 /\ n <= MaxPath + 1 /\ MaxPath \in Nat
      /\ Innermost \in ScanFrames /\ Len(Innermost.path) = n - 1
      /\ Len(scanning') = n - 1 /\ \A i \in 1..(n - 1) : scanning'[i] = scanning[i]
  BY <1>1, <1>2, InnermostDirectory, CreateAssumption DEF CreateTyped, ScanTyped
<1>4. PICK place : place = ScanPlace(Innermost)
  OBVIOUS
<1>5. /\ place \in Reached(files, Root)
      /\ place.path = Innermost.path /\ place.node = Innermost.node
      /\ files[place.node].kind = "directory"
  <2>1. n \in 1..Len(scanning) /\ n - 1 \in 1..(MaxPath + 1)
    BY <1>2, <1>3
  <2>2. place \in PathLevels(files, Root)[n - 1]
    BY <1>1, <1>2, <1>4, <2>1 DEF ScanProgress, ScanPlaces, Innermost
  <2>3. place.path = Innermost.path /\ place.node = Innermost.node
    BY <1>4 DEF ScanPlace
  <2>4. files[Innermost.node].kind = "directory"
    BY <1>3 DEF ScanFrames
  <2> QED
    BY <2>1, <2>2, <2>3, <2>4 DEF Reached
<1>6. AllHandled(place)
  <2> SUFFICES ASSUME NEW name \in DOMAIN files[place.node].entries
               PROVE  Handled(Under(files, place, name))
    BY DEF AllHandled
  <2>1. /\ n \in 1..Len(scanning) /\ ~(n < Len(scanning)) /\ scanning[n] = Innermost
        /\ name \in DOMAIN files[scanning[n].node].entries \ scanning[n].left
    BY <1>1, <1>2, <1>3, <1>5 DEF Innermost
  <2> QED
    BY <1>1, <1>4, <2>1 DEF ScanProgress, ScanHandles
<1>7. Root \in DOMAIN files
  BY <1>1, RootIsThere DEF BatchInv
<1>8. /\ TreeIsReached' /\ DirectoriesAreHandled' /\ NamesDiffer(tree')
      /\ DOMAIN tree' = DOMAIN tree \cup {place.path}
  <2>1. TreeIsReached /\ DirectoriesAreHandled /\ NamesDiffer(tree)
    BY <1>1 DEF ScanProgress
  <2>2. Fits(place.path) /\ tree' = Inserted(place.path, place.node) /\ Included(place.node)
    BY <1>1, <1>5 DEF Included
  <2> QED
    BY <1>1, <1>5, <1>6, <1>7, <2>1, <2>2, InsertingKeepsProgress
<1>9. Handled(place)'
  BY <1>1, <1>3, <1>5, <1>8 DEF Handled
<1>10. Root' = Root /\ files' = files
  BY <1>1 DEF Root
<1>11. ScanPlaces'
  <2> SUFFICES ASSUME NEW i \in 1..Len(scanning')
               PROVE  ScanPlace(scanning[i])' \in PathLevels(files, Root)[i - 1]
    BY <1>10 DEF ScanPlaces
  <2>1. i \in 1..(n - 1) /\ i \in 1..Len(scanning)
    BY <1>2, <1>3
  <2>2. ScanPlace(scanning[i])' = ScanPlace(scanning[i])
    BY <1>3, <2>1 DEF ScanPlace
  <2> QED
    BY <1>1, <2>1, <2>2 DEF ScanProgress, ScanPlaces
<1>12. ScanHandles'
  <2> SUFFICES ASSUME NEW i \in 1..Len(scanning'),
                      NEW x \in (DOMAIN files[scanning[i].node].entries \ scanning[i].left)'
               PROVE  \/ Handled(Under(files, ScanPlace(scanning[i]), x))'
                      \/ /\ i < Len(scanning')
                         /\ Under(files, ScanPlace(scanning[i]), x)' = ScanPlace(scanning[i + 1])'
    BY DEF ScanHandles
  <2>1. i \in 1..(n - 1) /\ i \in 1..Len(scanning) /\ scanning'[i] = scanning[i]
    BY <1>2, <1>3
  <2>2. PICK u : u = Under(files, ScanPlace(scanning[i]), x)
    OBVIOUS
  <2>3. u = Under(files, ScanPlace(scanning[i]), x)'
    BY <1>1, <2>1, <2>2 DEF Under, ScanPlace
  <2>4. SUFFICES \/ Handled(u)'
                 \/ i < n - 1 /\ u = ScanPlace(scanning[i + 1])'
    BY <1>3, <2>3 DEF Handled, Belongs
  <2>5. \/ Handled(u)
        \/ i < Len(scanning) /\ u = ScanPlace(scanning[i + 1])
    BY <1>1, <2>1, <2>2 DEF ScanProgress, ScanHandles
  <2>6. CASE Handled(u)
    BY <1>1, <1>8, <2>6, HandledGrows
  <2>7. CASE i < n - 1 /\ u = ScanPlace(scanning[i + 1])
    <3>1. i + 1 \in 1..(n - 1)
      BY <1>3, <2>1, <2>7
    <3>2. ScanPlace(scanning[i + 1])' = ScanPlace(scanning[i + 1])
      BY <1>3, <3>1 DEF ScanPlace
    <3> QED
      BY <2>7, <3>2
  <2>8. CASE i = n - 1 /\ u = ScanPlace(scanning[i + 1])
    <3>1. i + 1 = n
      BY <1>3, <2>8
    <3>2. u = place
      BY <1>2, <1>4, <2>8, <3>1 DEF Innermost
    <3> QED
      BY <1>9, <3>2
  <2> QED
    BY <1>2, <1>3, <2>1, <2>5, <2>6, <2>7, <2>8
<1>13. files'[Root'].kind = "directory"
  BY <1>1, <1>10 DEF ScanProgress
<1> QED
  BY <1>8, <1>11, <1>12, <1>13 DEF ScanProgress, NamesDiffer

LEMMA CreateKeepsScanProgress ==
    ASSUME CreateInv, CreateTyped, ScanProgress, [CreateNext]_create_vars
    PROVE  ScanProgress'
<1>0. BatchInv
  BY DEF CreateInv
<1>1. CASE BeginScan
  BY <1>0, <1>1, BeginningScanStarts
<1>2. CASE Ignore
  BY <1>0, <1>2, IgnoringKeepsProgress
<1>3. CASE AddFile
  BY <1>0, <1>3, AddingFileKeepsProgress
<1>4. CASE EnterDirectory
  BY <1>0, <1>4, EnteringKeepsProgress
<1>5. CASE AddDirectory
  BY <1>0, <1>5, AddingDirectoryKeepsProgress
<1>6. CASE \/ NotADirectory \/ RefuseEntry \/ NoAccess \/ NoWorkingDirectory \/ ScanFails
           \/ OpenOutput \/ OpenFails \/ CopyFile \/ FileIsGone \/ FinishImage \/ WriteFails
           \/ RemoveOutput \/ RemoveFails \/ FileChanges
  <2>1. step' # "scan"
    BY <1>6 DEF NotADirectory, RefuseEntry, NoAccess, NoWorkingDirectory, ScanFails, OpenOutput,
                OpenFails, CopyFile, FileIsGone, FinishImage, WriteFails, RemoveOutput, RemoveFails,
                FileChanges, Refuse, Report
  <2> QED
    BY <2>1 DEF ScanProgress
<1>7. CASE UNCHANGED create_vars
  <2>1. UNCHANGED <<files, groups, group, step, scanning, tree>>
    BY <1>7 DEF create_vars
  <2> QED
    BY <2>1 DEF ScanProgress, ScanPlaces, ScanHandles, TreeIsReached, DirectoriesAreHandled, NamesDiffer,
                Root, Included, EntryFor, Kind, SizeOf, AllHandled, Handled, Belongs
<1> QED
  BY <1>1, <1>2, <1>3, <1>4, <1>5, <1>6, <1>7 DEF CreateNext, CreateStep, CreateFailure

-------------------------------------------------------------------------------
(* What an image holds of its directory. *)

AsFound(node) ==
    [kind    |-> files[node].kind,
     size    |-> IF files[node].kind = "file" THEN files[node].size ELSE 0,
     content |-> IF files[node].kind = "file" THEN node ELSE 0]

\* What is there as it was found, or not because it must not.
Shows(made, f) ==
    /\ files[f.node].kind # "dangling"
    /\ IF Belongs(f.node) THEN f.path \in DOMAIN made /\ made[f.path] = AsFound(f.node)
       ELSE f.path \notin DOMAIN made

\* An image that was found; the one at output was being written.
ShowsImage(made, f, output) ==
    f.path \in DOMAIN made =>
        /\ made[f.path].kind = "file" /\ made[f.path].content = f.node
        /\ made[f.path].size <= ImageSize
        /\ f.node # output => made[f.path].size = ImageSize

Holds(made, directory, output) ==
    /\ \A f \in Reached(files, directory) :
          files[f.node].kind # "image" /\ f.node \notin changed => Shows(made, f)
    /\ \A f \in Reached(files, directory) :
          files[f.node].kind = "image" => ShowsImage(made, f, output)
    /\ \A p \in DOMAIN made : \E f \in Reached(files, directory) :
          f.path = p /\ (made[p].kind = "directory" <=> files[f.node].kind = "directory")
    /\ \A p \in DOMAIN made :
          Parent(p) # << >> => Parent(p) \in DOMAIN made /\ made[Parent(p)].kind = "directory"
    /\ NamesDiffer(made)

WriteHolds == step = "write" => Holds(tree, Root, Output)

ImagesHold == \A g \in Made \cap Unreplaced : Holds(ImageOf(g).tree, groups[g].directory, groups[g].output)

LEMMA ParentOfAppended ==
    ASSUME NEW S, NEW s \in Seq(S), NEW x \in S
    PROVE  Parent(Append(s, x)) = s
<1>1. /\ Len(Append(s, x)) = Len(s) + 1 /\ Len(s) \in Nat
      /\ \A i \in 1..Len(s) : Append(s, x)[i] = s[i]
  OBVIOUS
<1>2. Parent(Append(s, x)) = SubSeq(Append(s, x), 1, Len(s))
  BY <1>1 DEF Parent
<1>3. /\ Len(SubSeq(Append(s, x), 1, Len(s))) = Len(s)
      /\ \A i \in 1..Len(s) : SubSeq(Append(s, x), 1, Len(s))[i] = s[i]
  BY <1>1
<1>4. SubSeq(Append(s, x), 1, Len(s)) \in Seq(S)
  BY <1>1
<1> QED
  BY <1>1, <1>2, <1>3, <1>4

\* When the scan is over everything has been handled, by breadth.
LEMMA EverythingIsHandled ==
    ASSUME CreateTyped, Root \in DOMAIN files, ScanProgress, step = "scan",
           Len(scanning) = 1, Innermost.left = {}
    PROVE  \A f \in Reached(files, Root) : Handled(f)
<1> DEFINE L == PathLevels(files, Root)
           S == {n \in Nat : n <= MaxPath => \A f \in L[n + 1] : Handled(f)}
<1>0. MaxPath \in Nat /\ IsFileSystem(files)
  BY CreateAssumption, TypedFileSystem DEF CreateTyped
<1>1. 0 \in S
  <2> SUFFICES ASSUME NEW f \in L[0 + 1]
               PROVE  Handled(f)
    OBVIOUS
  <2>1. PICK above \in L[0] : \E name \in DOMAIN files[above.node].entries : f = Under(files, above, name)
    <3>1. 0 \in 0..MaxPath
      BY <1>0
    <3> QED
      BY <3>1, PathBelow
  <2>2. PICK name \in DOMAIN files[above.node].entries : f = Under(files, above, name)
    BY <2>1
  <2>3. L[0] = {[path |-> << >>, node |-> Root]}
    BY PathLevelsAre
  <2>4. 1 \in 1..Len(scanning) /\ ~(1 < Len(scanning)) /\ 1 - 1 = 0 /\ scanning[1] = Innermost
    BY DEF Innermost
  <2>5. ScanPlace(scanning[1]) \in L[0]
    BY <2>4 DEF ScanProgress, ScanPlaces
  <2>6. ScanPlace(scanning[1]) = above /\ scanning[1].node = above.node
    BY <2>3, <2>5 DEF ScanPlace
  <2>7. name \in DOMAIN files[scanning[1].node].entries \ scanning[1].left
    BY <2>4, <2>6
  <2>8. Handled(Under(files, ScanPlace(scanning[1]), name))
    BY <2>4, <2>7 DEF ScanProgress, ScanHandles
  <2> QED
    BY <2>2, <2>6, <2>8
<1>2. ASSUME NEW n \in Nat, n \in S
      PROVE  n + 1 \in S
  <2> SUFFICES ASSUME n + 1 <= MaxPath, NEW f \in L[(n + 1) + 1]
               PROVE  Handled(f)
    OBVIOUS
  <2>1. n + 1 \in 0..MaxPath /\ n + 1 \in 1..(MaxPath + 1) /\ \A above \in L[n + 1] : Handled(above)
    BY <1>0, <1>2
  <2>2. PICK above \in L[n + 1] :
            /\ files[above.node].kind = "directory"
            /\ \E name \in DOMAIN files[above.node].entries : f = Under(files, above, name)
    BY <2>1, PathBelow
  <2>3. PICK name \in DOMAIN files[above.node].entries : f = Under(files, above, name)
    BY <2>2
  <2>4. above \in Reached(files, Root)
    BY <2>1 DEF Reached
  <2>5. above.path \in DOMAIN tree
    BY <2>1, <2>2 DEF Handled, Belongs
  <2>6. AllHandled(above)
    BY <2>2, <2>4, <2>5 DEF ScanProgress, DirectoriesAreHandled
  <2> QED
    BY <2>3, <2>6 DEF AllHandled
<1>3. Nat \subseteq S
  <2> HIDE DEF S
  <2> QED
    BY <1>1, <1>2, Counting
<1> SUFFICES ASSUME NEW f \in Reached(files, Root)
             PROVE  Handled(f)
  OBVIOUS
<1>4. PICK n \in 1..(MaxPath + 1) : f \in L[n]
  BY DEF Reached
<1>5. n - 1 \in Nat /\ n - 1 <= MaxPath /\ (n - 1) + 1 = n
  BY <1>0, <1>4
<1>6. n - 1 \in S
  BY <1>3, <1>5
<1> HIDE DEF L
<1>7. \A g \in L[(n - 1) + 1] : Handled(g)
  BY <1>5, <1>6
<1> QED
  BY <1>4, <1>5, <1>7

LEMMA ScanHoldsAll ==
    ASSUME CreateTyped, Root \in DOMAIN files, ScanProgress, step = "scan",
           Len(scanning) = 1, Innermost.left = {}
    PROVE  Holds(tree, Root, Output)
<1>0. MaxPath \in Nat /\ MaxSize \in Nat /\ IsFileSystem(files)
  BY CreateAssumption, TypedFileSystem DEF CreateTyped
<1>1. \A f \in Reached(files, Root) : Handled(f)
  BY EverythingIsHandled
<1>2. \A f, g \in Reached(files, Root) : f.path = g.path => f = g
  BY <1>0, ReachedPaths
<1>3. ASSUME NEW f \in Reached(files, Root), f.path \in DOMAIN tree
      PROVE  Included(f.node) /\ tree[f.path] = EntryFor(f.node)
  BY <1>2, <1>3 DEF ScanProgress, TreeIsReached
<1>4. ASSUME NEW f \in Reached(files, Root), files[f.node].kind # "image"
      PROVE  Shows(tree, f)
  <2>1. CASE Belongs(f.node)
    <3>1. f.path \in DOMAIN tree
      BY <1>1, <1>4, <2>1 DEF Handled
    <3>2. tree[f.path] = EntryFor(f.node)
      BY <1>3, <3>1
    <3>3. EntryFor(f.node) = AsFound(f.node)
      BY <1>4, <2>1 DEF EntryFor, AsFound, Belongs, Kind, SizeOf
    <3> QED
      BY <2>1, <3>1, <3>2, <3>3 DEF Shows, Belongs
  <2>2. CASE ~Belongs(f.node)
    <3>1. ~Included(f.node)
      BY <1>4, <2>2 DEF Included, Belongs
    <3>2. files[f.node].kind # "dangling"
      BY <1>1, <1>4 DEF Handled
    <3> QED
      BY <1>3, <2>2, <3>1, <3>2 DEF Shows
  <2> QED
    BY <2>1, <2>2
<1>8. ASSUME NEW f \in Reached(files, Root), files[f.node].kind = "image"
      PROVE  ShowsImage(tree, f, Output)
  <2>1. ImageSize \in Nat
    BY CreateAssumption
  <2>2. EntryFor(f.node) = [kind |-> "file", size |-> ImageSize, content |-> f.node]
    BY <1>8 DEF EntryFor, Kind, SizeOf
  <2> QED
    BY <1>3, <2>1, <2>2 DEF ShowsImage
<1>5. ASSUME NEW p \in DOMAIN tree
      PROVE  \E f \in Reached(files, Root) :
                f.path = p /\ (tree[p].kind = "directory" <=> files[f.node].kind = "directory")
  <2>1. PICK f \in Reached(files, Root) : f.path = p /\ tree[p] = EntryFor(f.node)
    BY DEF ScanProgress, TreeIsReached
  <2>2. tree[p].kind = Kind(f.node)
    BY <2>1 DEF EntryFor
  <2> QED
    BY <2>1, <2>2 DEF Kind
<1>6. ASSUME NEW p \in DOMAIN tree
      PROVE  Parent(p) # << >> => Parent(p) \in DOMAIN tree /\ tree[Parent(p)].kind = "directory"
  <2>1. PICK f \in Reached(files, Root) : f.path = p
    BY <1>5
  <2>2. Len(p) \in 1..(MaxPath + 1) /\ f \in PathLevels(files, Root)[Len(p)]
    BY <1>0, <2>1, ReachedPaths
  <2>3. PICK n : n = Len(p) - 1
    OBVIOUS
  <2>4. n \in 0..MaxPath /\ Len(p) = n + 1
    BY <1>0, <2>2, <2>3
  <2>5. PICK above \in PathLevels(files, Root)[n] :
            /\ files[above.node].kind = "directory"
            /\ \E name \in DOMAIN files[above.node].entries : f = Under(files, above, name)
    BY <2>2, <2>4, PathBelow
  <2>6. PICK name \in DOMAIN files[above.node].entries : f = Under(files, above, name)
    BY <2>5
  <2>7. above.node \in DOMAIN files /\ above.path \in Seq(DOMAIN Key) /\ Len(above.path) = n
    <3>1. n \in 0..(MaxPath + 1)
      BY <1>0, <2>4
    <3> QED
      BY <1>0, <3>1, PathsAreTyped
  <2>8. name \in DOMAIN Key
    BY <1>0, <2>5, <2>7 DEF IsFileSystem
  <2>9. p = Append(above.path, name)
    BY <2>1, <2>6 DEF Under
  <2>10. Parent(p) = above.path
    BY <2>7, <2>8, <2>9, ParentOfAppended
  <2>11. CASE n = 0
    <3>1. above.path = << >>
      BY <2>7, <2>11
    <3>2. Parent(p) = << >>
      BY <2>10, <3>1
    <3> QED
      BY <3>2
  <2>12. CASE n # 0
    <3>1. n \in 1..(MaxPath + 1)
      BY <1>0, <2>4, <2>12
    <3>2. above \in Reached(files, Root)
      BY <2>5, <3>1 DEF Reached
    <3>3. files[above.node].kind # "image" /\ Belongs(above.node)
      BY <2>5 DEF Belongs
    <3>4. above.path \in DOMAIN tree /\ tree[above.path] = AsFound(above.node)
      BY <1>4, <3>2, <3>3 DEF Shows
    <3> QED
      BY <2>5, <2>10, <3>4 DEF AsFound
  <2> QED
    BY <2>11, <2>12
<1>7. NamesDiffer(tree)
  BY DEF ScanProgress
<1> QED
  BY <1>4, <1>5, <1>6, <1>7, <1>8 DEF Holds

\* Files may change, directories do not.
LEMMA HoldsStays ==
    ASSUME IsFileSystem(files), NEW made, NEW directory \in DOMAIN files, NEW output,
           Holds(made, directory, output),
           \/ UNCHANGED <<files, changed>>
           \/ /\ changed \subseteq changed'
              /\ \A n \in DOMAIN files :
                    \/ files'[n] = files[n]
                    \/ /\ n \in changed'
                       /\ files[n].kind \notin {"directory", "image"}
                       /\ files'[n].kind \notin {"directory", "image"}
    PROVE  Holds(made, directory, output)'
<1>1. Reached(files, directory)' = Reached(files, directory)
  <2>1. CASE files' = files
    BY <2>1 DEF Reached
  <2>2. CASE \A n \in DOMAIN files : \/ files'[n] = files[n]
                                     \/ files[n].kind # "directory" /\ files'[n].kind # "directory"
    <3>1. PICK gs : gs = files'
      OBVIOUS
    <3>2. Reached(gs, directory) = Reached(files, directory)
      BY <2>2, <3>1, SameDirectories
    <3> QED
      BY <3>1, <3>2
  <2> QED
    BY <2>1, <2>2
<1>2. \A f \in Reached(files, directory) : f.node \in DOMAIN files
  BY ReachedPaths
<1>3. changed \subseteq changed'
  OBVIOUS
<1>4. \A n \in DOMAIN files : files'[n] = files[n] \/ n \in changed'
  OBVIOUS
<1>5. \A n \in DOMAIN files : files'[n].kind = "directory" <=> files[n].kind = "directory"
  OBVIOUS
<1>6. ASSUME NEW f \in Reached(files, directory), files'[f.node].kind # "image", f.node \notin changed'
      PROVE  Shows(made, f)'
  <2>1. files'[f.node] = files[f.node] /\ f.node \notin changed
    BY <1>2, <1>3, <1>4, <1>6
  <2>2. Belongs(f.node)' = Belongs(f.node) /\ AsFound(f.node)' = AsFound(f.node)
    BY <2>1 DEF Belongs, AsFound
  <2>3. Shows(made, f)
    BY <1>6, <2>1 DEF Holds
  <2> QED
    BY <2>1, <2>2, <2>3 DEF Shows
<1>9. ASSUME NEW f \in Reached(files, directory), files'[f.node].kind = "image"
      PROVE  ShowsImage(made, f, output)'
  <2>1. files[f.node].kind = "image"
    BY <1>2, <1>9
  <2>2. ShowsImage(made, f, output)
    BY <2>1 DEF Holds
  <2> QED
    BY <2>2 DEF ShowsImage
<1>7. ASSUME NEW p \in DOMAIN made
      PROVE  \E f \in Reached(files, directory) :
                f.path = p /\ (made[p].kind = "directory" <=> files'[f.node].kind = "directory")
  <2>1. PICK f \in Reached(files, directory) :
            f.path = p /\ (made[p].kind = "directory" <=> files[f.node].kind = "directory")
    BY DEF Holds
  <2> QED
    BY <1>2, <1>5, <2>1
<1>8. /\ \A p \in DOMAIN made :
            Parent(p) # << >> => Parent(p) \in DOMAIN made /\ made[Parent(p)].kind = "directory"
      /\ NamesDiffer(made)
  BY DEF Holds
<1> QED
  BY <1>1, <1>6, <1>7, <1>8, <1>9 DEF Holds

LEMMA CopyingKeepsHolds ==
    ASSUME CreateTyped, BatchInv, WriteHolds, CopyFile
    PROVE  WriteHolds'
<1>1. step = "write" /\ UNCHANGED <<files, groups, group, changed>>
  BY DEF CopyFile
<1>2. PICK path \in to_copy :
          /\ Kind(tree[path].content) = "file"
          /\ \E size \in Copies(path) : tree' = [tree EXCEPT ![path].size = size]
  BY DEF CopyFile
<1>3. PICK size \in Copies(path) : tree' = [tree EXCEPT ![path].size = size]
  BY <1>2
<1>4. Holds(tree, Root, Output)
  BY <1>1 DEF WriteHolds
<1>5. /\ tree \in [DOMAIN tree -> [kind : {"directory", "file"}, size : 0..MaxSize, content : {0} \cup DOMAIN files]]
      /\ path \in DOMAIN tree /\ tree[path].kind = "file"
  BY DEF CreateTyped, TreeTyped
<1>6. /\ DOMAIN tree' = DOMAIN tree
      /\ \A p \in DOMAIN tree : p # path => tree'[p] = tree[p]
      /\ tree'[path] = [kind |-> tree[path].kind, size |-> size, content |-> tree[path].content]
  <2>1. tree[path] \in [kind : {"directory", "file"}, size : 0..MaxSize, content : {0} \cup DOMAIN files]
    BY <1>5
  <2>2. tree[path] = [kind |-> tree[path].kind, size |-> tree[path].size, content |-> tree[path].content]
    BY <2>1
  <2>3. \A k, s, c : [[kind |-> k, size |-> s, content |-> c] EXCEPT !.size = size]
                        = [kind |-> k, size |-> size, content |-> c]
    OBVIOUS
  <2>4. tree' = [tree EXCEPT ![path] = [@ EXCEPT !.size = size]]
    BY <1>3
  <2>5. [tree[path] EXCEPT !.size = size]
           = [kind |-> tree[path].kind, size |-> size, content |-> tree[path].content]
    BY <2>2, <2>3
  <2>6. DOMAIN tree' = DOMAIN tree /\ tree'[path] = [tree[path] EXCEPT !.size = size]
        /\ \A p \in DOMAIN tree : p # path => tree'[p] = tree[p]
    BY <1>5, <2>4
  <2> QED
    BY <2>5, <2>6
<1>7. \A p \in DOMAIN tree : tree'[p].kind = tree[p].kind
  <2>1. tree'[path].kind = tree[path].kind
    BY <1>6
  <2> QED
    BY <1>6, <2>1
<1>8. Root \in DOMAIN files /\ Output \in DOMAIN images /\ files[Output].kind = "image"
  BY <1>1, RootIsThere DEF BatchInv
<1>9. Root' = Root /\ Reached(files, Root)' = Reached(files, Root)
  BY <1>1 DEF Root, Reached
<1>10. IsFileSystem(files)
  BY TypedFileSystem DEF CreateTyped
<1>11. ASSUME NEW f \in Reached(files, Root), files[f.node].kind # "image", f.node \notin changed
       PROVE  Shows(tree', f)
  <2>0. Shows(tree, f)
    BY <1>4, <1>11 DEF Holds
  <2>1. /\ files[f.node].kind # "dangling"
        /\ IF Belongs(f.node) THEN f.path \in DOMAIN tree /\ tree[f.path] = AsFound(f.node)
           ELSE f.path \notin DOMAIN tree
    BY <2>0 DEF Shows
  <2>2. CASE f.path # path
    BY <1>6, <2>1, <2>2 DEF Shows
  <2>3. CASE f.path = path
    <3>1. Belongs(f.node) /\ tree[path] = AsFound(f.node)
      BY <1>5, <2>1, <2>3
    <3>2. /\ tree[path].kind = files[f.node].kind /\ files[f.node].kind = "file"
          /\ tree[path].size = files[f.node].size /\ tree[path].content = f.node
      BY <1>5, <3>1 DEF AsFound
    <3>3. f.node # Output /\ SizeOf(f.node) = files[f.node].size /\ f.node \in DOMAIN files
      BY <1>8, <1>10, <1>11, <3>2, ReachedPaths DEF SizeOf
    <3>4. size \in {Min({files[f.node].size, files[f.node].size})}
      BY <3>2, <3>3 DEF Copies
    <3>5. files[f.node].size \in Nat
      BY <3>2, <3>3 DEF CreateTyped, FilesTyped
    <3>6. size = files[f.node].size
      <4>1. PICK n \in Int : n = files[f.node].size
        BY <3>5
      <4>2. Min({n, n}) \in {n, n}
        BY MinOfTwo
      <4> QED
        BY <3>4, <4>1, <4>2
    <3>7. tree'[path] = AsFound(f.node)
      BY <1>6, <3>2, <3>6 DEF AsFound
    <3> QED
      BY <1>5, <1>6, <2>1, <2>3, <3>1, <3>7 DEF Shows
  <2> QED
    BY <2>2, <2>3
<1>17. ASSUME NEW f \in Reached(files, Root), files[f.node].kind = "image"
       PROVE  ShowsImage(tree', f, Output)
  <2>1. ShowsImage(tree, f, Output) /\ ImageSize \in Nat
    BY <1>4, <1>17, CreateAssumption DEF Holds
  <2>2. CASE f.path # path
    BY <1>6, <2>1, <2>2 DEF ShowsImage
  <2>3. CASE f.path = path
    <3>1. /\ tree[path].kind = "file" /\ tree[path].content = f.node
          /\ tree[path].size <= ImageSize /\ tree[path].size \in Nat
          /\ f.node # Output => tree[path].size = ImageSize
      BY <1>5, <2>1, <2>3 DEF ShowsImage
    <3>2. CASE f.node = Output
      <4>1. size \in 0..tree[path].size
        BY <3>1, <3>2 DEF Copies
      <4> QED
        BY <1>6, <2>1, <2>3, <3>1, <3>2, <4>1 DEF ShowsImage
    <3>3. CASE f.node # Output
      <4>1. SizeOf(f.node) = ImageSize
        BY <1>17 DEF SizeOf
      <4>2. size \in {Min({ImageSize, ImageSize})}
        BY <3>1, <3>3, <4>1 DEF Copies
      <4>3. size = ImageSize
        <5>1. PICK n \in Int : n = ImageSize
          BY <2>1
        <5>2. Min({n, n}) \in {n, n}
          BY MinOfTwo
        <5> QED
          BY <4>2, <5>1, <5>2
      <4> QED
        BY <1>6, <2>1, <2>3, <3>1, <4>3 DEF ShowsImage
    <3> QED
      BY <3>2, <3>3
  <2> QED
    BY <2>2, <2>3
<1>12. ASSUME NEW p \in DOMAIN tree'
       PROVE  \E f \in Reached(files, Root) :
                 f.path = p /\ (tree'[p].kind = "directory" <=> files[f.node].kind = "directory")
  BY <1>4, <1>6, <1>7 DEF Holds
<1>13. ASSUME NEW p \in DOMAIN tree'
       PROVE  Parent(p) # << >> => Parent(p) \in DOMAIN tree' /\ tree'[Parent(p)].kind = "directory"
  BY <1>4, <1>6, <1>7 DEF Holds
<1>14. NamesDiffer(tree)'
  BY <1>4, <1>6 DEF Holds, NamesDiffer
<1>15. \A f : /\ Shows(tree, f)' <=> Shows(tree', f)
              /\ ShowsImage(tree, f, Output)' <=> ShowsImage(tree', f, Output)
  BY <1>1 DEF Shows, ShowsImage, Belongs, AsFound, Output
<1>16. Holds(tree, Root, Output)'
  BY <1>1, <1>9, <1>11, <1>12, <1>13, <1>14, <1>15, <1>17 DEF Holds
<1> QED
  BY <1>16 DEF WriteHolds

\* What any step does to the files.
LEMMA FilesStay ==
    ASSUME [CreateNext]_create_vars
    PROVE  /\ \/ UNCHANGED <<files, changed>>
              \/ /\ changed \subseteq changed'
                 /\ \A n \in DOMAIN files :
                       \/ files'[n] = files[n]
                       \/ /\ n \in changed'
                          /\ files[n].kind \notin {"directory", "image"}
                          /\ files'[n].kind \notin {"directory", "image"}
           /\ DOMAIN files \subseteq DOMAIN files'
<1>1. CASE FileChanges
  <2>1. PICK path \in to_copy :
            LET node == tree[path].content
            IN  /\ files[node].kind = "file"
                /\ changed' = changed \cup {node}
                /\ \E now \in [kind : {"file"}, size : 0..(MaxSize + 1)] \cup {[kind |-> "dangling"]} :
                      /\ now # files[node]
                      /\ files' = [files EXCEPT ![node] = now]
    BY <1>1 DEF FileChanges
  <2>2. PICK node : node = tree[path].content
    OBVIOUS
  <2>3. PICK now \in [kind : {"file"}, size : 0..(MaxSize + 1)] \cup {[kind |-> "dangling"]} :
            files' = [files EXCEPT ![node] = now]
    BY <2>1, <2>2
  <2>4. now.kind \notin {"directory", "image"}
    OBVIOUS
  <2>5. files[node].kind = "file" /\ changed' = changed \cup {node}
    BY <2>1, <2>2
  <2> QED
    BY <2>3, <2>4, <2>5
<1>2. CASE UNCHANGED <<files, changed>>
  BY <1>2
<1> QED
  BY <1>1, <1>2
     DEF CreateNext, CreateStep, CreateFailure, BeginScan, NotADirectory, Ignore, AddFile,
         EnterDirectory, AddDirectory, RefuseEntry, OpenOutput, CopyFile, FileIsGone,
         FinishImage, RemoveOutput, NoAccess, NoWorkingDirectory, ScanFails, OpenFails,
         WriteFails, RemoveFails, Refuse, create_vars

LEMMA CreateKeepsWriteHolds ==
    ASSUME CreateInv, CreateTyped, ScanProgress, WriteHolds, [CreateNext]_create_vars
    PROVE  WriteHolds'
<1>0. BatchInv /\ IsFileSystem(files)
  BY TypedFileSystem DEF CreateInv, CreateTyped
<1>1. CASE OpenOutput
  <2>1. /\ step = "scan" /\ Len(scanning) = 1 /\ Innermost.left = {}
        /\ UNCHANGED <<files, groups, group, tree, changed>>
    BY <1>1 DEF OpenOutput
  <2>2. Root \in DOMAIN files
    BY <1>0, <2>1, RootIsThere DEF BatchInv
  <2>3. Holds(tree, Root, Output)
    BY <2>1, <2>2, ScanHoldsAll
  <2>4. Root' = Root /\ Output' = Output
    BY <2>1 DEF Root, Output
  <2>5. Reached(files, Root)' = Reached(files, Root)
    BY <2>1, <2>4 DEF Reached
  <2>6. \A f : /\ Shows(tree, f)' <=> Shows(tree, f)
               /\ ShowsImage(tree, f, Output)' <=> ShowsImage(tree, f, Output)
    BY <2>1, <2>4 DEF Shows, ShowsImage, Belongs, AsFound
  <2>7. Holds(tree, Root, Output)'
    BY <2>1, <2>3, <2>5, <2>6 DEF Holds, NamesDiffer
  <2> QED
    BY <2>7 DEF WriteHolds
<1>2. CASE CopyFile
  BY <1>0, <1>2, CopyingKeepsHolds
<1>3. CASE FileChanges \/ UNCHANGED create_vars
  <2>1. UNCHANGED <<groups, group, tree, step>>
    BY <1>3 DEF FileChanges, create_vars
  <2>2. CASE step = "write"
    <3>1. /\ Root \in DOMAIN files /\ Holds(tree, Root, Output)
          /\ Root' = Root /\ Output' = Output
      BY <1>0, <2>1, <2>2, RootIsThere DEF BatchInv, WriteHolds, Root, Output
    <3>2. PICK made : made = tree
      OBVIOUS
    <3>3. PICK directory : directory = Root
      OBVIOUS
    <3>3a. PICK output : output = Output
      OBVIOUS
    <3>4. Holds(made, directory, output)'
      BY <1>0, <3>1, <3>2, <3>3, <3>3a, FilesStay, HoldsStays
    <3>5. made = tree' /\ directory = Root' /\ output = Output'
      BY <2>1, <3>1, <3>2, <3>3, <3>3a
    <3>6. Holds(tree, Root, Output)'
      BY <3>4, <3>5 DEF Holds, Shows, ShowsImage, NamesDiffer
    <3> QED
      BY <3>6 DEF WriteHolds
  <2> QED
    BY <2>1, <2>2 DEF WriteHolds
<1>4. CASE \/ BeginScan \/ NotADirectory \/ Ignore \/ AddFile \/ EnterDirectory \/ AddDirectory
           \/ RefuseEntry \/ NoAccess \/ NoWorkingDirectory \/ ScanFails
           \/ OpenFails \/ FileIsGone \/ FinishImage \/ WriteFails \/ RemoveOutput \/ RemoveFails
  <2>1. step' # "write"
    BY <1>4 DEF NotADirectory, RefuseEntry, NoAccess, NoWorkingDirectory, ScanFails, BeginScan,
                OpenFails, FileIsGone, FinishImage, WriteFails, RemoveOutput, RemoveFails,
                Ignore, AddFile, EnterDirectory, AddDirectory, Refuse, Report
  <2> QED
    BY <2>1 DEF WriteHolds
<1> QED
  BY <1>1, <1>2, <1>3, <1>4 DEF CreateNext, CreateStep, CreateFailure

LEMMA CreateKeepsImages ==
    ASSUME CreateInv, CreateTyped, WriteHolds, ImagesHold, [CreateNext]_create_vars
    PROVE  ImagesHold'
<1> SUFFICES ASSUME NEW g \in Made' \cap Unreplaced'
             PROVE  Holds(ImageOf(g).tree, groups[g].directory, groups[g].output)'
  BY DEF ImagesHold
<1>0. BatchInv /\ IsFileSystem(files)
  BY TypedFileSystem DEF CreateInv, CreateTyped
<1>1. /\ UNCHANGED groups
      /\ \/ g \in Made \cap Unreplaced /\ ImageOf(g)' = ImageOf(g)
         \/ FinishImage /\ g = group /\ g <= Len(groups) /\ ImageOf(g)' = Whole(tree)
  BY MadeOrStays
<1>2. PICK made : made = ImageOf(g)'.tree
  OBVIOUS
<1>3. PICK directory : directory = groups[g].directory
  OBVIOUS
<1>3a. PICK output : output = groups[g].output
  OBVIOUS
<1>4. directory \in DOMAIN files /\ Holds(made, directory, output)
  <2>1. CASE g \in Made \cap Unreplaced /\ ImageOf(g)' = ImageOf(g)
    <3>1. /\ groups \in Seq([directory : DOMAIN files, output : DOMAIN images])
          /\ results \in Seq(Result) /\ Len(results) = group - 1 /\ group \in 1..(Len(groups) + 1)
      BY <1>0 DEF BatchInv
    <3>2. g \in 1..Len(groups)
      BY <2>1, <3>1 DEF Made
    <3>3. groups[g] \in [directory : DOMAIN files, output : DOMAIN images]
      BY <3>1, <3>2, ElementOfSeq
    <3> QED
      BY <1>2, <1>3, <1>3a, <2>1, <3>3 DEF ImagesHold
  <2>2. CASE FinishImage /\ g = group /\ g <= Len(groups) /\ ImageOf(g)' = Whole(tree)
    <3>1. step = "write" /\ directory = Root /\ made = tree /\ output = Output
      BY <1>2, <1>3, <1>3a, <2>2 DEF FinishImage, Root, Output, Whole
    <3> QED
      BY <1>0, <2>2, <3>1, RootIsThere DEF WriteHolds
  <2> QED
    BY <1>1, <2>1, <2>2
<1>5. Holds(made, directory, output)'
  BY <1>0, <1>4, FilesStay, HoldsStays
<1>6. made = ImageOf(g)'.tree /\ directory = groups'[g].directory /\ output = groups'[g].output
  BY <1>1, <1>2, <1>3, <1>3a
<1> QED
  BY <1>5, <1>6 DEF Holds, Shows, ShowsImage, NamesDiffer

\* No scan has begun and no image has been made.
LEMMA HoldingStarts ==
    ASSUME CreateInit
    PROVE  ScanProgress /\ WriteHolds /\ ImagesHold
<1>1. step \in {"finished", "begin"} /\ results = << >>
  BY DEF CreateInit
<1>2. Made = {}
  BY <1>1 DEF Made
<1> QED
  BY <1>1, <1>2 DEF ScanProgress, WriteHolds, ImagesHold

LEMMA HoldingGoesOn ==
    ASSUME TripTyped, ScanProgress, WriteHolds, ImagesHold, [TripNext]_trip_vars
    PROVE  ScanProgress' /\ WriteHolds' /\ ImagesHold'
<1>1. CreateInv /\ CreateTyped /\ [CreateNext]_create_vars
  BY TripStepsCreate DEF TripTyped
<1> QED
  BY <1>1, CreateKeepsScanProgress, CreateKeepsWriteHolds, CreateKeepsImages

LEMMA HoldingIsEnough ==
    ASSUME CreateInv, CreateTyped, MadeAreWhole, ImagesHold
    PROVE  ImageHoldsTheSource
<1> SUFFICES ASSUME NEW g \in Made \cap Unreplaced
             PROVE
        LET made == ImageOf(g).tree
            found == PathsIn(groups[g].directory)
        IN  /\ ImageOf(g).state = "whole"
            /\ \A f \in found : files[f.node].kind # "image" /\ f.node \notin changed =>
                  /\ files[f.node].kind # "dangling"
                  /\ IF Belongs(f.node)
                     THEN f.path \in DOMAIN made /\
                          made[f.path] = [kind    |-> files[f.node].kind,
                                          size    |-> IF files[f.node].kind = "file"
                                                      THEN files[f.node].size ELSE 0,
                                          content |-> IF files[f.node].kind = "file"
                                                      THEN f.node ELSE 0]
                     ELSE f.path \notin DOMAIN made
            /\ \A f \in found : files[f.node].kind = "image" /\ f.path \in DOMAIN made =>
                  /\ made[f.path].kind = "file" /\ made[f.path].content = f.node
                  /\ made[f.path].size <= ImageSize
                  /\ f.node # groups[g].output => made[f.path].size = ImageSize
            /\ DOMAIN made \subseteq {f.path : f \in found}
            /\ \A p, q \in DOMAIN made :
                  Parent(p) = Parent(q) /\ Key[p[Len(p)]] = Key[q[Len(q)]] => p = q
  BY DEF ImageHoldsTheSource
<1> DEFINE made == ImageOf(g).tree
           found == PathsIn(groups[g].directory)
<1>1. ImageOf(g).state = "whole"
  BY DEF MadeAreWhole
<1>2. found = Reached(files, groups[g].directory)
  BY PathsInAre
<1>3. Holds(made, groups[g].directory, groups[g].output)
  BY DEF ImagesHold
<1>4. ASSUME NEW f \in found, files[f.node].kind # "image", f.node \notin changed
      PROVE  Shows(made, f)
  BY <1>2, <1>3, <1>4 DEF Holds
<1>7. ASSUME NEW f \in found, files[f.node].kind = "image"
      PROVE  ShowsImage(made, f, groups[g].output)
  BY <1>2, <1>3, <1>7 DEF Holds
<1>5. DOMAIN made \subseteq {f.path : f \in found}
  BY <1>2, <1>3 DEF Holds
<1>6. NamesDiffer(made)
  BY <1>3 DEF Holds
<1> QED
  BY <1>1, <1>4, <1>5, <1>6, <1>7 DEF Shows, ShowsImage, AsFound, NamesDiffer

\* An image that was made has in it what was in its directory, whatever links and
\* circles there are, what was too large and what changed meanwhile left aside.
THEOREM ImagesHoldTheSource == TripSpec => []ImageHoldsTheSource
<1>1. TripInit => TripTyped /\ ScanProgress /\ WriteHolds /\ ImagesHold
  BY TripStartsTyped, HoldingStarts DEF TripInit
<1>2. TripTyped /\ ScanProgress /\ WriteHolds /\ ImagesHold /\ [TripNext]_trip_vars =>
          TripTyped' /\ ScanProgress' /\ WriteHolds' /\ ImagesHold'
  BY TripKeepsTypes, HoldingGoesOn
<1>3. TripTyped /\ ImagesHold => ImageHoldsTheSource
  BY HoldingIsEnough DEF TripTyped
<1> QED
  BY <1>1, <1>2, <1>3, PTL DEF TripSpec

-------------------------------------------------------------------------------
(* Why an image that this program has written may be refused. *)

\* The entry of a path in the table of the directory it is in.
LEMMA WrittenEntry ==
    ASSUME NEW made, IsTreeOf(made), NEW place, place.path = place.sector,
           place.sector \in TablesOf(made), NEW e \in Walk!EntriesAt(WrittenVolume(made), place)
    PROVE  /\ e.path \in DOMAIN made /\ e.record = RecordOf(made, e.path)
           /\ Parent(e.path) = place.path
<1> DEFINE V == WrittenVolume(made)
<1>1. Walk!TableOf(V, place.sector).records = SetToSeq(RecordsIn(made, place.sector))
  BY DEF WrittenVolume, Walk!TableOf
<1>2. PICK r \in Walk!Range(Walk!TableOf(V, place.sector).records) :
          e = [path |-> Append(place.path, r.name), record |-> r]
  BY EntryAt
<1>3. r \in RecordsIn(made, place.sector)
  BY <1>1, <1>2, WrittenRecords
<1>4. PICK p \in EntriesOf(made, place.sector) : r = RecordOf(made, p)
  BY <1>3 DEF RecordsIn, ReadableEntries
<1>5. p \in DOMAIN made /\ Parent(p) = place.path /\ p \in Seq(DOMAIN Key) /\ p # << >>
  BY <1>4 DEF EntriesOf, IsTreeOf
<1>6. r.name = p[Len(p)]
  BY <1>4 DEF RecordOf
<1>7. Append(Parent(p), p[Len(p)]) = p
  BY <1>5 DEF Parent
<1> QED
  BY <1>2, <1>4, <1>5, <1>6, <1>7

\* The places of a written image are its directories.
LEMMA WrittenPlaces ==
    ASSUME NEW made, IsTreeOf(made)
    PROVE  \A n \in 0..(MaxDepth + 1) : \A place \in Walk!Levels(WrittenVolume(made))[n] :
              place.path = place.sector /\ place.sector \in TablesOf(made)
<1>a. PICK volume : volume = WrittenVolume(made)
  OBVIOUS
<1> DEFINE L == Walk!Levels(volume)
           S == {n \in Nat : n <= MaxDepth + 1 =>
                    \A place \in L[n] : place.path = place.sector /\ place.sector \in TablesOf(made)}
<1>0. MaxDepth \in Nat
  BY TripAssumption DEF Walk!TreeWalkAssumption
<1>1. 0 \in S
  <2>1. L[0] = {[path |-> << >>, sector |-> << >>]}
    BY <1>a, LevelsAre DEF RootPlace, WrittenVolume
  <2>2. << >> \in TablesOf(made)
    BY DEF TablesOf
  <2> HIDE DEF L
  <2> QED
    BY <2>1, <2>2
<1>2. ASSUME NEW n \in Nat, n \in S
      PROVE  n + 1 \in S
  <2> SUFFICES ASSUME n + 1 <= MaxDepth + 1, NEW place \in L[n + 1]
               PROVE  place.path = place.sector /\ place.sector \in TablesOf(made)
    OBVIOUS
  <2>1. n \in 0..MaxDepth /\ \A above \in L[n] : above.path = above.sector /\ above.sector \in TablesOf(made)
    BY <1>0, <1>2
  <2>2. PICK above \in L[n] : \E e \in Walk!EntriesAt(volume, above) :
            e.record.is_directory /\ e.record.size > 0 /\ place = PlaceBelow(e)
    BY <2>1, LevelBelow
  <2>3. PICK e \in Walk!EntriesAt(volume, above) :
            e.record.is_directory /\ e.record.size > 0 /\ place = PlaceBelow(e)
    BY <2>2
  <2>4. e.path \in DOMAIN made /\ e.record = RecordOf(made, e.path)
    BY <1>a, <2>1, WrittenEntry
  <2>5. made[e.path].kind = "directory" /\ e.record.start = e.path
    BY <2>3, <2>4 DEF RecordOf
  <2>6. e.path \in TablesOf(made)
    BY <2>4, <2>5 DEF TablesOf
  <2> QED
    BY <2>3, <2>5, <2>6 DEF PlaceBelow
<1>3. Nat \subseteq S
  <2> HIDE DEF S
  <2> QED
    BY <1>1, <1>2, Counting
<1> QED
  BY <1>a, <1>0, <1>3

\* A written image is unreadable for a name or for the depth of a directory.
LEMMA WhyUnreadable ==
    ASSUME NEW made, IsTreeOf(made), mode # "read", ~Walk!IsReadable(WrittenVolume(made))
    PROVE  \E p \in DOMAIN made :
              \/ p[Len(p)] \in Unusable
              \/ made[p].kind = "directory" /\ Len(p) = MaxDepth + 1
<1> DEFINE V == WrittenVolume(made)
<1>0. MaxDepth \in Nat /\ MaxDepth + 1 \in 0..(MaxDepth + 1)
  BY TripAssumption DEF Walk!TreeWalkAssumption
<1>1. Walk!IsVolume(V)
  BY WrittenImageIsSound
<1>2. CASE Walk!Levels(V)[MaxDepth + 1] # {}
  <2>1. PICK place \in Walk!Levels(V)[MaxDepth + 1] : TRUE
    BY <1>2
  <2>2. place.path \in TablesOf(made)
    BY <1>0, <2>1, WrittenPlaces
  <2>3. place.path \in Seq(DOMAIN Key) /\ Len(place.path) = MaxDepth + 1
    BY <1>0, <1>1, <2>1, LevelPaths
  <2>4. place.path # << >>
    BY <1>0, <2>3
  <2> QED
    BY <2>2, <2>3, <2>4 DEF TablesOf
<1>3. CASE \E place \in Walk!Places(V) : ~Walk!TableOf(V, place.sector).sound
  <2>1. PICK place \in Walk!Places(V) : ~Walk!TableOf(V, place.sector).sound
    BY <1>3
  <2>2. PICK n \in 0..(MaxDepth + 1) : place \in Walk!Levels(V)[n]
    BY PlacesAre
  <2>3. place.sector \in TablesOf(made)
    BY <2>2, WrittenPlaces
  <2>4. Walk!TableOf(V, place.sector).sound
            = \A p \in EntriesOf(made, place.sector) : p[Len(p)] \notin Unusable
    BY <2>3 DEF WrittenVolume, Walk!TableOf, HasUsableNames
  <2> QED
    BY <2>1, <2>4 DEF EntriesOf
<1> QED
  BY <1>2, <1>3 DEF Walk!IsReadable

-------------------------------------------------------------------------------
(* The tree that is read to be rewritten: no path is in it twice. *)

ParentsIn(made) ==
    \A p \in DOMAIN made :
       Parent(p) # << >> => Parent(p) \in DOMAIN made /\ made[Parent(p)].kind = "directory"

LEMMA EntryRecord ==
    ASSUME NEW volume, Walk!IsVolume(volume), NEW place, NEW e \in Walk!EntriesAt(volume, place)
    PROVE  /\ e.record \in Walk!Range(Walk!TableOf(volume, place.sector).records)
           /\ e.record \in RecordsOf(volume) /\ e.record.name \in DOMAIN Key
           /\ e = [path |-> Append(place.path, e.record.name), record |-> e.record]
           /\ ~Walk!Skipped(e.record)
<1>1. PICK r \in Walk!Range(Walk!TableOf(volume, place.sector).records) :
          ~Walk!Skipped(r) /\ e = [path |-> Append(place.path, r.name), record |-> r]
  BY EntryAt
<1>2. e.record = r
  BY <1>1
<1>3. r \in RecordsOf(volume)
  BY SomeTable
<1>4. r.name \in DOMAIN Key
  BY <1>3, RecordsAreTyped
<1> QED
  BY <1>1, <1>2, <1>3, <1>4

LEMMA NamesLeadToEntries ==
    ASSUME NEW volume, mode = "read", Walk!IsReadable(volume), NEW place \in Walk!Places(volume),
           Walk!IsVolume(volume), place.path \in Seq(DOMAIN Key),
           NEW d \in Walk!EntriesAt(volume, place), NEW e \in Walk!EntriesAt(volume, place),
           d.path = e.path
    PROVE  d = e
<1>1. PICK table : table = Walk!TableOf(volume, place.sector)
  OBVIOUS
<1>2. ~Walk!HasDuplicates(table)
  BY <1>1 DEF Walk!IsReadable
<1>3. PICK r \in Walk!Range(table.records) :
          d = [path |-> Append(place.path, r.name), record |-> r] /\ r.name \in DOMAIN Key
  BY <1>1, EntryRecord
<1>4. PICK q \in Walk!Range(table.records) :
          e = [path |-> Append(place.path, q.name), record |-> q] /\ q.name \in DOMAIN Key
  BY <1>1, EntryRecord
<1>6. Append(place.path, r.name) = Append(place.path, q.name)
  BY <1>3, <1>4
<1>7. r.name = q.name
  <2>1. PICK s : s = place.path
    OBVIOUS
  <2> QED
    BY <1>3, <1>4, <1>6, <2>1, SameAppended
<1>8. PICK i \in DOMAIN table.records : r = table.records[i]
  BY DEF Walk!Range
<1>9. PICK j \in DOMAIN table.records : q = table.records[j]
  BY DEF Walk!Range
<1>10. i = j
  BY <1>2, <1>7, <1>8, <1>9 DEF Walk!HasDuplicates
<1> QED
  BY <1>3, <1>4, <1>8, <1>9, <1>10

LEMMA OnePlaceEach ==
    ASSUME NEW volume, mode = "read", Walk!IsReadable(volume), Walk!IsVolume(volume)
    PROVE  \A n \in 0..(MaxDepth + 1) : \A a, b \in Walk!Levels(volume)[n] : a.path = b.path => a = b
<1> DEFINE L == Walk!Levels(volume)
           S == {n \in Nat : n <= MaxDepth + 1 => \A a, b \in L[n] : a.path = b.path => a = b}
<1>0. MaxDepth \in Nat
  BY TripAssumption DEF Walk!TreeWalkAssumption
<1>1. 0 \in S
  <2>1. L[0] = {RootPlace(volume)}
    BY LevelsAre
  <2> HIDE DEF L
  <2> QED
    BY <2>1
<1>2. ASSUME NEW n \in Nat, n \in S
      PROVE  n + 1 \in S
  <2> SUFFICES ASSUME n + 1 <= MaxDepth + 1, NEW a \in L[n + 1], NEW b \in L[n + 1], a.path = b.path
               PROVE  a = b
    OBVIOUS
  <2>1. n \in 0..MaxDepth /\ n \in 0..(MaxDepth + 1) /\ \A x, y \in L[n] : x.path = y.path => x = y
    BY <1>0, <1>2
  <2>2. PICK x \in L[n] : \E d \in Walk!EntriesAt(volume, x) :
            d.record.is_directory /\ d.record.size > 0 /\ a = PlaceBelow(d)
    BY <2>1, LevelBelow
  <2>3. PICK d \in Walk!EntriesAt(volume, x) : a = PlaceBelow(d)
    BY <2>2
  <2>4. PICK y \in L[n] : \E e \in Walk!EntriesAt(volume, y) :
            e.record.is_directory /\ e.record.size > 0 /\ b = PlaceBelow(e)
    BY <2>1, LevelBelow
  <2>5. PICK e \in Walk!EntriesAt(volume, y) : b = PlaceBelow(e)
    BY <2>4
  <2>6. x.path \in Seq(DOMAIN Key) /\ y.path \in Seq(DOMAIN Key)
    BY <2>1, LevelPaths
  <2>7. d.path = e.path
    BY <2>3, <2>5 DEF PlaceBelow
  <2>8. x.path = y.path
    <3>1. PICK s, t : s = x.path /\ t = y.path
      OBVIOUS
    <3>2. PICK m \in DOMAIN Key : d.path = Append(s, m)
      BY <3>1, EntryRecord
    <3>3. PICK o \in DOMAIN Key : e.path = Append(t, o)
      BY <3>1, EntryRecord
    <3>6. Append(s, m) = Append(t, o)
      BY <2>7, <3>2, <3>3
    <3>7. s \in Seq(DOMAIN Key) /\ t \in Seq(DOMAIN Key)
      BY <2>6, <3>1
    <3>8. s = t
      BY <3>6, <3>7, SameAppended
    <3> QED
      BY <3>1, <3>8
  <2>9. x = y
    BY <2>1, <2>8
  <2>10. x \in Walk!Places(volume)
    BY <2>1, PlacesAre
  <2>11. d = e
    BY <2>6, <2>7, <2>9, <2>10, NamesLeadToEntries
  <2> QED
    BY <2>3, <2>5, <2>11
<1>3. Nat \subseteq S
  <2> HIDE DEF S
  <2> QED
    BY <1>1, <1>2, Counting
<1> QED
  BY <1>0, <1>3

\* Every entry is in a directory that is deep enough down.
LEMMA EntryIn ==
    ASSUME NEW volume, Walk!IsReadable(volume), Walk!IsVolume(volume), NEW e \in Walk!Entries(volume)
    PROVE  \E n \in 0..MaxDepth : \E place \in Walk!Levels(volume)[n] : \E name \in DOMAIN Key :
              /\ place \in Walk!Places(volume) /\ e \in Walk!EntriesAt(volume, place)
              /\ place.path \in Seq(DOMAIN Key) /\ Len(place.path) = n
              /\ e.path = Append(place.path, name) /\ e.record.name = name
              /\ Parent(e.path) = place.path
<1>0. MaxDepth \in Nat /\ \A n \in 0..(MaxDepth + 1) : n \in 0..MaxDepth \/ n = MaxDepth + 1
  BY TripAssumption DEF Walk!TreeWalkAssumption
<1>1. PICK place \in Walk!Places(volume) : e \in Walk!EntriesAt(volume, place)
  BY DEF Walk!Entries
<1>2. PICK n \in 0..MaxDepth : place \in Walk!Levels(volume)[n]
  BY <1>0, PlacesAre DEF Walk!IsReadable
<1>3. n \in 0..(MaxDepth + 1)
  BY <1>0
<1>4. place.path \in Seq(DOMAIN Key) /\ Len(place.path) = n
  BY <1>2, <1>3, LevelPaths
<1>5. PICK name \in DOMAIN Key : name = e.record.name /\ e.path = Append(place.path, name)
  BY <1>1, EntryRecord
<1>6. PICK s : s = place.path
  OBVIOUS
<1>7. s \in Seq(DOMAIN Key)
  BY <1>4, <1>6
<1>8. Parent(Append(s, name)) = s
  BY <1>7, ParentOfAppended
<1>9. /\ e.path = Append(place.path, name) /\ e.record.name = name
      /\ Parent(e.path) = place.path
  BY <1>5, <1>6, <1>8
<1> QED
  BY <1>1, <1>2, <1>4, <1>7, <1>9

LEMMA OneEntryEach ==
    ASSUME NEW volume, mode = "read", Walk!IsReadable(volume), Walk!IsVolume(volume),
           NEW d \in Walk!Entries(volume), NEW e \in Walk!Entries(volume), d.path = e.path
    PROVE  d = e
<1>0. MaxDepth \in Nat
  BY TripAssumption DEF Walk!TreeWalkAssumption
<1>1a. PICK n \in 0..MaxDepth : \E a \in Walk!Levels(volume)[n] :
          /\ a \in Walk!Places(volume) /\ d \in Walk!EntriesAt(volume, a)
          /\ a.path \in Seq(DOMAIN Key) /\ Len(a.path) = n /\ Parent(d.path) = a.path
  BY EntryIn
<1>1. PICK a \in Walk!Levels(volume)[n] :
          /\ a \in Walk!Places(volume) /\ d \in Walk!EntriesAt(volume, a)
          /\ a.path \in Seq(DOMAIN Key) /\ Len(a.path) = n /\ Parent(d.path) = a.path
  BY <1>1a
<1>2a. PICK m \in 0..MaxDepth : \E b \in Walk!Levels(volume)[m] :
          /\ b \in Walk!Places(volume) /\ e \in Walk!EntriesAt(volume, b)
          /\ b.path \in Seq(DOMAIN Key) /\ Len(b.path) = m /\ Parent(e.path) = b.path
  BY EntryIn
<1>2. PICK b \in Walk!Levels(volume)[m] :
          /\ b \in Walk!Places(volume) /\ e \in Walk!EntriesAt(volume, b)
          /\ b.path \in Seq(DOMAIN Key) /\ Len(b.path) = m /\ Parent(e.path) = b.path
  BY <1>2a
<1>3. a.path = b.path /\ m = n
  BY <1>1, <1>2
<1>4. a = b
  BY <1>0, <1>1, <1>2, <1>3, OnePlaceEach
<1> QED
  BY <1>1, <1>2, <1>4, NamesLeadToEntries

LEMMA TreeReadHasParents ==
    ASSUME TripTyped, WalkSeen, mode = "read", pc = "done", partition # 0
    PROVE  ParentsIn(TreeRead)
<1>0. MaxDepth \in Nat /\ WalkTyped /\ WalkProgress /\ frames = << >>
  BY TripAssumption DEF Walk!TreeWalkAssumption, TripTyped, WalkSeen
<1>1. PICK volume : volume = Found
  OBVIOUS
<1>2. Walk!IsReadable(volume) /\ Walk!Range(seen) = Walk!Entries(volume) /\ Walk!IsVolume(volume)
  BY <1>0, <1>1, AllIsSeen, FoundIsVolume
<1>3. Range(seen) = Walk!Entries(volume) /\ DOMAIN TreeRead = {e.path : e \in Walk!Entries(volume)}
  BY <1>2 DEF TreeRead, Walk!Range, Range
<1> SUFFICES ASSUME NEW p \in DOMAIN TreeRead, Parent(p) # << >>
             PROVE  Parent(p) \in DOMAIN TreeRead /\ TreeRead[Parent(p)].kind = "directory"
  BY DEF ParentsIn
<1>4. PICK e \in Walk!Entries(volume) : e.path = p
  BY <1>3
<1>5a. PICK n \in 0..MaxDepth : \E place \in Walk!Levels(volume)[n] :
          place.path \in Seq(DOMAIN Key) /\ Len(place.path) = n /\ Parent(p) = place.path
  BY <1>2, <1>4, EntryIn
<1>5. PICK place \in Walk!Levels(volume)[n] :
          place.path \in Seq(DOMAIN Key) /\ Len(place.path) = n /\ Parent(p) = place.path
  BY <1>5a
<1>6. PICK k : k = n - 1
  OBVIOUS
<1>7. k \in 0..MaxDepth /\ k \in 0..(MaxDepth + 1) /\ n = k + 1
  BY <1>0, <1>5, <1>6
<1>8. PICK above \in Walk!Levels(volume)[k] : \E d \in Walk!EntriesAt(volume, above) :
          d.record.is_directory /\ d.record.size > 0 /\ place = PlaceBelow(d)
  BY <1>5, <1>7, LevelBelow
<1>9. PICK d \in Walk!EntriesAt(volume, above) : d.record.is_directory /\ place = PlaceBelow(d)
  BY <1>8
<1>10. d \in Walk!Entries(volume) /\ d.path = Parent(p)
  BY <1>5, <1>7, <1>8, <1>9, PlacesAre DEF Walk!Entries, PlaceBelow
<1>11. (CHOOSE s \in Range(seen) : s.path = d.path) = d
  BY <1>2, <1>3, <1>10, OneEntryEach
<1>12. d.path \in DOMAIN TreeRead
  BY <1>3, <1>10
<1>13. TreeRead[d.path].kind = "directory"
  BY <1>9, <1>11, <1>12 DEF TreeRead
<1> QED
  BY <1>10, <1>12, <1>13

\* What could be read to be rewritten.
WasReadable(made) ==
    /\ IsTreeOf(made) /\ ParentsIn(made)
    /\ \A p \in DOMAIN made : p[Len(p)] \notin Unusable /\ Len(p) <= MaxDepth + 1

\* Where the image comes from that is read.
ImageIsOf ==
    /\ mode = "read" => image \in ForeignImages
    /\ origin # 0 => /\ mode # "read"
                     /\ origin \in Made \cap Unreplaced
                     /\ image = WrittenImage(ImageOf(origin).tree)
    /\ rewritten # NoTree => /\ mode # "read"
                             /\ WasReadable(rewritten)
                             /\ image = WrittenImage(rewritten)

\* An image that was written is refused only when it is unreadable.
LEMMA RefusedIsUnreadable ==
    ASSUME WalkSeen, pc = "refused", NEW made, image = WrittenImage(made)
    PROVE  ~Walk!IsReadable(WrittenVolume(made))
<1>1. image = <<WrittenVolume(made)>> /\ WrittenVolume(made).magic = 2
  BY WrittenImageIs DEF WrittenVolume
<1>2. Walk!WithMagic = {1}
  <2>1. DOMAIN image = {1} /\ image[1].magic = 2
    BY <1>1
  <2> QED
    BY <2>1 DEF Walk!WithMagic
<1>3. Walk!Min({1}) = 1
  BY DEF Walk!Min
<1>4. FirstIs(2) /\ image[1] = WrittenVolume(made)
  BY <1>1, <1>2, <1>3 DEF FirstIs
<1>5. partition = 1
  BY <1>2, <1>3, <1>4 DEF WalkSeen
<1> QED
  BY <1>4, <1>5 DEF WalkSeen, Found

LEMMA TreeReadWasReadable ==
    ASSUME TripTyped, WalkSeen, mode = "read", pc = "done", partition # 0, image \in ForeignImages
    PROVE  WasReadable(TreeRead)
<1>1. WalkProgress /\ frames = << >> /\ WalkTyped
  BY DEF WalkSeen, TripTyped
<1>2. Walk!IsReadable(Found) /\ Walk!Range(seen) = Walk!Entries(Found)
  BY <1>1, AllIsSeen
<1>3. Walk!IsVolume(Found) /\ Found \in Walk!Range(image)
  <2>1. DOMAIN image = 1..Len(image) /\ partition \in 1..Len(image)
    BY <1>1 DEF WalkTyped, ImageIsSound
  <2> QED
    BY <1>1, <2>1, FoundIsVolume DEF Found, Walk!Range
<1>4. MaxDepth \in Nat /\ \A n \in 0..(MaxDepth + 1) : n \in 0..MaxDepth \/ n = MaxDepth + 1
  BY TripAssumption DEF Walk!TreeWalkAssumption
<1>5. ASSUME NEW p \in DOMAIN TreeRead
      PROVE  p[Len(p)] \notin Unusable /\ Len(p) <= MaxDepth + 1
  <2>1. PICK e \in Walk!Entries(Found) : e.path = p
    BY <1>2 DEF TreeRead, Walk!Range
  <2>2. PICK n \in 0..MaxDepth : \E place \in Walk!Levels(Found)[n] : \E name \in DOMAIN Key :
            /\ place \in Walk!Places(Found) /\ e \in Walk!EntriesAt(Found, place)
            /\ place.path \in Seq(DOMAIN Key) /\ Len(place.path) = n
            /\ p = Append(place.path, name) /\ e.record.name = name
    BY <1>2, <1>3, <2>1, EntryIn
  <2>3. PICK place \in Walk!Places(Found), name \in DOMAIN Key :
            /\ e \in Walk!EntriesAt(Found, place)
            /\ place.path \in Seq(DOMAIN Key) /\ Len(place.path) = n
            /\ p = Append(place.path, name) /\ e.record.name = name
    BY <2>2
  <2>4. PICK table : table = Walk!TableOf(Found, place.sector)
    OBVIOUS
  <2>5. e.record \in Walk!Range(table.records)
    BY <1>3, <2>3, <2>4, EntryRecord
  <2>6. table.sound
    BY <1>2, <2>4 DEF Walk!IsReadable
  <2>7. table \in Walk!Range(Found.tables)
    BY <2>4, <2>6 DEF Walk!TableOf, Walk!Unreadable, Walk!Range
  <2>8. name \notin Unusable
    <3>1. Walk!Range(image) = Range(image) /\ Walk!Range(Found.tables) = Range(Found.tables)
          /\ Walk!Range(table.records) = Range(table.records)
      BY DEF Walk!Range, Range
    <3> QED
      BY <1>3, <2>3, <2>5, <2>6, <2>7, <3>1, TripAssumption
  <2>9. Len(p) = n + 1 /\ p[n + 1] = name
    BY <2>3
  <2> QED
    BY <1>4, <2>8, <2>9
<1> QED
  BY <1>1, <1>5, TreeReadIsTree, TreeReadHasParents DEF WasReadable

LEMMA OriginStarts == TripInit => ImageIsOf
BY DEF TripInit, ImageIsOf, NoTree

LEMMA TripKeepsOrigin ==
    ASSUME TripTyped, WalkSeen, ImageIsOf, [TripNext]_trip_vars
    PROVE  ImageIsOf'
<1>1. CASE Create \/ CreateFails \/ Change
  <2>1. image = NoImage /\ UNCHANGED <<image, mode, origin, rewritten>>
    BY <1>1 DEF Create, CreateFails, Change, walk_vars
  <2>2. \A made : image # WrittenImage(made)
    BY <2>1, WrittenImageIs
  <2> QED
    BY <2>1, <2>2 DEF ImageIsOf
<1>2. CASE Read \/ ReadFails \/ UNCHANGED trip_vars
  <2>1. UNCHANGED <<create_vars, image, mode, origin, rewritten>>
    BY <1>2 DEF Read, ReadFails, trip_vars, walk_vars, Walk!Step, Walk!Fail, Walk!NoMagic,
       Walk!SecondMagicMissing, Walk!NoFiles, Walk!OpenVolume, Walk!SkipDirectory,
       Walk!VisitDirectory, Walk!VisitFile, Walk!DuplicateName, Walk!NameIsTaken,
       Walk!OpenTarget, Walk!ExtractChunk, Walk!CloseTarget, Walk!LeaveTable,
       Walk!TableIsCorrupt, Walk!End, Walk!inputs
  <2>2. UNCHANGED <<groups, group, images, results>>
    BY <2>1 DEF create_vars
  <2> QED
    BY <2>1, <2>2 DEF ImageIsOf, Made, Unreplaced, ImageOf
<1>3. CASE ReadBack
  <2>1. /\ image = NoImage /\ origin' \in Made \cap Unreplaced
        /\ image' = WrittenImage(ImageOf(origin').tree)
        /\ mode' # "read" /\ UNCHANGED <<create_vars, rewritten>>
    BY <1>3 DEF ReadBack, Show
  <2>2. rewritten = NoTree
    BY <2>1, WrittenImageIs DEF ImageIsOf
  <2>3. UNCHANGED <<groups, group, images, results>>
    BY <2>1 DEF create_vars
  <2>4. ImageOf(origin)' = images[groups[origin'].output] /\ ImageOf(origin') = ImageOf(origin)'
    BY <2>3 DEF ImageOf
  <2>5. Made' = Made /\ Unreplaced' = Unreplaced
    BY <2>3 DEF Made, Unreplaced
  <2> QED
    BY <2>1, <2>2, <2>4, <2>5 DEF ImageIsOf
<1>4. CASE Rewrite
  <2>1. /\ mode = "read" /\ pc = "done" /\ partition # 0 /\ rewritten' = TreeRead
        /\ image' = WrittenImage(TreeRead) /\ mode' # "read" /\ origin' = origin
    BY <1>4 DEF Rewrite, Show
  <2>2. origin = 0 /\ image \in ForeignImages
    BY <2>1 DEF ImageIsOf
  <2>3. WasReadable(TreeRead)
    BY <2>1, <2>2, TreeReadWasReadable
  <2> QED
    BY <2>1, <2>2, <2>3 DEF ImageIsOf, WasReadable, IsTreeOf
<1> QED
  BY <1>1, <1>2, <1>3, <1>4 DEF TripNext

LEMMA OriginIsEnough ==
    ASSUME TripTyped, WalkSeen, ImagesHold, ImageIsOf
    PROVE  MadeImagesAreReadable
<1> SUFFICES ASSUME pc = "refused"
             PROVE  /\ rewritten # NoTree =>
                          \E p \in DOMAIN rewritten :
                             /\ rewritten[p].kind = "directory" /\ Len(p) = MaxDepth + 1
                             /\ EntriesOf(rewritten, p) = {}
                    /\ origin # 0 =>
                          \E f \in PathsIn(groups[origin].directory) :
                             \/ f.path[Len(f.path)] \in Unusable
                             \/ files[f.node].kind = "directory" /\ Len(f.path) > MaxDepth
  BY DEF MadeImagesAreReadable
<1>0. MaxDepth \in Nat
  BY TripAssumption DEF Walk!TreeWalkAssumption
<1>1. ASSUME rewritten # NoTree
      PROVE  \E p \in DOMAIN rewritten :
                /\ rewritten[p].kind = "directory" /\ Len(p) = MaxDepth + 1
                /\ EntriesOf(rewritten, p) = {}
  <2>1. /\ mode # "read" /\ IsTreeOf(rewritten) /\ image = WrittenImage(rewritten)
        /\ \A p \in DOMAIN rewritten : p[Len(p)] \notin Unusable /\ Len(p) <= MaxDepth + 1
    BY <1>1 DEF ImageIsOf, WasReadable
  <2>2. PICK p \in DOMAIN rewritten : rewritten[p].kind = "directory" /\ Len(p) = MaxDepth + 1
    BY <2>1, RefusedIsUnreadable, WhyUnreadable
  <2>3. ASSUME NEW q \in EntriesOf(rewritten, p)
        PROVE  FALSE
    <3>1. q \in Seq(DOMAIN Key) /\ q # << >> /\ Len(q) <= MaxDepth + 1 /\ Parent(q) = p
      BY <2>1, <2>3 DEF EntriesOf, IsTreeOf
    <3>2. Len(q) \in Nat /\ Len(q) >= 1
      BY <3>1
    <3>3. Len(SubSeq(q, 1, Len(q) - 1)) = Len(q) - 1
      BY <3>1, AllButLast
    <3>4. Len(p) = Len(q) - 1
      BY <3>1, <3>3 DEF Parent
    <3> QED
      BY <1>0, <2>2, <3>1, <3>2, <3>4
  <2> QED
    BY <2>2, <2>3
<1>2. ASSUME origin # 0
      PROVE  \E f \in PathsIn(groups[origin].directory) :
                \/ f.path[Len(f.path)] \in Unusable
                \/ files[f.node].kind = "directory" /\ Len(f.path) > MaxDepth
  <2>1. PICK made : made = ImageOf(origin).tree
    OBVIOUS
  <2>2. mode # "read" /\ origin \in Made \cap Unreplaced /\ image = WrittenImage(made)
    BY <1>2, <2>1 DEF ImageIsOf
  <2>3. IsTreeOf(made)
    BY <2>1, <2>2, MadeIsTree
  <2>4. PICK p \in DOMAIN made :
            \/ p[Len(p)] \in Unusable
            \/ made[p].kind = "directory" /\ Len(p) = MaxDepth + 1
    BY <2>2, <2>3, RefusedIsUnreadable, WhyUnreadable
  <2>5. Holds(made, groups[origin].directory, groups[origin].output)
    BY <2>1, <2>2 DEF ImagesHold
  <2>6. PICK f \in PathsIn(groups[origin].directory) :
            f.path = p /\ (made[p].kind = "directory" <=> files[f.node].kind = "directory")
    BY <2>5, PathsInAre DEF Holds
  <2> QED
    BY <1>0, <2>4, <2>6
<1> QED
  BY <1>1, <1>2

\* What create_image has made or a rewrite has written can be read, but for names
\* and depths that nobody looked at before writing.
THEOREM MadeImagesCanBeRead == TripSpec => []MadeImagesAreReadable
<1>1. TripInit => /\ TripTyped /\ WalkSeen /\ ImageIsOf
                  /\ ScanProgress /\ WriteHolds /\ ImagesHold
  BY TripStartsTyped, TripStartsSeen, OriginStarts, HoldingStarts DEF TripInit
<1>2. /\ TripTyped /\ WalkSeen /\ ImageIsOf /\ ScanProgress /\ WriteHolds /\ ImagesHold
      /\ [TripNext]_trip_vars
      => /\ TripTyped' /\ WalkSeen' /\ ImageIsOf'
         /\ ScanProgress' /\ WriteHolds' /\ ImagesHold'
  BY TripKeepsTypes, TripKeepsSeen, TripKeepsOrigin, HoldingGoesOn
<1>3. TripTyped /\ WalkSeen /\ ImageIsOf /\ ImagesHold => MadeImagesAreReadable
  BY OriginIsEnough
<1> QED
  BY <1>1, <1>2, <1>3, PTL DEF TripSpec

-------------------------------------------------------------------------------
(* What extraction has made. *)

\* What becomes of an entry on the disk.
MadeFrom(r) ==
    IF r.is_directory THEN Walk!Directory
    ELSE [kind |-> "file", size |-> Walk!Min({r.size, r.there}), content |-> r.start]

\* A disk has what was seen, but what is at some paths is not known.
DiskOf(made, entries, paths) ==
    /\ DOMAIN made = {<< >>} \cup {e.path : e \in entries} \cup paths
    /\ made[<< >>] = Walk!Directory
    /\ \A p \in DOMAIN made : p = << >> \/ p \in paths \/
          \E e \in entries : e.path = p /\ made[p] = MadeFrom(e.record)

\* The path of the file that is being extracted.
Target == IF pc = "extract" THEN {Walk!Path} ELSE {}

DiskIs ==
    mode = "extract" /\ partition # 0 /\ pc \in {"walk", "extract", "done"} =>
        DiskOf(disk, Seen, Target)

LEMMA MakingOne ==
    ASSUME NEW entry, DiskOf(disk, Seen, {}), Walk!Path # << >>
    PROVE  DiskOf(Walk!With(entry), Seen, {Walk!Path})
<1>1. PICK path, new : path = Walk!Path /\ new = Walk!With(entry)
  OBVIOUS
<1>2. new = [p \in DOMAIN disk \cup {path} |-> IF p = path THEN entry ELSE disk[p]]
  BY <1>1 DEF Walk!With
<1>3. DiskOf(new, Seen, {path})
  BY <1>1, <1>2 DEF DiskOf
<1> QED
  BY <1>1, <1>3

LEMMA MadeOne ==
    ASSUME NEW made, NEW entries, NEW path, DiskOf(made, entries, {path}),
           NEW r, made[path] = MadeFrom(r)
    PROVE  DiskOf(made, entries \cup {[path |-> path, record |-> r]}, {})
<1> DEFINE new == [path |-> path, record |-> r]
<1>0. new.path = path /\ new.record = r
  OBVIOUS
<1> HIDE DEF new
<1>1. DOMAIN made = {<< >>} \cup {e.path : e \in entries \cup {new}} \cup {}
  BY <1>0 DEF DiskOf
<1>2. ASSUME NEW p \in DOMAIN made, p # << >>
      PROVE  \E e \in entries \cup {new} : e.path = p /\ made[p] = MadeFrom(e.record)
  BY <1>0, <1>2 DEF DiskOf
<1> QED
  BY <1>1, <1>2 DEF DiskOf, new

LEMMA VisitingDirectoryMakes ==
    ASSUME WalkTyped, DiskIs, Walk!VisitDirectory
    PROVE  DiskIs'
<1> SUFFICES ASSUME mode' = "extract", partition' # 0, pc' \in {"walk", "extract", "done"}
             PROVE  DiskOf(disk, Seen, Target)'
  BY DEF DiskIs
<1>1. /\ pc = "walk" /\ Walk!Top.next <= Len(Walk!Records) /\ Walk!Record.is_directory /\ Walk!See
      /\ mode = "extract" /\ partition # 0
      /\ disk' = Walk!With(Walk!Directory)
      /\ pc' = "walk"
  BY DEF Walk!VisitDirectory, Walk!HasNext, Walk!inputs
<1>2. frames # << >>
  BY <1>1 DEF WalkTyped
<1>3. DiskOf(disk, Seen, {})
  BY <1>1 DEF DiskIs, Target
<1>4. PICK path : path = Walk!Path
  OBVIOUS
<1>5. PICK made : made = Walk!With(Walk!Directory)
  OBVIOUS
<1>6. DiskOf(made, Seen, {path})
  BY <1>1, <1>2, <1>3, <1>4, <1>5, MakingOne, ThisRecord
<1>7. made[path] = MadeFrom(Walk!Record)
  BY <1>1, <1>4, <1>5 DEF Walk!With, MadeFrom
<1>8. Seen' = Seen \cup {[path |-> path, record |-> Walk!Record]}
  BY <1>1, <1>2, <1>4, NewSeen DEF EntryOf, Walk!Path
<1>9. DiskOf(made, Seen', {})
  BY <1>6, <1>7, <1>8, MadeOne
<1>10. made = disk' /\ Target' = {}
  BY <1>1, <1>5 DEF Target
<1> QED
  BY <1>9, <1>10

LEMMA OpeningTargetMakes ==
    ASSUME WalkTyped, DiskIs, Walk!OpenTarget
    PROVE  DiskIs'
<1>1. /\ pc = "walk" /\ pc' = "extract" /\ Walk!Top.next <= Len(Walk!Records)
      /\ disk' = Walk!With([kind |-> "file", size |-> 0, content |-> Walk!Record.start])
      /\ UNCHANGED <<image, mode, skip_system_update, partition, frames, seen>>
  BY DEF Walk!OpenTarget, Walk!HasNext, Walk!inputs
<1> SUFFICES ASSUME mode = "extract", partition # 0
             PROVE  DiskOf(disk, Seen, Target)'
  BY <1>1 DEF DiskIs
<1>2. DiskOf(disk, Seen, {})
  BY <1>1 DEF DiskIs, Target
<1>3. PICK made : made = disk'
  OBVIOUS
<1>4. DiskOf(made, Seen, {Walk!Path})
  <2>1. frames # << >> /\ Walk!Top.next <= Len(Walk!Records)
    BY <1>1 DEF WalkTyped
  <2> QED
    BY <1>1, <1>2, <1>3, <2>1, MakingOne, ThisRecord
<1>5. Walk!Path' = Walk!Path
  BY <1>1, Zenon DEF Walk!Top, Walk!Records, Walk!Record, Walk!Path, Walk!TableAt
<1>6. Seen' = Seen /\ Target' = {Walk!Path}
  BY <1>1, <1>5 DEF Seen, Target
<1> QED
  BY <1>3, <1>4, <1>6

LEMMA ExtractingMakes ==
    ASSUME WalkTyped, DiskIs, Walk!ExtractChunk
    PROVE  DiskIs'
<1>1. /\ pc = "extract" /\ pc' = "extract"
      /\ disk' = [disk EXCEPT ![Walk!Path].size = @ + Walk!ChunkSize]
      /\ UNCHANGED <<image, mode, skip_system_update, partition, frames, seen>>
  BY DEF Walk!ExtractChunk, Walk!inputs
<1> SUFFICES ASSUME mode = "extract", partition # 0
             PROVE  DiskOf(disk, Seen, Target)'
  BY <1>1 DEF DiskIs
<1>2. PICK path : path = Walk!Path
  OBVIOUS
<1>3. DiskOf(disk, Seen, {path})
  BY <1>1, <1>2 DEF DiskIs, Target
<1>4. PICK made : made = disk'
  OBVIOUS
<1>5. DOMAIN made = DOMAIN disk /\ \A p \in DOMAIN disk : p # path => made[p] = disk[p]
  BY <1>1, <1>2, <1>4
<1>6. DiskOf(made, Seen, {path})
  <2>1. path # << >>
    BY <1>1, <1>2, ThisRecord DEF WalkTyped, AtFile
  <2> QED
    BY <1>3, <1>5, <2>1 DEF DiskOf
<1>7. Walk!Path' = Walk!Path
  BY <1>1, Zenon DEF Walk!Top, Walk!Records, Walk!Record, Walk!Path, Walk!TableAt
<1>8. Seen' = Seen /\ Target' = {path}
  BY <1>1, <1>2, <1>7 DEF Seen, Target
<1> QED
  BY <1>4, <1>6, <1>8

\* What was copied is the file, or as much of it as there is.
LEMMA AllIsCopied ==
    ASSUME WalkTyped, AtFile, frames # << >>, Walk!Extracted
    PROVE  copied = Walk!Min({Walk!Record.size, Walk!Record.there})
<1> DEFINE x == Walk!Record.size  y == Walk!Record.there
<1>1. x \in Nat /\ y \in Nat /\ copied \in Nat /\ x \in Int /\ y \in Int
  BY ThisRecord DEF AtFile, WalkTyped
<1>2. copied <= x /\ copied <= y /\ (copied = x \/ copied >= y)
  BY DEF AtFile, Walk!Extracted
<1> HIDE DEF x, y
<1>3. Walk!Min({x, y}) \in {x, y} /\ Walk!Min({x, y}) <= x /\ Walk!Min({x, y}) <= y
  BY <1>1, MinOfTwo DEF Min, Walk!Min
<1>4. Walk!Min({x, y}) = copied
  BY <1>1, <1>2, <1>3
<1> QED
  BY <1>4 DEF x, y

LEMMA ClosingMakes ==
    ASSUME WalkTyped, DiskIs, Walk!CloseTarget
    PROVE  DiskIs'
<1>1. /\ pc = "extract" /\ pc' = "walk" /\ Walk!Extracted /\ Walk!See
      /\ UNCHANGED <<image, mode, skip_system_update, partition, disk>>
  BY DEF Walk!CloseTarget, Walk!inputs
<1> SUFFICES ASSUME mode = "extract", partition # 0
             PROVE  DiskOf(disk, Seen, Target)'
  BY <1>1 DEF DiskIs
<1>2. frames # << >> /\ AtFile
  BY <1>1 DEF WalkTyped
<1>3. PICK path : path = Walk!Path
  OBVIOUS
<1>4. DiskOf(disk, Seen, {path})
  BY <1>1, <1>3 DEF DiskIs, Target
<1>5. disk[path] = MadeFrom(Walk!Record)
  <2>1. copied = Walk!Min({Walk!Record.size, Walk!Record.there})
    BY <1>1, <1>2, AllIsCopied
  <2> QED
    BY <1>2, <1>3, <2>1 DEF AtFile, MadeFrom
<1>6. Seen' = Seen \cup {[path |-> path, record |-> Walk!Record]}
  BY <1>1, <1>2, <1>3, NewSeen DEF EntryOf, Walk!Path, AtFile
<1>7. DiskOf(disk, Seen', {})
  BY <1>4, <1>5, <1>6, MadeOne
<1>8. disk' = disk /\ Target' = {}
  BY <1>1 DEF Target
<1> QED
  BY <1>7, <1>8

LEMMA DiskStays ==
    ASSUME DiskIs, UNCHANGED <<mode, partition, seen, disk>>,
           pc' \in {"walk", "extract", "done"} => pc \in {"walk", "extract", "done"} /\ Target' = Target
    PROVE  DiskIs'
<1> SUFFICES ASSUME mode = "extract", partition # 0, pc' \in {"walk", "extract", "done"}
             PROVE  DiskOf(disk, Seen, Target)'
  BY DEF DiskIs
<1>1. Target' = Target
  OBVIOUS
<1>2. DiskOf(disk, Seen, Target)
  BY DEF DiskIs
<1>3. Seen' = Seen
  BY DEF Seen
<1> QED
  BY <1>1, <1>2, <1>3

LEMMA TripKeepsDisk ==
    ASSUME TripTyped, DiskIs, [TripNext]_trip_vars
    PROVE  DiskIs'
<1>0. WalkTyped
  BY DEF TripTyped
<1>1. CASE ReadBack \/ Rewrite
  <2>1. partition' = 0
    BY <1>0, <1>1 DEF ReadBack, Rewrite, TripTyped, WalkTyped
  <2> QED
    BY <2>1 DEF DiskIs
<1>2. CASE UNCHANGED walk_vars
  <2>1. UNCHANGED <<image, mode, skip_system_update, partition, frames, seen, disk, pc>>
    BY <1>2 DEF walk_vars
  <2>2. Target' = Target
    BY <2>1, Zenon DEF Target, Walk!Top, Walk!Records, Walk!Record, Walk!Path, Walk!TableAt
  <2> QED
    BY <2>1, <2>2, DiskStays
<1>3. CASE Walk!NoMagic \/ Walk!SecondMagicMissing \/ Walk!NoFiles
  <2>1. partition' = 0
    BY <1>0, <1>3 DEF Walk!NoMagic, Walk!SecondMagicMissing, Walk!NoFiles, Walk!End, WalkTyped
  <2> QED
    BY <2>1 DEF DiskIs
<1>4. CASE Walk!OpenVolume
  <2>1. /\ partition = 0 /\ seen = << >> /\ seen' = << >> /\ mode' = mode /\ pc' = "walk"
        /\ mode = "extract" => disk' = [p \in {<< >>} |-> Walk!Directory]
    BY <1>0, <1>4 DEF Walk!OpenVolume, Walk!inputs, WalkTyped
  <2>2. Seen' = {} /\ Target' = {}
    BY <2>1 DEF Seen, Walk!Range, Target
  <2>3. \A made : made = [p \in {<< >>} |-> Walk!Directory] => DiskOf(made, {}, {})
    BY DEF DiskOf
  <2> QED
    BY <2>1, <2>2, <2>3 DEF DiskIs
<1>5. CASE Walk!SkipDirectory \/ Walk!LeaveTable \/ Walk!DuplicateName \/ Walk!NameIsTaken
           \/ Walk!TableIsCorrupt \/ Walk!Fail
  <2>1. UNCHANGED <<mode, partition, seen, disk>>
    BY <1>5 DEF Walk!SkipDirectory, Walk!LeaveTable, Walk!DuplicateName, Walk!NameIsTaken,
                Walk!TableIsCorrupt, Walk!Fail, Walk!End, Walk!inputs
  <2>2. pc' \in {"refused", "failed"} \/ (pc = "walk" /\ pc' \in {"walk", "done"})
    BY <1>5 DEF Walk!SkipDirectory, Walk!LeaveTable, Walk!DuplicateName, Walk!NameIsTaken,
                Walk!TableIsCorrupt, Walk!Fail, Walk!End, Walk!HasNext
  <2>3. pc = "walk" /\ pc' \in {"walk", "done"} => Target' = Target
    BY DEF Target
  <2> QED
    BY <2>1, <2>2, <2>3, DiskStays
<1>6. CASE Walk!VisitFile
  <2>1. mode' # "extract"
    BY <1>6 DEF Walk!VisitFile, Walk!inputs
  <2> QED
    BY <2>1 DEF DiskIs
<1>7. CASE Walk!VisitDirectory \/ Walk!OpenTarget \/ Walk!ExtractChunk \/ Walk!CloseTarget
  BY <1>0, <1>7, VisitingDirectoryMakes, OpeningTargetMakes, ExtractingMakes, ClosingMakes
<1> QED
  BY <1>1, <1>2, <1>3, <1>4, <1>5, <1>6, <1>7
     DEF TripNext, trip_vars, Create, CreateFails, Change, Read, ReadFails, Walk!Step

-------------------------------------------------------------------------------
(* Extraction of an image that was written. *)

\* No directory on a path is left out.
Shown(path) == \A i \in 1..Len(path) : ~(skip_system_update /\ path[i] \in SystemUpdate)

LEMMA HiddenBelow ==
    ASSUME NEW s \in Seq(DOMAIN Key), NEW x \in DOMAIN Key, NEW d \in BOOLEAN
    PROVE  Hidden(Append(s, x), d) <=>
              \/ skip_system_update /\ x \in SystemUpdate /\ d
              \/ ~Shown(s)
<1> DEFINE p == Append(s, x)
<1>1. /\ Len(s) \in Nat /\ Len(p) = Len(s) + 1 /\ p[Len(s) + 1] = x
      /\ \A i \in 1..Len(s) : p[i] = s[i] /\ i < Len(p)
  OBVIOUS
<1> HIDE DEF p
<1>2. \A i \in 1..Len(p) : i \in 1..Len(s) \/ i = Len(s) + 1
  BY <1>1
<1>3. Hidden(p, d) <=>
          \/ skip_system_update /\ x \in SystemUpdate /\ d
          \/ \E i \in 1..Len(s) : skip_system_update /\ s[i] \in SystemUpdate
  <2>1. ASSUME Hidden(p, d)
        PROVE  \/ skip_system_update /\ x \in SystemUpdate /\ d
               \/ \E i \in 1..Len(s) : skip_system_update /\ s[i] \in SystemUpdate
    <3>1. PICK i \in 1..Len(p) : skip_system_update /\ p[i] \in SystemUpdate /\ (i < Len(p) \/ d)
      BY <2>1 DEF Hidden
    <3>2. CASE i \in 1..Len(s)
      BY <1>1, <3>1, <3>2
    <3>3. CASE i = Len(s) + 1
      <4>1. ~(i < Len(p)) /\ p[i] = x
        BY <1>1, <3>3
      <4> QED
        BY <3>1, <4>1
    <3> QED
      BY <1>2, <3>2, <3>3
  <2>2. ASSUME skip_system_update /\ x \in SystemUpdate /\ d
        PROVE  Hidden(p, d)
    <3>1. Len(s) + 1 \in 1..Len(p)
      BY <1>1
    <3> QED
      BY <1>1, <2>2, <3>1 DEF Hidden
  <2>3. ASSUME NEW i \in 1..Len(s), skip_system_update /\ s[i] \in SystemUpdate
        PROVE  Hidden(p, d)
    <3>1. i \in 1..Len(p)
      BY <1>1
    <3> QED
      BY <1>1, <2>3, <3>1 DEF Hidden
  <2> QED
    BY <2>1, <2>2, <2>3
<1> QED
  BY <1>3 DEF p, Shown

\* A walk does not get into a directory that is left out.
LEMMA PlacesAreShown ==
    ASSUME NEW volume, mode # "read", Walk!IsVolume(volume)
    PROVE  \A n \in 0..(MaxDepth + 1) : \A place \in Walk!Levels(volume)[n] : Shown(place.path)
<1> DEFINE L == Walk!Levels(volume)
           S == {n \in Nat : n <= MaxDepth + 1 => \A place \in L[n] : Shown(place.path)}
<1>0. MaxDepth \in Nat
  BY TripAssumption DEF Walk!TreeWalkAssumption
<1>1. 0 \in S
  <2>1. L[0] = {RootPlace(volume)}
    BY LevelsAre
  <2>2. Shown(<< >>)
    BY DEF Shown
  <2> HIDE DEF L
  <2> QED
    BY <2>1, <2>2 DEF RootPlace
<1>2. ASSUME NEW n \in Nat, n \in S
      PROVE  n + 1 \in S
  <2> SUFFICES ASSUME n + 1 <= MaxDepth + 1, NEW place \in L[n + 1]
               PROVE  Shown(place.path)
    OBVIOUS
  <2>1. n \in 0..MaxDepth /\ n \in 0..(MaxDepth + 1) /\ \A above \in L[n] : Shown(above.path)
    BY <1>0, <1>2
  <2>2. PICK above \in L[n] : \E e \in Walk!EntriesAt(volume, above) :
            e.record.is_directory /\ e.record.size > 0 /\ place = PlaceBelow(e)
    BY <2>1, LevelBelow
  <2>3. PICK e \in Walk!EntriesAt(volume, above) : e.record.is_directory /\ place = PlaceBelow(e)
    BY <2>2
  <2>4. PICK x \in DOMAIN Key : /\ place.path = Append(above.path, x)
                                /\ ~(skip_system_update /\ x \in SystemUpdate)
    BY <2>3, EntryRecord DEF PlaceBelow, Walk!Skipped
  <2>5. above.path \in Seq(DOMAIN Key) /\ Shown(above.path)
    BY <2>1, LevelPaths
  <2>6. PICK s \in Seq(DOMAIN Key) : s = above.path
    BY <2>5
  <2>7. Shown(Append(s, x))
    <3>1. /\ Len(s) \in Nat /\ Len(Append(s, x)) = Len(s) + 1 /\ Append(s, x)[Len(s) + 1] = x
          /\ \A i \in 1..Len(s) : Append(s, x)[i] = s[i]
      OBVIOUS
    <3>2. \A i \in 1..Len(s) : ~(skip_system_update /\ s[i] \in SystemUpdate)
      BY <2>5, <2>6 DEF Shown
    <3>3. \A i \in 1..(Len(s) + 1) : i \in 1..Len(s) \/ i = Len(s) + 1
      BY <3>1
    <3> QED
      BY <2>4, <3>1, <3>2, <3>3 DEF Shown
  <2> QED
    BY <2>4, <2>6, <2>7
<1>3. Nat \subseteq S
  <2> HIDE DEF S
  <2> QED
    BY <1>1, <1>2, Counting
<1> QED
  BY <1>0, <1>3

\* What a walk comes to in a written image is what was written and not left out.
LEMMA WrittenIsShown ==
    ASSUME NEW made, IsTreeOf(made), mode # "read", Walk!IsReadable(WrittenVolume(made)),
           NEW e \in Walk!Entries(WrittenVolume(made))
    PROVE  /\ e.path \in DOMAIN made /\ e.record = RecordOf(made, e.path)
           /\ ~Hidden(e.path, made[e.path].kind = "directory")
<1>1. PICK volume : volume = WrittenVolume(made)
  OBVIOUS
<1>2. Walk!IsVolume(volume) /\ Walk!IsReadable(volume) /\ e \in Walk!Entries(volume)
  BY <1>1, WrittenImageIsSound
<1>3. MaxDepth \in Nat
  BY TripAssumption DEF Walk!TreeWalkAssumption
<1>4. PICK n \in 0..MaxDepth : \E place \in Walk!Levels(volume)[n] : \E name \in DOMAIN Key :
          /\ e \in Walk!EntriesAt(volume, place)
          /\ place.path \in Seq(DOMAIN Key) /\ e.path = Append(place.path, name) /\ e.record.name = name
  BY <1>2, EntryIn
<1>5. PICK place \in Walk!Levels(volume)[n] : \E name \in DOMAIN Key :
          /\ e \in Walk!EntriesAt(volume, place)
          /\ place.path \in Seq(DOMAIN Key) /\ e.path = Append(place.path, name) /\ e.record.name = name
  BY <1>4
<1>6. PICK name \in DOMAIN Key :
          /\ e \in Walk!EntriesAt(volume, place)
          /\ place.path \in Seq(DOMAIN Key) /\ e.path = Append(place.path, name) /\ e.record.name = name
  BY <1>5
<1>7. n \in 0..(MaxDepth + 1)
  BY <1>3
<1>8. e.path \in DOMAIN made /\ e.record = RecordOf(made, e.path)
  <2>1. place.path = place.sector /\ place.sector \in TablesOf(made)
    BY <1>1, <1>7, WrittenPlaces
  <2> QED
    BY <1>1, <1>6, <2>1, WrittenEntry
<1>9. e.record.is_directory <=> made[e.path].kind = "directory"
  BY <1>8 DEF RecordOf
<1>10. ~(skip_system_update /\ name \in SystemUpdate /\ made[e.path].kind = "directory")
  BY <1>2, <1>6, <1>9, EntryRecord DEF Walk!Skipped
<1>11. PICK s \in Seq(DOMAIN Key) : s = place.path
  BY <1>6
<1>12. Shown(s)
  BY <1>2, <1>7, <1>11, PlacesAreShown
<1>14. ~Hidden(Append(s, name), made[e.path].kind = "directory")
  BY <1>10, <1>12, HiddenBelow
<1> QED
  BY <1>6, <1>8, <1>11, <1>14

LEMMA ParentAndName ==
    ASSUME NEW p \in Seq(DOMAIN Key) \ {<< >>}
    PROVE  /\ Len(p) \in Nat \ {0} /\ p[Len(p)] \in DOMAIN Key
           /\ Parent(p) \in Seq(DOMAIN Key) /\ Len(Parent(p)) = Len(p) - 1
           /\ \A i \in 1..(Len(p) - 1) : Parent(p)[i] = p[i]
           /\ p = Append(Parent(p), p[Len(p)])
<1>1. Len(p) \in Nat \ {0} /\ p[Len(p)] \in DOMAIN Key
  OBVIOUS
<1>2. /\ Parent(p) \in Seq(DOMAIN Key) /\ Len(Parent(p)) = Len(p) - 1
      /\ \A i \in 1..(Len(p) - 1) : Parent(p)[i] = p[i]
  BY AllButLast DEF Parent
<1>3. p = Append(Parent(p), p[Len(p)])
  BY DEF Parent
<1> QED
  BY <1>1, <1>2, <1>3

LEMMA ShownAbove ==
    ASSUME NEW p \in Seq(DOMAIN Key) \ {<< >>}
    PROVE  Shown(p) <=> /\ Shown(Parent(p))
                        /\ ~(skip_system_update /\ p[Len(p)] \in SystemUpdate)
<1>1. /\ Len(p) \in Nat \ {0} /\ Len(Parent(p)) = Len(p) - 1
      /\ \A i \in 1..(Len(p) - 1) : Parent(p)[i] = p[i]
  BY ParentAndName
<1>2. \A i \in 1..Len(p) : i \in 1..(Len(p) - 1) \/ i = Len(p)
  BY <1>1
<1>3. Len(p) \in 1..Len(p) /\ \A i \in 1..(Len(p) - 1) : i \in 1..Len(p)
  BY <1>1
<1> QED
  BY <1>1, <1>2, <1>3 DEF Shown

\* The place of a directory in a written image.
PlaceAt(path) == [path |-> path, sector |-> path]

LEMMA EntryWritten ==
    ASSUME NEW made, IsTreeOf(made), NEW p \in DOMAIN made, Parent(p) \in TablesOf(made),
           made[p].kind = "directory" => ~(skip_system_update /\ p[Len(p)] \in SystemUpdate),
           HasUsableNames(made, Parent(p))
    PROVE  [path |-> p, record |-> RecordOf(made, p)] \in
               Walk!EntriesAt(WrittenVolume(made), PlaceAt(Parent(p)))
<1>1. p \in Seq(DOMAIN Key) \ {<< >>}
  BY DEF IsTreeOf
<1>2. PICK r : r = RecordOf(made, p)
  OBVIOUS
<1>3. r \in RecordsIn(made, Parent(p))
  BY <1>2 DEF RecordsIn, ReadableEntries, EntriesOf
<1>4. Walk!TableOf(WrittenVolume(made), Parent(p)).records = SetToSeq(RecordsIn(made, Parent(p)))
  BY DEF WrittenVolume, Walk!TableOf
<1>5. r \in Walk!Range(Walk!TableOf(WrittenVolume(made), Parent(p)).records)
  BY <1>3, <1>4, WrittenRecords
<1>6. r.name = p[Len(p)] /\ (r.is_directory <=> made[p].kind = "directory")
  BY <1>2 DEF RecordOf
<1>7. ~Walk!Skipped(r)
  BY <1>6 DEF Walk!Skipped
<1>8. p = Append(Parent(p), r.name)
  BY <1>1, <1>6, ParentAndName
<1>9. PlaceAt(Parent(p)).sector = Parent(p) /\ PlaceAt(Parent(p)).path = Parent(p)
  BY DEF PlaceAt
<1>10. [path |-> p, record |-> r] = [path |-> Append(PlaceAt(Parent(p)).path, r.name), record |-> r]
  BY <1>8, <1>9
<1> QED
  BY <1>2, <1>5, <1>7, <1>9, <1>10, EntryAt

LEMMA NamesAreUsable ==
    ASSUME NEW made, Walk!IsReadable(WrittenVolume(made)), NEW n \in 0..(MaxDepth + 1),
           NEW d \in TablesOf(made), PlaceAt(d) \in Walk!Levels(WrittenVolume(made))[n]
    PROVE  HasUsableNames(made, d)
<1>1. PlaceAt(d) \in Walk!Places(WrittenVolume(made)) /\ PlaceAt(d).sector = d
  BY PlacesAre DEF PlaceAt
<1>2. Walk!TableOf(WrittenVolume(made), d).sound
  BY <1>1 DEF Walk!IsReadable
<1>3. Walk!TableOf(WrittenVolume(made), d).sound = HasUsableNames(made, d)
  BY DEF WrittenVolume, Walk!TableOf
<1> QED
  BY <1>2, <1>3

\* A walk comes to everything in a written image that is not left out.
LEMMA DirectoriesAreReached ==
    ASSUME NEW made, IsTreeOf(made), ParentsIn(made), mode # "read",
           Walk!IsReadable(WrittenVolume(made))
    PROVE  \A n \in Nat : \A p \in DOMAIN made : Len(p) = n + 1 /\ Shown(Parent(p)) =>
              /\ n \in 0..MaxDepth /\ Parent(p) \in TablesOf(made)
              /\ PlaceAt(Parent(p)) \in Walk!Levels(WrittenVolume(made))[n]
<1>a. PICK volume : volume = WrittenVolume(made)
  OBVIOUS
<1> DEFINE L == Walk!Levels(volume)
           Claim(n, p) == /\ n \in 0..MaxDepth /\ Parent(p) \in TablesOf(made)
                          /\ PlaceAt(Parent(p)) \in L[n]
           S == {n \in Nat : \A p \in DOMAIN made : Len(p) = n + 1 /\ Shown(Parent(p)) => Claim(n, p)}
<1>0. MaxDepth \in Nat
  BY TripAssumption DEF Walk!TreeWalkAssumption
<1>1. 0 \in S
  <2> SUFFICES ASSUME NEW p \in DOMAIN made, Len(p) = 0 + 1
               PROVE  Claim(0, p)
    BY DEF S
  <2>1. p \in Seq(DOMAIN Key) \ {<< >>}
    BY DEF IsTreeOf
  <2>2. Parent(p) = << >>
    BY <2>1, ParentAndName
  <2>3. L[0] = {[path |-> << >>, sector |-> << >>]}
    BY <1>a, LevelsAre DEF RootPlace, WrittenVolume
  <2>4. PlaceAt(<< >>) \in L[0]
    BY <2>3 DEF PlaceAt
  <2>5. << >> \in TablesOf(made) /\ 0 \in 0..MaxDepth
    BY <1>0 DEF TablesOf
  <2> QED
    BY <2>2, <2>4, <2>5
<1>2. ASSUME NEW n \in Nat, n \in S
      PROVE  n + 1 \in S
  <2> SUFFICES ASSUME NEW p \in DOMAIN made, Len(p) = (n + 1) + 1, Shown(Parent(p))
               PROVE  Claim(n + 1, p)
    BY DEF S
  <2>1. PICK q : q = Parent(p)
    OBVIOUS
  <2>2. p \in Seq(DOMAIN Key) \ {<< >>}
    BY DEF IsTreeOf
  <2>3. q \in Seq(DOMAIN Key) \ {<< >>} /\ Len(q) = n + 1
    BY <2>1, <2>2, ParentAndName
  <2>4. q \in DOMAIN made /\ made[q].kind = "directory"
    BY <2>1, <2>3 DEF ParentsIn
  <2>5. Shown(Parent(q)) /\ ~(skip_system_update /\ q[Len(q)] \in SystemUpdate)
    BY <2>1, <2>3, ShownAbove
  <2>6. n \in 0..MaxDepth /\ Parent(q) \in TablesOf(made) /\ PlaceAt(Parent(q)) \in L[n]
    BY <1>2, <2>3, <2>4, <2>5
  <2>7. PICK e : e = [path |-> q, record |-> RecordOf(made, q)]
    OBVIOUS
  <2>7a. HasUsableNames(made, Parent(q))
    <3>1. n \in 0..(MaxDepth + 1)
      BY <1>0, <2>6
    <3> QED
      BY <1>a, <2>6, <3>1, NamesAreUsable
  <2>8. e \in Walk!EntriesAt(volume, PlaceAt(Parent(q)))
    BY <1>a, <2>4, <2>5, <2>6, <2>7, <2>7a, EntryWritten
  <2>9. /\ e.record.is_directory /\ e.record.size > 0 /\ e.record.start = q /\ e.path = q
    BY <2>4, <2>7 DEF RecordOf
  <2>10. PlaceAt(q) = PlaceBelow(e)
    BY <2>9 DEF PlaceAt, PlaceBelow
  <2>11. PlaceAt(q) \in L[n + 1]
    BY <2>6, <2>8, <2>9, <2>10, LevelBelow
  <2>12. L[MaxDepth + 1] = {}
    BY <1>a DEF Walk!IsReadable
  <2>13. n + 1 \in 0..MaxDepth
    BY <1>0, <2>6, <2>11, <2>12
  <2>14. q \in TablesOf(made)
    BY <2>4 DEF TablesOf
  <2> QED
    BY <2>1, <2>11, <2>13, <2>14
<1>3. Nat \subseteq S
  <2> HIDE DEF S
  <2> QED
    BY <1>1, <1>2, Counting
<1>4. \A n \in Nat : \A p \in DOMAIN made : Len(p) = n + 1 /\ Shown(Parent(p)) => Claim(n, p)
  BY <1>3
<1> QED
  BY <1>a, <1>4

LEMMA WrittenIsReached ==
    ASSUME NEW made, IsTreeOf(made), ParentsIn(made), mode # "read",
           Walk!IsReadable(WrittenVolume(made)),
           NEW p \in DOMAIN made, ~Hidden(p, made[p].kind = "directory")
    PROVE  \E e \in Walk!Entries(WrittenVolume(made)) : e.path = p
<1>1. PICK n : n = Len(p) - 1
  OBVIOUS
<1>2. p \in Seq(DOMAIN Key) \ {<< >>}
  BY DEF IsTreeOf
<1>3. n \in Nat /\ Len(p) = n + 1 /\ MaxDepth \in Nat
  BY <1>1, <1>2, ParentAndName, TripAssumption DEF Walk!TreeWalkAssumption
<1>4. PICK s, x : s = Parent(p) /\ x = p[Len(p)]
  OBVIOUS
<1>5. s \in Seq(DOMAIN Key) /\ x \in DOMAIN Key /\ p = Append(s, x)
  BY <1>2, <1>4, ParentAndName
<1>6. Shown(s) /\ ~(skip_system_update /\ x \in SystemUpdate /\ made[p].kind = "directory")
  <2>1. PICK d \in BOOLEAN : d = (made[p].kind = "directory")
    OBVIOUS
  <2>2. ~Hidden(Append(s, x), d)
    BY <1>5, <2>1
  <2> QED
    BY <1>5, <2>1, <2>2, HiddenBelow
<1>7. /\ n \in 0..MaxDepth /\ Parent(p) \in TablesOf(made)
      /\ PlaceAt(Parent(p)) \in Walk!Levels(WrittenVolume(made))[n]
  BY <1>3, <1>4, <1>6, DirectoriesAreReached
<1>9. n \in 0..(MaxDepth + 1)
  BY <1>3, <1>7
<1>9a. HasUsableNames(made, Parent(p))
  BY <1>7, <1>9, NamesAreUsable
<1>8. [path |-> p, record |-> RecordOf(made, p)] \in
          Walk!EntriesAt(WrittenVolume(made), PlaceAt(Parent(p)))
  BY <1>4, <1>6, <1>7, <1>9a, EntryWritten
<1>10. PlaceAt(Parent(p)) \in Walk!Places(WrittenVolume(made))
  BY <1>7, <1>9, PlacesAre
<1> QED
  BY <1>8, <1>10 DEF Walk!Entries

\* What becomes of an item of a written image on the disk.
Restored(item) ==
    IF item.kind = "directory" THEN Walk!Directory
    ELSE [kind |-> "file", size |-> item.size, content |-> <<item.content>>]

\* A file of an image that was written is there in its full length.
LEMMA WrittenIsRestored ==
    ASSUME NEW made, IsTreeOf(made), NEW p \in DOMAIN made
    PROVE  MadeFrom(RecordOf(made, p)) = Restored(made[p])
<1>1. made[p].kind \in {"directory", "file"} /\ made[p].size \in Nat
  BY DEF IsTreeOf
<1>2. CASE made[p].kind = "directory"
  BY <1>2 DEF MadeFrom, RecordOf, Restored
<1>3. CASE made[p].kind # "directory"
  <2>1. PICK s \in Int : s = made[p].size
    BY <1>1
  <2>2. Walk!Min({s, s}) = s
    <3>1. Walk!Min({s, s}) \in {s, s}
      BY MinOfTwo DEF Min, Walk!Min
    <3> QED
      BY <3>1
  <2>3. PICK r : r = RecordOf(made, p)
    OBVIOUS
  <2>4. ~r.is_directory /\ r.size = s /\ r.there = s /\ r.start = <<made[p].content>>
    BY <1>3, <2>1, <2>3 DEF RecordOf
  <2>5. MadeFrom(r) = [kind |-> "file", size |-> s, content |-> <<made[p].content>>]
    BY <2>2, <2>4 DEF MadeFrom
  <2> QED
    BY <1>3, <2>1, <2>3, <2>5 DEF Restored
<1> QED
  BY <1>2, <1>3

\* The paths of a tree that -s does not leave out.
Kept(made) == {p \in DOMAIN made : ~Hidden(p, made[p].kind = "directory")}

\* On the disk is what was in the image, but what -s leaves out.
DiskHas(made) ==
    /\ DOMAIN disk = {<< >>} \cup Kept(made)
    /\ \A p \in DOMAIN disk \ {<< >>} : disk[p] = Restored(made[p])

LEMMA DiskOfWritten ==
    ASSUME NEW made, IsTreeOf(made), ParentsIn(made), mode # "read",
           Walk!IsReadable(WrittenVolume(made)),
           DiskOf(disk, Walk!Entries(WrittenVolume(made)), {})
    PROVE  DiskHas(made)
<1>1. PICK all : all = Walk!Entries(WrittenVolume(made))
  OBVIOUS
<1>2. \A e \in all : /\ e.path \in Kept(made) /\ e.path \in DOMAIN made
                     /\ e.record = RecordOf(made, e.path)
  BY <1>1, WrittenIsShown DEF Kept
<1>3. \A p \in Kept(made) : \E e \in all : e.path = p
  BY <1>1, WrittenIsReached DEF Kept
<1>4. /\ DOMAIN disk = {<< >>} \cup {e.path : e \in all}
      /\ \A p \in DOMAIN disk : p = << >> \/
            \E e \in all : e.path = p /\ disk[p] = MadeFrom(e.record)
  BY <1>1 DEF DiskOf
<1>5. DOMAIN disk = {<< >>} \cup Kept(made)
  BY <1>2, <1>3, <1>4
<1>6. ASSUME NEW p \in DOMAIN disk \ {<< >>}
      PROVE  disk[p] = Restored(made[p])
  BY <1>2, <1>4, <1>6, WrittenIsRestored
<1> QED
  BY <1>5, <1>6 DEF DiskHas

\* An image that was written is extracted as a whole.
LEMMA ExtractedIsWritten ==
    ASSUME TripTyped, WalkSeen, DiskIs, mode = "extract", pc = "done",
           NEW made, IsTreeOf(made), ParentsIn(made), image = WrittenImage(made)
    PROVE  DiskHas(made)
<1>1. image = <<WrittenVolume(made)>> /\ WrittenVolume(made).magic = 2 /\ WrittenVolume(made).root = << >>
  BY WrittenImageIs DEF WrittenVolume
<1>2. Walk!WithMagic = {1} /\ Walk!Min({1}) = 1
  <2>1. DOMAIN image = {1} /\ image[1].magic = 2
    BY <1>1
  <2> QED
    BY <2>1 DEF Walk!WithMagic, Walk!Min
<1>3. partition # 0
  <2>1. image[Walk!Min(Walk!WithMagic)].root = << >>
    BY <1>1, <1>2
  <2>2. NoRoot # << >>
    BY TripAssumption
  <2> QED
    BY <2>1, <2>2 DEF WalkSeen
<1>4. Found = WrittenVolume(made) /\ WalkProgress /\ frames = << >> /\ WalkTyped
  BY <1>1, <1>2, <1>3 DEF WalkSeen, Found, TripTyped
<1>5. Walk!IsReadable(Found) /\ Seen = Walk!Entries(Found)
  BY <1>3, <1>4, AllIsSeen DEF Seen
<1>6. DiskOf(disk, Seen, {})
  BY <1>3 DEF DiskIs, Target
<1> QED
  BY <1>4, <1>5, <1>6, DiskOfWritten

LEMMA DiskIsEnough ==
    ASSUME TripTyped, WalkSeen, ImagesHold, ImageIsOf, DiskIs
    PROVE  ExtractRestoresTheSource
<1> DEFINE found == PathsIn(groups[origin].directory)
           IsDirectory(f) == files[f.node].kind = "directory"
<1> SUFFICES ASSUME mode = "extract", pc = "done"
             PROVE  /\ origin # 0 =>
                          /\ \A f \in found :
                                Belongs(f.node) /\ ~Hidden(f.path, IsDirectory(f)) /\ f.node \notin changed =>
                                   /\ f.path \in DOMAIN disk
                                   /\ disk[f.path].kind = files[f.node].kind
                                   /\ ~IsDirectory(f) => /\ disk[f.path].size = files[f.node].size
                                                         /\ disk[f.path].content = <<f.node>>
                          /\ DOMAIN disk \subseteq {<< >>} \cup {f.path : f \in found}
                    /\ rewritten # NoTree =>
                          /\ DOMAIN disk = {<< >>} \cup {p \in DOMAIN rewritten :
                                                           ~Hidden(p, rewritten[p].kind = "directory")}
                          /\ \A p \in DOMAIN disk \ {<< >>} :
                                /\ disk[p].kind = rewritten[p].kind
                                /\ disk[p].kind = "file" =>
                                      /\ disk[p].size = rewritten[p].size
                                      /\ disk[p].content = <<rewritten[p].content>>
  BY DEF ExtractRestoresTheSource
<1>1. ASSUME rewritten # NoTree
      PROVE  /\ DOMAIN disk = {<< >>} \cup {p \in DOMAIN rewritten :
                                              ~Hidden(p, rewritten[p].kind = "directory")}
             /\ \A p \in DOMAIN disk \ {<< >>} :
                   /\ disk[p].kind = rewritten[p].kind
                   /\ disk[p].kind = "file" =>
                         /\ disk[p].size = rewritten[p].size
                         /\ disk[p].content = <<rewritten[p].content>>
  <2>1. IsTreeOf(rewritten) /\ ParentsIn(rewritten) /\ image = WrittenImage(rewritten)
    BY <1>1 DEF ImageIsOf, WasReadable
  <2>2. DiskHas(rewritten)
    BY <2>1, ExtractedIsWritten
  <2>3. DOMAIN disk = {<< >>} \cup Kept(rewritten)
    BY <2>2 DEF DiskHas
  <2>4. ASSUME NEW p \in DOMAIN disk \ {<< >>}
        PROVE  /\ disk[p].kind = rewritten[p].kind
               /\ disk[p].kind = "file" =>
                     /\ disk[p].size = rewritten[p].size
                     /\ disk[p].content = <<rewritten[p].content>>
    <3>1. p \in DOMAIN rewritten /\ disk[p] = Restored(rewritten[p])
      BY <2>2, <2>3 DEF DiskHas, Kept
    <3>2. rewritten[p].kind \in {"directory", "file"}
      BY <2>1, <3>1 DEF IsTreeOf
    <3> QED
      BY <3>1, <3>2 DEF Restored, Walk!Directory
  <2> QED
    BY <2>3, <2>4 DEF Kept
<1>2. ASSUME origin # 0
      PROVE  /\ \A f \in found :
                   Belongs(f.node) /\ ~Hidden(f.path, IsDirectory(f)) /\ f.node \notin changed =>
                      /\ f.path \in DOMAIN disk
                      /\ disk[f.path].kind = files[f.node].kind
                      /\ ~IsDirectory(f) => /\ disk[f.path].size = files[f.node].size
                                            /\ disk[f.path].content = <<f.node>>
             /\ DOMAIN disk \subseteq {<< >>} \cup {f.path : f \in found}
  <2>1. PICK made : made = ImageOf(origin).tree
    OBVIOUS
  <2>2. origin \in Made \cap Unreplaced /\ image = WrittenImage(made)
    BY <1>2, <2>1 DEF ImageIsOf
  <2>3. IsTreeOf(made)
    BY <2>1, <2>2, MadeIsTree
  <2>4. Holds(made, groups[origin].directory, groups[origin].output) /\ found = Reached(files, groups[origin].directory)
    BY <2>1, <2>2, PathsInAre DEF ImagesHold
  <2>5. DiskHas(made)
    <3>1. ParentsIn(made)
      BY <2>4 DEF Holds, ParentsIn
    <3> QED
      BY <2>2, <2>3, <3>1, ExtractedIsWritten
  <2>6. DOMAIN disk = {<< >>} \cup Kept(made)
    BY <2>5 DEF DiskHas
  <2>7. ASSUME NEW f \in found, Belongs(f.node), ~Hidden(f.path, IsDirectory(f)), f.node \notin changed
        PROVE  /\ f.path \in DOMAIN disk
               /\ disk[f.path].kind = files[f.node].kind
               /\ ~IsDirectory(f) => /\ disk[f.path].size = files[f.node].size
                                     /\ disk[f.path].content = <<f.node>>
    <3>1. files[f.node].kind = "directory" \/ files[f.node].kind = "file"
      BY <2>7 DEF Belongs
    <3>2. f.path \in DOMAIN made /\ made[f.path] = AsFound(f.node)
      BY <2>4, <2>7, <3>1 DEF Holds, Shows
    <3>3. PICK path : path = f.path
      OBVIOUS
    <3>4. path # << >>
      BY <2>3, <3>2, <3>3 DEF IsTreeOf
    <3>5. /\ made[path].kind = files[f.node].kind
          /\ ~IsDirectory(f) => made[path].size = files[f.node].size /\ made[path].content = f.node
      BY <3>1, <3>2, <3>3 DEF AsFound
    <3>6. path \in Kept(made)
      <4>1. PICK b \in BOOLEAN : b = IsDirectory(f)
        OBVIOUS
      <4>2. b = (made[path].kind = "directory") /\ ~Hidden(path, b)
        BY <2>7, <3>3, <3>5, <4>1
      <4> QED
        BY <3>2, <3>3, <4>2 DEF Kept
    <3>7. path \in DOMAIN disk /\ disk[path] = Restored(made[path])
      BY <2>5, <2>6, <3>4, <3>6 DEF DiskHas
    <3>8. /\ disk[path].kind = files[f.node].kind
          /\ ~IsDirectory(f) => disk[path].size = files[f.node].size /\ disk[path].content = <<f.node>>
      BY <3>1, <3>5, <3>7 DEF Restored, Walk!Directory
    <3> QED
      BY <3>3, <3>7, <3>8
  <2>8. DOMAIN disk \subseteq {<< >>} \cup {f.path : f \in found}
    <3>1. \A p \in DOMAIN made : \E f \in found : f.path = p
      BY <2>4 DEF Holds
    <3> QED
      BY <2>6, <3>1 DEF Kept
  <2> QED
    BY <2>7, <2>8
<1> QED
  BY <1>1, <1>2

LEMMA DiskStarts == TripInit => DiskIs
BY DEF TripInit, Walk!Begin, DiskIs

\* Extraction brings back what create_image or a rewrite made the image from, for
\* any file system, batch, options and failure.
THEOREM ExtractionRestoresTheSource == TripSpec => []ExtractRestoresTheSource
<1>1. TripInit => /\ TripTyped /\ WalkSeen /\ ImageIsOf /\ DiskIs
                  /\ ScanProgress /\ WriteHolds /\ ImagesHold
  BY TripStartsTyped, TripStartsSeen, OriginStarts, DiskStarts, HoldingStarts DEF TripInit
<1>2. /\ TripTyped /\ WalkSeen /\ ImageIsOf /\ DiskIs
      /\ ScanProgress /\ WriteHolds /\ ImagesHold /\ [TripNext]_trip_vars
      => /\ TripTyped' /\ WalkSeen' /\ ImageIsOf' /\ DiskIs'
         /\ ScanProgress' /\ WriteHolds' /\ ImagesHold'
  BY TripKeepsTypes, TripKeepsSeen, TripKeepsOrigin, TripKeepsDisk, HoldingGoesOn
<1>3. TripTyped /\ WalkSeen /\ ImageIsOf /\ DiskIs /\ ImagesHold => ExtractRestoresTheSource
  BY DiskIsEnough
<1> QED
  BY <1>1, <1>2, <1>3, PTL DEF TripSpec

-------------------------------------------------------------------------------
(* Sums: one element is added after the other, in an order that CHOOSE determines. *)

One(s) == CHOOSE x \in s : TRUE

SumStep(f, g, s) == IF s = {} THEN 0 ELSE f[One(s)] + g[s \ {One(s)}]

\* The sums of f over the parts of a set.
Sums(f, S) == CHOOSE g : g = [s \in SUBSET S |-> SumStep(f, g, s)]

Total(f, S) == Sums(f, S)[S]

LEMMA OneOf ==
    ASSUME NEW s, s # {}
    PROVE  One(s) \in s
BY DEF One

LEMMA SmallerFirst ==
    ASSUME NEW U, IsFiniteSet(U), NEW P, {} \in P,
           \A s \in SUBSET U : s # {} /\ (\A x \in s : s \ {x} \in P) => s \in P
    PROVE  SUBSET U \subseteq P
<1> DEFINE S == {n \in Nat : \A s \in SUBSET U : Cardinality(s) = n => s \in P}
<1>1. \A s \in SUBSET U : IsFiniteSet(s) /\ Cardinality(s) \in Nat /\ (Cardinality(s) = 0 => s = {})
  BY FS_Subset, FS_CardinalityType, FS_EmptySet
<1>2. 0 \in S
  BY <1>1
<1>3. ASSUME NEW n \in Nat, n \in S
      PROVE  n + 1 \in S
  <2> SUFFICES ASSUME NEW s \in SUBSET U, Cardinality(s) = n + 1
               PROVE  s \in P
    OBVIOUS
  <2>1. s # {}
    BY <1>1, FS_EmptySet
  <2>2. ASSUME NEW x \in s
        PROVE  s \ {x} \in P
    <3>1. Cardinality(s \ {x}) = Cardinality(s) - 1
      BY <1>1, FS_RemoveElement
    <3>2. Cardinality(s \ {x}) = n
      BY <3>1
    <3> QED
      BY <1>3, <3>2
  <2> QED
    BY <2>1, <2>2
<1>4. Nat \subseteq S
  <2> HIDE DEF S
  <2> QED
    BY <1>2, <1>3, Counting
<1> QED
  BY <1>1, <1>4

LEMMA SumsExist ==
    ASSUME NEW f, NEW U, IsFiniteSet(U)
    PROVE  \A s \in SUBSET U : Sums(f, U)[s] = SumStep(f, Sums(f, U), s)
<1> DEFINE To(n, g) == \A s \in SUBSET U : Cardinality(s) <= n => g[s] = SumStep(f, g, s)
           S == {n \in Nat : \E g : DOMAIN g = SUBSET U /\ To(n, g)}
<1>1. \A s \in SUBSET U : IsFiniteSet(s) /\ Cardinality(s) \in Nat /\ (Cardinality(s) = 0 => s = {})
  BY FS_Subset, FS_CardinalityType, FS_EmptySet
<1>2. 0 \in S
  <2>1. PICK g : g = [s \in SUBSET U |-> 0]
    OBVIOUS
  <2>2. To(0, g)
    BY <1>1, <2>1 DEF SumStep
  <2>3. DOMAIN g = SUBSET U
    BY <2>1
  <2> QED
    BY <2>2, <2>3
<1>3. ASSUME NEW n \in Nat, n \in S
      PROVE  n + 1 \in S
  <2>1. PICK g : To(n, g)
    BY <1>3
  <2>2. PICK new : new = [s \in SUBSET U |-> SumStep(f, g, s)]
    OBVIOUS
  <2>3. ASSUME NEW s \in SUBSET U, Cardinality(s) <= n + 1
        PROVE  new[s] = SumStep(f, new, s)
    <3>1. CASE s = {}
      BY <2>2, <3>1 DEF SumStep
    <3>2. CASE s # {}
      <4>1. PICK t : t = s \ {One(s)}
        OBVIOUS
      <4>2. t \in SUBSET U /\ Cardinality(t) <= n
        BY <1>1, <2>3, <3>2, <4>1, OneOf, FS_RemoveElement
      <4>3. new[t] = g[t]
        BY <2>1, <2>2, <4>2
      <4> QED
        BY <2>2, <3>2, <4>1, <4>3 DEF SumStep
    <3> QED
      BY <3>1, <3>2
  <2>4. DOMAIN new = SUBSET U /\ To(n + 1, new)
    BY <2>2, <2>3
  <2> QED
    BY <2>4
<1>4. Nat \subseteq S
  <2> HIDE DEF S
  <2> QED
    BY <1>2, <1>3, Counting
<1>5. PICK g : DOMAIN g = SUBSET U /\ To(Cardinality(U), g)
  <2>1. Cardinality(U) \in S
    BY <1>1, <1>4
  <2> QED
    BY <2>1
<1>6. \A s \in SUBSET U : g[s] = SumStep(f, g, s)
  BY <1>5, FS_Subset
<1>7. PICK h : h = [s \in SUBSET U |-> SumStep(f, g, s)]
  OBVIOUS
<1>8. h = [s \in SUBSET U |-> SumStep(f, h, s)]
  <2>1. \A s \in SUBSET U : h[s] = g[s]
    BY <1>6, <1>7
  <2>2. ASSUME NEW s \in SUBSET U
        PROVE  SumStep(f, h, s) = SumStep(f, g, s)
    BY <2>1 DEF SumStep
  <2> QED
    BY <1>7, <2>2
<1>9. Sums(f, U) = [s \in SUBSET U |-> SumStep(f, Sums(f, U), s)]
  BY <1>8 DEF Sums
<1> QED
  BY <1>9, Zenon

Addable(f, U) == IsFiniteSet(U) /\ \A x \in U : f[x] \in Nat

Adds(g, f, U) ==
    /\ g[{}] = 0
    /\ \A s \in SUBSET U : g[s] \in Nat /\ \A x \in s : g[s] = f[x] + g[s \ {x}]

\* Whichever element is added first.
LEMMA SumsAre ==
    ASSUME NEW f, NEW U, Addable(f, U)
    PROVE  Adds(Sums(f, U), f, U)
<1>1. PICK g : g = Sums(f, U)
  OBVIOUS
<1>2. \A s \in SUBSET U : g[s] = SumStep(f, g, s)
  BY <1>1, SumsExist DEF Addable
<1>3. g[{}] = 0
  BY <1>2 DEF SumStep
<1>a. IsFiniteSet(U) /\ \A x \in U : f[x] \in Nat
  BY DEF Addable
<1>4. \A s \in SUBSET U : g[s] \in Nat
  <2> DEFINE N == {s \in SUBSET U : g[s] \in Nat}
  <2>1. ASSUME NEW s \in SUBSET U, s # {}, \A x \in s : s \ {x} \in N
        PROVE  s \in N
    <3>1. PICK y \in s : y = One(s)
      BY <2>1, OneOf
    <3>2. g[s] = f[y] + g[s \ {y}] /\ f[y] \in Nat /\ g[s \ {y}] \in Nat
      BY <1>a, <1>2, <2>1, <3>1 DEF SumStep
    <3> QED
      BY <3>2
  <2>2. {} \in N
    BY <1>3
  <2>3. SUBSET U \subseteq N
    <3> HIDE DEF N
    <3> QED
      BY <1>a, <2>1, <2>2, SmallerFirst
  <2> QED
    BY <2>3
<1> DEFINE P == {s \in SUBSET U : \A x \in s : g[s] = f[x] + g[s \ {x}]}
<1>5. ASSUME NEW s \in SUBSET U, s # {}, \A x \in s : s \ {x} \in P
      PROVE  s \in P
  <2>1. PICK y \in s : y = One(s)
    BY <1>5, OneOf
  <2>2. g[s] = f[y] + g[s \ {y}] /\ f[y] \in Nat
    BY <1>a, <1>2, <1>5, <2>1 DEF SumStep
  <2>3. ASSUME NEW x \in s, x # y
        PROVE  g[s] = f[x] + g[s \ {x}]
    <3>1. PICK r \in SUBSET U : r = (s \ {y}) \ {x} /\ r = (s \ {x}) \ {y}
      OBVIOUS
    <3>2. g[s \ {y}] = f[x] + g[r]
      BY <1>5, <2>3, <3>1
    <3>3. g[s \ {x}] = f[y] + g[r]
      BY <1>5, <2>3, <3>1
    <3>4. f[x] \in Nat /\ g[r] \in Nat
      BY <1>a, <1>4
    <3> QED
      BY <2>2, <3>2, <3>3, <3>4
  <2> QED
    BY <2>2, <2>3
<1>6. {} \in P
  OBVIOUS
<1>7. SUBSET U \subseteq P
  <2> HIDE DEF P
  <2> QED
    BY <1>a, <1>5, <1>6, SmallerFirst
<1> QED
  BY <1>1, <1>3, <1>4, <1>7 DEF Adds

\* The sum is the same under other names.
LEMMA SumsOfImage ==
    ASSUME NEW f, NEW U, Addable(f, U), NEW k, NEW V, Addable(k, V),
           NEW h, \A x \in U : h[x] \in V /\ f[x] = k[h[x]],
           \A x, y \in U : h[x] = h[y] => x = y
    PROVE  Sums(f, U)[U] = Sums(k, V)[{h[x] : x \in U}]
<1>1. PICK g : g = Sums(f, U)
  OBVIOUS
<1>2. PICK j : j = Sums(k, V)
  OBVIOUS
<1>3. g[{}] = 0 /\ \A s \in SUBSET U : \A x \in s : g[s] = f[x] + g[s \ {x}]
  <2>1. Adds(g, f, U)
    BY <1>1, SumsAre, Zenon
  <2> QED
    BY <2>1, Zenon DEF Adds
<1>4. j[{}] = 0 /\ \A s \in SUBSET V : \A x \in s : j[s] = k[x] + j[s \ {x}]
  BY <1>2, SumsAre DEF Adds
<1> DEFINE H(s) == {h[x] : x \in s}
           P == {s \in SUBSET U : g[s] = j[H(s)]}
<1>5. {} \in P
  <2>1. H({}) = {}
    OBVIOUS
  <2> QED
    BY <1>3, <1>4, <2>1
<1>6. ASSUME NEW s \in SUBSET U, s # {}, \A x \in s : s \ {x} \in P
      PROVE  s \in P
  <2>1. PICK x \in s : TRUE
    BY <1>6
  <2>2. H(s) \in SUBSET V /\ h[x] \in H(s) /\ H(s) \ {h[x]} = H(s \ {x})
    OBVIOUS
  <2>3. g[s \ {x}] = j[H(s \ {x})]
    BY <1>6
  <2>4. g[s] = f[x] + g[s \ {x}] /\ f[x] = k[h[x]]
    BY <1>3
  <2>5. j[H(s)] = k[h[x]] + j[H(s \ {x})]
    <3>1. PICK t \in SUBSET V : t = H(s)
      BY <2>2
    <3>2. PICK y \in t : y = h[x]
      BY <2>2, <3>1
    <3>3. j[t] = k[y] + j[t \ {y}]
      BY <1>4
    <3> QED
      BY <2>2, <3>1, <3>2, <3>3
  <2> QED
    BY <2>3, <2>4, <2>5
<1>7. SUBSET U \subseteq P
  <2> HIDE DEF P
  <2> QED
    BY <1>5, <1>6, SmallerFirst DEF Addable
<1> QED
  BY <1>1, <1>2, <1>7

LEMMA TotalOfNothing ==
    ASSUME NEW f
    PROVE  Total(f, {}) = 0
BY SumsAre, FS_EmptySet DEF Total, Addable, Adds

LEMMA TotalOfImage ==
    ASSUME NEW f, NEW U, Addable(f, U), NEW k, NEW V, Addable(k, V),
           NEW h, \A x \in U : h[x] \in V /\ f[x] = k[h[x]],
           \A x, y \in U : h[x] = h[y] => x = y,
           \A y \in V : \E x \in U : h[x] = y
    PROVE  Total(f, U) = Total(k, V)
<1>1. {h[x] : x \in U} = V
  OBVIOUS
<1>2. Sums(f, U)[U] = Sums(k, V)[{h[x] : x \in U}]
  BY SumsOfImage
<1> QED
  BY <1>1, <1>2 DEF Total

LEMMA TotalOfMore ==
    ASSUME NEW f, NEW k, NEW U, Addable(f, U), \A x \in U : k[x] = f[x],
           NEW n, n \notin U, k[n] \in Nat
    PROVE  Total(k, U \cup {n}) = Total(f, U) + k[n]
<1>1. PICK V : V = U \cup {n}
  OBVIOUS
<1>2. Addable(k, V) /\ U \in SUBSET V /\ V \ {n} = U
  BY <1>1, FS_AddElement DEF Addable
<1>3. Sums(k, V)[V] = k[n] + Sums(k, V)[U] /\ Sums(k, V)[U] \in Nat
  BY <1>1, <1>2, SumsAre DEF Adds
<1>4. Sums(f, U)[U] = Sums(k, V)[U]
  <2>1. PICK h : h = [x \in U |-> x]
    OBVIOUS
  <2>2. {h[x] : x \in U} = U
    BY <2>1
  <2>3. Sums(f, U)[U] = Sums(k, V)[{h[x] : x \in U}]
    <3>1. \A x \in U : h[x] \in V /\ f[x] = k[h[x]]
      BY <1>2, <2>1
    <3>2. \A x, y \in U : h[x] = h[y] => x = y
      BY <2>1
    <3> QED
      BY <1>2, <3>1, <3>2, SumsOfImage
  <2> QED
    BY <2>2, <2>3
<1> QED
  BY <1>1, <1>3, <1>4 DEF Total

-------------------------------------------------------------------------------
(* What a walk has counted. *)

Counted(r) == IF mode = "extract" THEN Walk!Min({r.size, r.there}) ELSE r.size

Bytes == [i \in DOMAIN seen |-> Counted(seen[i].record)]

\* The statistics are those of what was seen so far.
StatisticsAre ==
    mode # "read" =>
        statistics.files = Cardinality(Walk!Files) /\ statistics.bytes = Total(Bytes, Walk!Files)

LEMMA TotalOfSame ==
    ASSUME NEW f, NEW k, NEW U, Addable(f, U), \A x \in U : k[x] = f[x]
    PROVE  Total(f, U) = Total(k, U)
<1>1. PICK h : h = [x \in U |-> x]
  OBVIOUS
<1>2. Addable(k, U) /\ \A x \in U : h[x] = x
  BY <1>1 DEF Addable
<1>3. {h[x] : x \in U} = U
  BY <1>2
<1>4. Sums(f, U)[U] = Sums(k, U)[{h[x] : x \in U}]
  <2>1. \A x \in U : h[x] \in U /\ f[x] = k[h[x]]
    BY <1>2
  <2>2. \A x, y \in U : h[x] = h[y] => x = y
    BY <1>2
  <2> QED
    BY <1>2, <2>1, <2>2, SumsOfImage
<1> QED
  BY <1>3, <1>4 DEF Total

LEMMA CountedIsNumber ==
    ASSUME NEW r, r.size \in Nat, r.there \in Nat
    PROVE  Counted(r) \in Nat
<1>1. PICK x \in Int, y \in Int : x = r.size /\ y = r.there
  OBVIOUS
<1>2. Walk!Min({x, y}) \in {x, y}
  BY MinOfTwo DEF Min, Walk!Min
<1> QED
  BY <1>1, <1>2 DEF Counted

LEMMA FilesAreAddable ==
    ASSUME WalkTyped
    PROVE  Addable(Bytes, Walk!Files) /\ Walk!Files \subseteq 1..Len(seen) /\ Len(seen) \in Nat
<1>1. seen \in Seq(SeenSet)
  BY DEF WalkTyped
<1>2. Len(seen) \in Nat /\ DOMAIN seen = 1..Len(seen)
  BY <1>1
<1>3. Walk!Files \subseteq 1..Len(seen)
  BY <1>2, Zenon DEF Walk!Files
<1>4. IsFiniteSet(Walk!Files)
  <2>1. PICK n \in Nat : n = Len(seen)
    BY <1>2
  <2>2. IsFiniteSet(1..n)
    BY FS_Interval
  <2>3. Walk!Files \in SUBSET (1..n)
    BY <1>3, <2>1
  <2> QED
    BY <2>2, <2>3, FS_Subset
<1>5. ASSUME NEW i \in 1..Len(seen)
      PROVE  Bytes[i] \in Nat
  <2>1. seen[i] \in SeenSet
    BY <1>1
  <2>2. seen[i].record \in RecordsOf(Found)
    BY <2>1 DEF SeenSet
  <2>3. seen[i].record.size \in Nat /\ seen[i].record.there \in Nat
    <3>1. partition # 0
      BY <1>2 DEF WalkTyped
    <3>2. Walk!IsVolume(Found)
      BY <3>1, FoundIsVolume
    <3> QED
      BY <2>2, <3>2 DEF RecordsOf, Walk!IsVolume
  <2>4. Bytes[i] = Counted(seen[i].record)
    BY <1>2 DEF Bytes
  <2> QED
    BY <2>3, <2>4, CountedIsNumber
<1> QED
  BY <1>2, <1>3, <1>4, <1>5 DEF Addable

LEMMA NothingIsCounted ==
    ASSUME seen = << >>, statistics = NothingCounted
    PROVE  StatisticsAre
<1>1. Walk!Files = {}
  BY DEF Walk!Files
<1>2. statistics.files = 0 /\ statistics.bytes = 0
  BY DEF NothingCounted
<1>3. Cardinality({}) = 0 /\ Total(Bytes, {}) = 0
  BY TotalOfNothing, FS_EmptySet
<1> QED
  BY <1>1, <1>2, <1>3 DEF StatisticsAre

LEMMA NothingIsCountedNext ==
    ASSUME seen' = << >>, statistics' = NothingCounted
    PROVE  StatisticsAre'
<1>1. Walk!Files' = {}
  BY DEF Walk!Files
<1>2. statistics'.files = 0 /\ statistics'.bytes = 0
  BY DEF NothingCounted
<1>3. Cardinality({}) = 0 /\ Total(Bytes', {}) = 0
  BY TotalOfNothing, FS_EmptySet
<1> QED
  BY <1>1, <1>2, <1>3 DEF StatisticsAre

LEMMA SameIsCounted ==
    ASSUME StatisticsAre, UNCHANGED <<mode, seen, statistics>>
    PROVE  StatisticsAre'
<1>1. Walk!Files' = Walk!Files /\ Bytes' = Bytes
  BY DEF Walk!Files, Bytes, Counted
<1> QED
  BY <1>1 DEF StatisticsAre

LEMMA OneMoreIsCounted ==
    ASSUME WalkTyped, StatisticsAre, mode' = mode,
           frames # << >>, Walk!Top.next <= Len(Walk!Records), Walk!See,
           \/ Walk!Record.is_directory /\ statistics' = statistics
           \/ ~Walk!Record.is_directory /\ Walk!Count(Counted(Walk!Record))
    PROVE  StatisticsAre'
<1> SUFFICES ASSUME mode # "read"
             PROVE  /\ statistics'.files = Cardinality(Walk!Files')
                    /\ statistics'.bytes = Total(Bytes', Walk!Files')
  BY DEF StatisticsAre
<1>1. PICK new : new = [path |-> Walk!Path, record |-> Walk!Record]
  OBVIOUS
<1>2. new \in SeenSet /\ seen \in Seq(SeenSet) /\ seen' = Append(seen, new) /\ new.record = Walk!Record
  BY <1>1, ThisRecord DEF WalkTyped, Walk!See
<1>3. PICK n : n = Len(seen) + 1
  OBVIOUS
<1>4. /\ Len(seen) \in Nat /\ DOMAIN seen = 1..Len(seen) /\ DOMAIN seen' = DOMAIN seen \cup {n}
      /\ \A i \in DOMAIN seen : seen'[i] = seen[i] /\ i # n
      /\ seen'[n] = new /\ n \notin DOMAIN seen
  BY <1>2, <1>3
<1>5. PICK now : now = Bytes'
  OBVIOUS
<1>6. /\ \A i \in DOMAIN seen : now[i] = Bytes[i]
      /\ now[n] = Counted(Walk!Record)
  <2>1. \A r : Counted(r)' = Counted(r)
    BY DEF Counted
  <2>2. now = [i \in DOMAIN seen' |-> Counted(seen'[i].record)]
    BY <1>5, <2>1 DEF Bytes
  <2> QED
    BY <1>2, <1>4, <2>2 DEF Bytes
<1>7. PICK U : U = Walk!Files
  OBVIOUS
<1>8. Addable(Bytes, U) /\ U \subseteq DOMAIN seen /\ n \notin U
  BY <1>4, <1>7, FilesAreAddable
<1>9. statistics.files = Cardinality(U) /\ statistics.bytes = Total(Bytes, U)
  BY <1>7 DEF StatisticsAre
<1>10. \A i \in U : now[i] = Bytes[i]
  BY <1>6, <1>8
<1>11. Walk!Files' = {i \in DOMAIN seen' : ~seen'[i].record.is_directory}
  BY DEF Walk!Files
<1>12. CASE Walk!Record.is_directory /\ statistics' = statistics
  <2>1. Walk!Files' = U
    BY <1>2, <1>4, <1>7, <1>11, <1>12 DEF Walk!Files
  <2>2. Total(Bytes, U) = Total(now, U)
    BY <1>8, <1>10, TotalOfSame
  <2> QED
    BY <1>5, <1>9, <1>12, <2>1, <2>2
<1>13. CASE ~Walk!Record.is_directory /\ Walk!Count(Counted(Walk!Record))
  <2>1. Walk!Files' = U \cup {n}
    BY <1>2, <1>4, <1>7, <1>11, <1>13 DEF Walk!Files
  <2>2. now[n] \in Nat
    BY <1>6, ThisRecord, CountedIsNumber
  <2>3. Total(now, U \cup {n}) = Total(Bytes, U) + now[n]
    BY <1>8, <1>10, <2>2, TotalOfMore
  <2>4. Cardinality(U \cup {n}) = Cardinality(U) + 1
    BY <1>8, FS_AddElement DEF Addable
  <2>5. /\ statistics'.files = statistics.files + 1
        /\ statistics'.bytes = statistics.bytes + now[n]
    BY <1>6, <1>13 DEF Walk!Count
  <2> QED
    BY <1>5, <1>9, <2>1, <2>3, <2>4, <2>5
<1> QED
  BY <1>12, <1>13

LEMMA TripKeepsStatistics ==
    ASSUME TripTyped, StatisticsAre, [TripNext]_trip_vars
    PROVE  StatisticsAre'
<1>0. WalkTyped
  BY DEF TripTyped
<1>1. CASE ReadBack
  <2>1. seen' = seen /\ statistics' = statistics /\ partition = 0
    BY <1>1 DEF ReadBack, TripTyped, WalkTyped
  <2> QED
    BY <1>0, <2>1, NothingIsCountedNext DEF WalkTyped
<1>2. CASE Rewrite
  <2>1. seen' = << >> /\ statistics' = statistics /\ mode = "read"
    BY <1>2 DEF Rewrite
  <2> QED
    BY <1>0, <2>1, NothingIsCountedNext DEF WalkTyped
<1>3. CASE UNCHANGED walk_vars
  BY <1>3, SameIsCounted DEF walk_vars
<1>4. CASE Walk!NoMagic \/ Walk!SecondMagicMissing \/ Walk!NoFiles \/ Walk!OpenVolume
           \/ Walk!SkipDirectory \/ Walk!LeaveTable \/ Walk!DuplicateName \/ Walk!NameIsTaken
           \/ Walk!OpenTarget \/ Walk!ExtractChunk \/ Walk!TableIsCorrupt \/ Walk!Fail
  <2>1. UNCHANGED <<mode, seen, statistics>>
    BY <1>4 DEF Walk!NoMagic, Walk!SecondMagicMissing, Walk!NoFiles, Walk!OpenVolume,
       Walk!SkipDirectory, Walk!LeaveTable, Walk!DuplicateName, Walk!NameIsTaken,
       Walk!OpenTarget, Walk!ExtractChunk, Walk!TableIsCorrupt, Walk!Fail, Walk!End, Walk!inputs
  <2> QED
    BY <2>1, SameIsCounted
<1>5. CASE Walk!VisitDirectory
  <2>1. /\ pc = "walk" /\ Walk!Top.next <= Len(Walk!Records) /\ Walk!See /\ mode' = mode
        /\ Walk!Record.is_directory /\ statistics' = statistics
    BY <1>5 DEF Walk!VisitDirectory, Walk!HasNext, Walk!inputs
  <2> QED
    BY <1>0, <2>1, OneMoreIsCounted DEF WalkTyped
<1>6. CASE Walk!VisitFile
  <2>1. /\ pc = "walk" /\ Walk!Top.next <= Len(Walk!Records) /\ Walk!See /\ mode' = mode
        /\ ~Walk!Record.is_directory /\ mode # "extract"
        /\ mode = "list" => Walk!Count(Walk!Record.size)
    BY <1>6 DEF Walk!VisitFile, Walk!HasNext, Walk!inputs
  <2>2. CASE mode = "list"
    <3>1. Walk!Count(Counted(Walk!Record))
      BY <2>1, <2>2 DEF Counted
    <3> QED
      BY <1>0, <2>1, <3>1, OneMoreIsCounted DEF WalkTyped
  <2>3. CASE mode # "list"
    <3>1. mode = "read"
      BY <1>0, <2>1, <2>3 DEF WalkTyped, Walk!Modes
    <3> QED
      BY <2>1, <3>1 DEF StatisticsAre
  <2> QED
    BY <2>2, <2>3
<1>7. CASE Walk!CloseTarget
  <2>1. pc = "extract" /\ Walk!Extracted /\ Walk!Count(copied) /\ Walk!See /\ mode' = mode
    BY <1>7 DEF Walk!CloseTarget, Walk!inputs
  <2>2. AtFile /\ frames # << >>
    BY <1>0, <2>1 DEF WalkTyped
  <2>3. copied = Counted(Walk!Record)
    BY <1>0, <2>1, <2>2, AllIsCopied DEF AtFile, Counted
  <2> QED
    BY <1>0, <2>1, <2>2, <2>3, OneMoreIsCounted DEF AtFile
<1> QED
  BY <1>1, <1>2, <1>3, <1>4, <1>5, <1>6, <1>7
     DEF TripNext, trip_vars, Create, CreateFails, Change, Read, ReadFails, Walk!Step

AddsUp(g, f, U) == \A s \in SUBSET U : g[s] = SumStep(f, g, s)

LEMMA SumsAreUnique ==
    ASSUME NEW f, NEW U, IsFiniteSet(U), NEW g, AddsUp(g, f, U), NEW h, AddsUp(h, f, U)
    PROVE  g[U] = h[U]
<1> DEFINE P == {s \in SUBSET U : g[s] = h[s]}
<1>1. {} \in P
  BY DEF AddsUp, SumStep
<1>2. ASSUME NEW s \in SUBSET U, s # {}, \A x \in s : s \ {x} \in P
      PROVE  s \in P
  <2>1. PICK t : t = s \ {One(s)}
    OBVIOUS
  <2>2. g[t] = h[t]
    BY <1>2, <2>1, OneOf
  <2>3. g[s] = f[One(s)] + g[t] /\ h[s] = f[One(s)] + h[t]
    BY <1>2, <2>1 DEF AddsUp, SumStep
  <2> QED
    BY <2>2, <2>3
<1>3. SUBSET U \subseteq P
  <2> HIDE DEF P
  <2> QED
    BY <1>1, <1>2, SmallerFirst
<1> QED
  BY <1>3

LEMMA SumsAddUp ==
    ASSUME NEW f, NEW U, IsFiniteSet(U)
    PROVE  \E h : h = [s \in SUBSET U |-> h[s]] /\ AddsUp(h, f, U) /\ h[U] = Total(f, U)
<1>1. PICK h : h = [s \in SUBSET U |-> Sums(f, U)[s]]
  OBVIOUS
<1>2. ASSUME NEW s \in SUBSET U
      PROVE  h[s] = SumStep(f, h, s)
  <2>1. h[s] = SumStep(f, Sums(f, U), s)
    BY <1>1, SumsExist
  <2>2. PICK t \in SUBSET U : t = s \ {One(s)}
    OBVIOUS
  <2>3. h[t] = Sums(f, U)[t]
    BY <1>1
  <2> QED
    BY <2>1, <2>2, <2>3 DEF SumStep
<1>3. h = [s \in SUBSET U |-> h[s]] /\ h[U] = Total(f, U)
  BY <1>1 DEF Total
<1> QED
  BY <1>2, <1>3 DEF AddsUp

\* The sums of the properties are those of the invariant.
LEMMA SumOfSeen ==
    ASSUME NEW U, IsFiniteSet(U)
    PROVE  Walk!SumOf(LAMBDA i : seen[i].record.size, U) = Total([i \in U |-> seen[i].record.size], U)
<1> DEFINE Step(g, s) ==
        IF s = {} THEN 0 ELSE seen[CHOOSE x \in s : TRUE].record.size + g[s \ {CHOOSE x \in s : TRUE}]
           G == CHOOSE g : g = [s \in SUBSET U |-> Step(g, s)]
<1>1. Walk!SumOf(LAMBDA i : seen[i].record.size, U) = G[U]
  BY DEF Walk!SumOf, Walk!MapThenSumSet, Walk!MapThenFoldSet
<1>2. PICK f : f = [i \in U |-> seen[i].record.size]
  OBVIOUS
<1>3. ASSUME NEW g, NEW s \in SUBSET U
      PROVE  Step(g, s) = SumStep(f, g, s)
  BY <1>2, OneOf DEF SumStep, One
<1>4. PICK h : h = [s \in SUBSET U |-> h[s]] /\ AddsUp(h, f, U) /\ h[U] = Total(f, U)
  BY SumsAddUp
<1> HIDE DEF Step
<1>5. h = [s \in SUBSET U |-> Step(h, s)]
  BY <1>3, <1>4 DEF AddsUp
<1>6. G = [s \in SUBSET U |-> Step(G, s)]
  BY <1>5
<1> HIDE DEF G
<1>7. AddsUp(G, f, U)
  BY <1>3, <1>6 DEF AddsUp
<1> QED
  BY <1>1, <1>2, <1>4, <1>7, SumsAreUnique

LEMMA SumOfDisk ==
    ASSUME NEW U, IsFiniteSet(U)
    PROVE  Walk!SumOf(LAMBDA p : disk[p].size, U) = Total([p \in U |-> disk[p].size], U)
<1> DEFINE Step(g, s) ==
        IF s = {} THEN 0 ELSE disk[CHOOSE x \in s : TRUE].size + g[s \ {CHOOSE x \in s : TRUE}]
           G == CHOOSE g : g = [s \in SUBSET U |-> Step(g, s)]
<1>1. Walk!SumOf(LAMBDA p : disk[p].size, U) = G[U]
  BY DEF Walk!SumOf, Walk!MapThenSumSet, Walk!MapThenFoldSet
<1>2. PICK f : f = [p \in U |-> disk[p].size]
  OBVIOUS
<1>3. ASSUME NEW g, NEW s \in SUBSET U
      PROVE  Step(g, s) = SumStep(f, g, s)
  BY <1>2, OneOf DEF SumStep, One
<1>4. PICK h : h = [s \in SUBSET U |-> h[s]] /\ AddsUp(h, f, U) /\ h[U] = Total(f, U)
  BY SumsAddUp
<1> HIDE DEF Step
<1>5. h = [s \in SUBSET U |-> Step(h, s)]
  BY <1>3, <1>4 DEF AddsUp
<1>6. G = [s \in SUBSET U |-> Step(G, s)]
  BY <1>5
<1> HIDE DEF G
<1>7. AddsUp(G, f, U)
  BY <1>3, <1>6 DEF AddsUp
<1> QED
  BY <1>1, <1>2, <1>4, <1>7, SumsAreUnique

LEMMA StatisticsAreEnough ==
    ASSUME WalkTyped, DiskIs, StatisticsAre
    PROVE  Walk!StatisticsAreTrue
<1>1. /\ Addable(Bytes, Walk!Files) /\ Walk!Files \subseteq 1..Len(seen) /\ Len(seen) \in Nat
      /\ seen \in Seq(SeenSet) /\ DOMAIN seen = 1..Len(seen)
  BY FilesAreAddable DEF WalkTyped
<1>2. PICK U : U = Walk!Files
  OBVIOUS
<1>3. IsFiniteSet(U) /\ Addable(Bytes, U)
  BY <1>1, <1>2 DEF Addable
<1>4. ASSUME pc = "done", mode = "list"
      PROVE  /\ statistics.files = Cardinality(Walk!Files)
             /\ statistics.bytes = Walk!SumOf(LAMBDA i : seen[i].record.size, Walk!Files)
  <2>1. statistics.files = Cardinality(U) /\ statistics.bytes = Total(Bytes, U)
    BY <1>2, <1>4 DEF StatisticsAre
  <2>2. PICK f : f = [i \in U |-> seen[i].record.size]
    OBVIOUS
  <2>3. \A i \in U : f[i] = Bytes[i]
    BY <1>1, <1>2, <1>4, <2>2 DEF Bytes, Counted
  <2>4. Total(Bytes, U) = Total(f, U)
    BY <1>3, <2>3, TotalOfSame
  <2>5. Walk!SumOf(LAMBDA i : seen[i].record.size, U) = Total(f, U)
    BY <1>3, <2>2, SumOfSeen
  <2> QED
    BY <1>2, <2>1, <2>4, <2>5
<1>5. ASSUME pc = "done", mode = "extract", Walk!PathsDiffer,
             NEW made, made = {p \in DOMAIN disk : disk[p].kind = "file"}
      PROVE  /\ statistics.files = Cardinality(made)
             /\ statistics.bytes = Walk!SumOf(LAMBDA p : disk[p].size, made)
             /\ \A i \in Walk!Files : disk[seen[i].path] =
                   [kind    |-> "file",
                    size    |-> Walk!Min({seen[i].record.size, seen[i].record.there}),
                    content |-> seen[i].record.start]
  <2>1. statistics.files = Cardinality(U) /\ statistics.bytes = Total(Bytes, U)
    BY <1>2, <1>5 DEF StatisticsAre
  <2>2. ASSUME NEW i \in DOMAIN seen
        PROVE  seen[i].path \in DOMAIN disk /\ disk[seen[i].path] = MadeFrom(seen[i].record)
    <3>1. partition # 0
      BY <1>1 DEF WalkTyped
    <3>2. DiskOf(disk, Seen, {})
      BY <1>5, <3>1 DEF DiskIs, Target
    <3>3. seen[i] \in Seen /\ seen[i].path # << >>
      <4>1. seen[i] \in Seen
        BY DEF Seen, Walk!Range
      <4>2. seen[i] \in SeenSet
        BY <1>1
      <4> QED
        BY <4>1, <4>2 DEF SeenSet
    <3>4. seen[i].path \in DOMAIN disk
      BY <3>2, <3>3 DEF DiskOf
    <3>5. PICK e \in Seen : e.path = seen[i].path /\ disk[seen[i].path] = MadeFrom(e.record)
      BY <3>2, <3>3, <3>4 DEF DiskOf
    <3>6. PICK j \in DOMAIN seen : seen[j] = e
      BY DEF Seen, Walk!Range
    <3>7. j = i
      BY <1>5, <3>5, <3>6 DEF Walk!PathsDiffer
    <3> QED
      BY <3>4, <3>5, <3>6, <3>7
  <2>3. ASSUME NEW p \in made
        PROVE  \E i \in U : seen[i].path = p
    <3>1. partition # 0
      BY <1>5 DEF WalkTyped
    <3>2. DiskOf(disk, Seen, {})
      BY <1>5, <3>1 DEF DiskIs, Target
    <3>3. p \in DOMAIN disk /\ disk[p].kind = "file"
      BY <1>5
    <3>4. p # << >>
      BY <3>2, <3>3 DEF DiskOf, Walk!Directory
    <3>5. PICK e \in Seen : e.path = p /\ disk[p] = MadeFrom(e.record)
      BY <3>2, <3>3, <3>4 DEF DiskOf
    <3>6. ~e.record.is_directory
      BY <3>3, <3>5 DEF MadeFrom, Walk!Directory
    <3>7. PICK j \in DOMAIN seen : seen[j] = e
      BY DEF Seen, Walk!Range
    <3> QED
      BY <1>2, <3>5, <3>6, <3>7 DEF Walk!Files
  <2>4. ASSUME NEW i \in U
        PROVE  /\ i \in DOMAIN seen /\ seen[i].path \in made
               /\ disk[seen[i].path] =
                     [kind    |-> "file",
                      size    |-> Walk!Min({seen[i].record.size, seen[i].record.there}),
                      content |-> seen[i].record.start]
               /\ Bytes[i] = disk[seen[i].path].size
    <3>1. i \in DOMAIN seen /\ ~seen[i].record.is_directory
      BY <1>2 DEF Walk!Files
    <3>2. seen[i].path \in DOMAIN disk /\ disk[seen[i].path] = MadeFrom(seen[i].record)
      BY <2>2, <3>1
    <3>3. disk[seen[i].path] =
             [kind    |-> "file",
              size    |-> Walk!Min({seen[i].record.size, seen[i].record.there}),
              content |-> seen[i].record.start]
      BY <3>1, <3>2 DEF MadeFrom
    <3>4. Bytes[i] = Walk!Min({seen[i].record.size, seen[i].record.there})
      BY <1>5, <3>1 DEF Bytes, Counted
    <3> QED
      BY <1>5, <3>1, <3>2, <3>3, <3>4
  <2>5. PICK h : h = [i \in U |-> seen[i].path]
    OBVIOUS
  <2>6. PICK f : f = [p \in made |-> disk[p].size]
    OBVIOUS
  <2>7. /\ \A i \in U : h[i] \in made /\ Bytes[i] = f[h[i]]
        /\ \A i, j \in U : h[i] = h[j] => i = j
        /\ \A p \in made : \E i \in U : h[i] = p
    <3>1. \A i \in U : h[i] \in made /\ Bytes[i] = f[h[i]]
      BY <2>4, <2>5, <2>6
    <3>2. \A i, j \in U : h[i] = h[j] => i = j
      BY <1>5, <2>4, <2>5 DEF Walk!PathsDiffer
    <3>3. \A p \in made : \E i \in U : h[i] = p
      BY <2>3, <2>5
    <3> QED
      BY <3>1, <3>2, <3>3
  <2>8. IsFiniteSet(made) /\ Cardinality(made) = Cardinality(U)
    <3>1. h \in Bijection(U, made)
      BY <2>5, <2>7 DEF Bijection, Injection, Surjection, IsInjective
    <3> QED
      BY <1>3, <3>1, FS_Bijection DEF ExistsBijection
  <2>9. Addable(f, made)
    <3>1. \A p \in made : f[p] \in Nat
      BY <1>5, <2>6 DEF WalkTyped, MadeSet
    <3> QED
      BY <2>8, <3>1 DEF Addable
  <2>10. Total(Bytes, U) = Total(f, made)
    BY <1>3, <2>7, <2>9, TotalOfImage
  <2>11. Walk!SumOf(LAMBDA p : disk[p].size, made) = Total(f, made)
    BY <2>6, <2>8, SumOfDisk
  <2> QED
    BY <1>2, <2>1, <2>4, <2>8, <2>10, <2>11
<1>6. ASSUME pc = "done", mode = "extract", Walk!PathsDiffer
      PROVE  LET made == {p \in DOMAIN disk : disk[p].kind = "file"}
             IN  /\ statistics.files = Cardinality(made)
                 /\ statistics.bytes = Walk!SumOf(LAMBDA p : disk[p].size, made)
                 /\ \A i \in Walk!Files : disk[seen[i].path] =
                       [kind    |-> "file",
                        size    |-> Walk!Min({seen[i].record.size, seen[i].record.there}),
                        content |-> seen[i].record.start]
  BY <1>5, <1>6
<1>7. \A S : Walk!Cardinality(S) = Cardinality(S)
  BY DEF Walk!Cardinality, Cardinality
<1> QED
  BY <1>4, <1>6, <1>7, Zenon DEF Walk!StatisticsAreTrue

\* The statistics of a list are those of what was listed, those of an extraction
\* also those of what is then on the disk, for any image, damaged ones included.
THEOREM TripCountsRight == TripSpec => []StatisticsAreTrue
<1>1. TripInit => TripTyped /\ DiskIs /\ StatisticsAre
  BY TripStartsTyped, DiskStarts, NothingIsCounted
     DEF TripInit, Walk!Begin, NothingCounted
<1>2. TripTyped /\ DiskIs /\ StatisticsAre /\ [TripNext]_trip_vars
      => TripTyped' /\ DiskIs' /\ StatisticsAre'
  BY TripKeepsTypes, TripKeepsDisk, TripKeepsStatistics
<1>3. TripTyped /\ DiskIs /\ StatisticsAre => StatisticsAreTrue
  BY StatisticsAreEnough DEF TripTyped, StatisticsAreTrue
<1> QED
  BY <1>1, <1>2, <1>3, PTL DEF TripSpec
===============================================================================
