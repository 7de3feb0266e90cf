# extract-xiso: a verification project

TLA+ models of extract-xiso, a command line program that creates, lists, extracts
and rewrites Xbox disc images (XISO). The modules follow the C++ sources; paths
below are relative to the repository. `PROJECT.json` maps every definition to the
lines it stands for and lists the runs, their mutants, the hazards and the theorems.

To check a run: `tlc -config X.cfg M`; to check proofs: `tlapm M.tla`.

## The system

The program is a single thread and a library of small parts:

| part | source | state | operations |
|---|---|---|---|
| command line | `main/main.cpp` | the batch, `failed`, totals | one operation per image or `-c` group; an `Error` ends only that one |
| operations | `src/operations.cpp` | files on disk | `list_image`, `extract_image`, `rewrite_image`, `create_image` |
| image writer | `src/image_writer.cpp` | output file and its position, sector numbers, table offsets | `layout_directory`, `assign_sectors`, `write_tree`, `write_file`, descriptors, tag |
| media patch | `src/media_patch.cpp` | a buffer | `patch_media_check` |
| AVL tree | `include/xiso/avl_tree.hpp` | nodes with skews | `insert`, `for_each_preorder` |
| image reader | `include/xiso/image_reader.hpp`, `src/image_reader.cpp` | input file and its one position, partition offset | `walk_directory`, `read_record`, `is_optimized` |
| content sources | `src/content_source.cpp` | a file, or the shared image reader | `open`, `read` |
| directory scan | `src/fs_scan.cpp` | an entry tree | `scan_directory` |
| binary files | `src/binary_file.cpp` | a stream | open, seek, read, write, fill, close |

How they interact. `rewrite_image` looks at the image, renames it to `.old`, has
`read_tree` read the directory tables with `walk_directory` into AVL trees, and has
`write_image` write those trees, with the contents read from the `.old` file.
`create_image` does the same with the tree of `scan_directory`. `list_image` and
`extract_image` go through the tables with `TreeWalker`, one walk inside the other. The shape of an AVL
tree is the layout of the directory table: the writer visits it in preorder, stores
links to the children, and the reader finds the preorder again by following them.
`walk_directory` calls back into its caller, which walks other tables or copies files
through the same stream, so the file position is shared state across a callback.
Nothing is concurrent; what is hard is failure (every call on a file can fail, and a
rewrite consists of many), kills and repeated runs, tables that are damaged, sizes
that change while files are copied, and arithmetic at sector and link limits.

What makes each part correct:

* **rewrite**: no image is ever lost; a failed rewrite leaves things as they were; a
  successful one leaves a whole image; each rewrite is one step for the observer. (One
  ignored error breaks the first two, see "What does not hold".)
* **writer**: no two tables or files share sectors, no entry crosses a sector, links
  read back, what is stored about a file is true of the bytes copied, and an image
  with the optimized tag is whole.
* **file copy and media patch**: the copied file is the patched file, however it is read.
* **AVL tree**: sorted, balanced, complete.
* **reader**: any table ends the walk; each entry read is visited once; a table that
  was written is read as it was meant; nested walks end, whatever the tables say.
* **create, list, extract**: what is in the directory is in the image and comes out
  again; a failure leaves no incomplete image and shows in the exit code; the
  statistics are true.

## The modules

| module | models | state and actions |
|---|---|---|
| `XisoFormat` | the numbers of `format.hpp`, `sectors_for`, `padding_for`, the placement rule of `layout_directory` | operators; constants under `FormatAssumption` |
| `TableLayout` | one table, `layout_directory` and then `write_entry` | `PlaceEntry` is a visit of the first pass, `WriteEntry` of the second; `position` is the file position |
| `MediaCheck` | where the media check sequence occurs, and what a patched file is | operators |
| `MediaPatch` | `patch_media_check` | `PatchMatch` is one turn of its loop |
| `FileCopy` | `write_file` | `ReadChunk` is one turn of its loop, with any short read; `ReadEnd`, `FinishFile`, `Fail` |
| `ImageLayout` | `ImageWriter::write` for whole trees | `AssignSectors` per item, `EnterDirectory`, `CopyFile`, `WriteTable` as `write_tree` recurses, then padding, descriptors, tag, close |
| `AvlTree` | `insert`, `insert_node`, `left_grown`, `right_grown`, the rotations | nodes with `child` pointers and skews; `calls` are the calls of `insert_node` that wait, one action per call that is made, that ends or that returns to a caller it must balance |
| `AvlReread` | a tree, and the one that comes of inserting its entries in the order in which a table is read | extends `AvlTree` |
| `DirectoryWalk` | `walk_directory` on one table | `position`, `link_bytes`, the stack and the two calls of `on_read` and `on_visit`; one action per branch |
| `DirectoryRoundTrip` | composes the writer's tables with `DirectoryWalk` | the table is `WrittenTable(directory)` |
| `TreeWalk` | the reader's constructor, `TreeWalker::walk`, `visit_directory`, `visit_file`, `extract_file`, `read_tree` | `frames` are the nested calls of `walk`; one action per record visited, per chunk extracted and per way a walk ends; `disk` is what extraction makes |
| `CreateImage` | the loop over `-c` groups, `create_image`, `scan_into`, `write_image` | `scanning` are the nested calls of `scan_into`; one action per entry looked at, per file copied and per call that fails; `FileChanges` is the environment |
| `ImageTrip` | composes `CreateImage` and `TreeWalk` through `WrittenImage`, and `read_tree` with `write_image` in `Rewrite` | `ReadBack` shows an image that was made, `ForeignImages` are all the images from elsewhere that may be met (`TripAssumption` says what any file can be) |
| `ImageFiles` | what `rewrite_image` tells apart about a file | operators |
| `RewriteImages` | `rewrite_image`, `write_image` and the loop of `main` | one action per call on the file system and per way it fails, `OldIsOverlooked` (the look at the `.old` name fails) among them; `KilledAndRunAgain`; `ignored` and `unseen` remember the errors that the code drops |
| `RewriteContract` | the abstract specification of a batch | each image is skipped, fails, is stranded or succeeds in one step; a `.old` file that is there is kept unless `Overlook` came before |

`MC*` modules give the constants their values; `*Lemmas` and `*Proofs` hold theorems.
An operator under a comment `Mistake:` is a wrong variant of the definition behind it:
put in its place, it breaks the property that `PROJECT.json` names, so each property
is known to depend on the code it is about.

### Composition

`PatchesEveryMatch` shows that `patch_media_check` computes `Patched`, and `FileCopy`
uses that operator for its call. `SizeFitsTheData` shows that a copied file fills whole
sectors, no more than were reserved, and `TableFillsItsSectors` the same of a table:
in `ImageLayout` both are extents. `TaggedImagesAreWhole` is what lets `RewriteImages`
treat an image as partial until it has the tag, and as whole from then on.
`DirectoryRoundTrip` shows that a table is read as it was written, and that the walk of
one table hands over its records: `TreeWalk` starts from that, and `ImageTrip` gives it
the tables that `CreateImage`'s tree becomes (`WrittenImage`), so that one run follows a
directory into an image and out of it again, and a foreign image through a rewrite.
`RewriteImages` implements `RewriteContract`: the refinement shows the files as they
were when the current image was begun, so that all its calls are one step, with one
before it if its `.old` file was overlooked.

### Abstractions

* File contents: in `RewriteImages` a file is nothing, no image, an image without
  files, an image of a disc, a rewritten or a partial image. The root table, the
  descriptors and the tag, which are written last, are one step there; `ImageLayout`
  has them one by one.
* In `RewriteImages` the rename, the removal and the opening of a file are atomic, as
  the file system makes them. Nobody else changes the files.
* A table in `DirectoryWalk` says what starts at each dword: an entry, padding, or
  something the reader cannot read. Names are lengths; their order is in `AvlTree`.
* In `ImageLayout` a tree is the sequence of its items in the order in which
  `assign_sectors` and `write_tree` both come to them.
* In `TreeWalk` a table is the sequence of the records that its walk visits and whether
  it then ends or throws; the links are in `DirectoryWalk`. Which tables are where is
  arbitrary: shared, circular, absent. Sectors are tuples; in an image that
  `ImageTrip` writes, the place of a table is its path. Where such a table has a name
  the reader does not take, the walk ends there; which entries it has visited by then
  depends on the tree of the table, and is the constant `Early`, of which the
  assumptions say nothing.
* In `CreateImage` the file system is a graph of nodes, and links are followed: a node
  can have several names and a directory can be inside itself. The longest path that
  `status` accepts is `MaxPath`. Files change only between the scan and their copy (an
  earlier change is another file system to begin with), directories do not change. An
  image found in a directory is `ImageSize` long, which may be too large for it. The
  sectors of an image are left to `ImageLayout`, patching to `FileCopy`: a file's
  content is its node.
* Names are model values; `Key` says which are equal to `compare_names`.
* Extraction starts in an empty directory.
* Streams are unbuffered: a kill leaves what was written up to then.

## The runs

| run | bounds | why they are enough |
|---|---|---|
| `table_layout` | `MaxLink` at a few sectors, name lengths that make entries end at, before and across a boundary | the table reaches its size limit, both errors occur |
| `media_patch` | buffers of up to 7 over 4 byte values, a sequence of 3 | two occurrences, touching ones, near misses |
| `file_copy` | files of up to 6 through a buffer of 4 with a carry of 2 | an occurrence cut at every place, over up to three chunks |
| `image_layout` | trees of up to 5 items, 8 sectors from the root on | directories in each other and side by side, files that shrink to nothing, sector numbers that run out |
| `rewrite` | two images, three rewrites, two kills, `.old` and output files already there or not | in place and elsewhere, the same image again, a kill while running again |
| `rewrite_collision` | two images with one output | the smallest collision |
| `rewrite_cleanup` | as `rewrite` | |
| `avl_tree` | 7 names in 2 spellings, every order, each call of `insert_node` a step | four levels, every rotation at the root and below it |
| `avl_reread` | 4 names, one spelling | the smallest counterexample has 4 |
| `directory_walk` | every table of two sectors of two dwords, 5 records at most | links to themselves and each other, into padding and behind the end |
| `image_trip` | directories of up to two entries out of files, links up, links to nothing, devices, files too large, directories and images; paths of 3 names; one change; images of two tables of up to two records, in one of two partitions; depth limit 1, also a directory without a table below the deepest one | every kind of entry meets every other, a directory contains itself and its image, the scan and the walk each reach their limit, files are cut off in the second chunk |
| `directory_round_trip` | all shapes of up to 4 entries over 5 sectors of 4 dwords | gaps before a boundary, entries that end at one, lists and trees |

The format's proportions are kept when its numbers are made small: `FormatAssumption`
is evaluated on them and the real numbers satisfy it.

Deadlock is checked where the modelled operation never ends: in `avl_tree`, where there
is always another entry to insert. Elsewhere the last operation returns.

### What does not hold

Three runs expect a violation, of something a comment of the code says:

* `rewrite_collision`: the output of a rewrite can be another image of the batch
  (`-r disc1/game.iso disc2/game.iso -d disc2`), which is emptied before it has been
  renamed. All other properties of `RewriteImages` assume `NoCollision`.
* `rewrite_cleanup`: `write_image` removes its output also when opening it failed, and
  so may remove a file it has not written.
* `avl_reread`: inserting the entries of a table in the order they are read need not
  give the tree they were written from, so a rewrite may lay a table out differently.

Without a run of its own:

* `fs::exists` (`operations.cpp:322`) is false also when the look at the `.old` name fails
  or that name is a link to nothing. Its error is never read, and the rename replaces the
  file that the test `RewriteRefusesToOverwriteAnOldFile` expects to stay. After a kill
  while an image is rewritten in place, that file is the only copy of the original, and
  the next run would replace it by the incomplete image. `RewriteImages` has it as the
  code does (`OldIsOverlooked`); the properties below except it.
* `src/include/xiso/fs_scan.hpp:14` says that entries that are neither files nor
  directories are ignored, but for a link to nothing `status` reports an error and the
  scan fails; `CreateImage` has it as the code does.

Properties that hold only up to something the code does not look at, which they name:

* `OriginalsSurvive`, `OldFilesKept`, `FailureRestores`: a `.old` file that the failed
  look did not see (`unseen`, and `"exists"` in `ignored`) may be gone. The contract
  allows it in the same case (`overlooked`). Everything else they say holds all the
  same: the original that the rename moves there is not lost. The other ignored errors,
  of the removals and of the rename back, are excepted where they matter.
* `MadeImagesAreReadable`: `create_image` accepts names the reader refuses (a backslash,
  where the slash separates) and directories deeper than `max_directory_depth`. An
  image that could be read to be rewritten may be refused afterwards: `read_tree` takes
  a directory that has no table (its size is 0) below the deepest one it would open,
  and rewriting gives every directory a table.
* `ImageHoldsTheSource` and `FailureLeavesNoImage` speak of the last group with an
  output: two groups, or two directories of one name, may write to the same.
* `StatisticsAreTrue`: records of the same path are extracted over each other and
  counted twice.
* `TaggedImagesAreWhole`: an image of 2^32 sectors is said to have none.

### Fairness

`RewriteImages` assumes weak fairness of the program's steps as a whole, not of kills
and not of any particular outcome: the program is one thread and takes its next step
unless it is killed, whether the call succeeds or not. `BatchFinishes` needs the bound
on kills, since a program killed for ever finishes nothing. `DirectoryWalk` assumes
weak fairness of its steps without `CallbackThrows`, since no callback has to throw;
`WalkEnds` then rests on the limit of records and of the table's span. `ImageTrip`
assumes the same of `Create` and of `Read`, not of the actions in which a call fails
nor of what the environment does: `OperationsEnd` must not depend on a failure that
ends what would go on for ever. It rests on the longest path in the scan and on the
depth limit in the walk. No other specification needs fairness.

## The proofs

Proofs hold for every value of the constants under the assumptions their modules name.

* **`TableLayoutProofs`**, from `FormatAssumption` and `NameLengthsAssumption`. The
  invariant says of the entries placed so far that each starts at a whole dword within
  the link range and inside one sector, that each begins where the one before ends or
  at the next boundary, and that the writer's position is the end of the last entry
  written. That order of the offsets is needed to see that the writer never goes
  backwards, and that the padding in front of the next entry stays inside a sector.
  `LinksReadBack` also needs that the link range ends at a sector boundary: an entry at
  the very last dword would straddle it.
* **`MediaProofs`**. For `patch_media_check`, from `PatternAssumption`: behind the
  position the buffer is the original and before it the patched original. That the
  sequence has no border, and does not contain the patch byte, is what makes it
  impossible to step over an occurrence or to make or destroy one. For `write_file`,
  also from `CopyAssumption` and `FormatAssumption`: what was written followed by what
  is held back is the patched form of all bytes read, and what is held back is at least
  as long as the longest beginning of an occurrence, so the part that was written is
  final.
* **`AvlTreeProofs`**, from `AvlAssumption`. `NodesTo` and `HeightTo`, with which the
  properties are stated, go down a tree that must be shown to be one first. So the
  invariant (`IInv`) says that there are functions `under` and `h` which give each node
  the nodes below it and its height: `Shape` (every node has one parent, what is on the
  left of a node is below it, what is on the right above), `Heights` (each skew is the
  difference of the heights, but for one more at the one place where a subtree has
  grown and its parent has not been told yet). The waiting calls are a path from the
  root and the new entry belongs on the side each of them names (`CallsInv`); the
  entries stored are the first of each key (`FirstInv`); until something is stored the
  tree is the one of before (`BeforeInv`). Each rotation gets new functions, and at
  rest these agree with `NodesTo` and `HeightTo`.
* **`RewriteImagesProofs`**, under `NoCollision`. The invariant says at each step of the
  current rewrite where the original is and what is under the names involved; it is
  what the code knows at that line. At the rename it knows only that nothing is under
  the `.old` name or that the look at it had failed; that goes along to the end of the
  rewrite, and `unseen` remembers it over the following runs of the batch. From this
  follow the invariants, with their exception, and that every step is one of
  `RewriteContract` or changes nothing there.
* **`DirectoryWalkProofs`**, from `WalkAssumption` and `FormatAssumption`. Entries read
  are split without overlap into those visited, those on the stack and the current one.
  For the round trip it proves `WrittenTablesAreSound`, `EntriesAreReadInLayoutOrder`
  and `EntriesAreVisitedInNameOrder` of every directory that fits a table, of any size
  and shape. The invariant (`RoundTripInv`): what has been read is a beginning of the
  layout (`ReadInOrder`), the entries that wait on the stack are each in the left subtree
  of the one before (`WaitingChain`), so the next entry read is the root of a subtree
  that ends where the innermost of them wants it (`BeforeRead`, `AtEntry`), and whatever
  was visited is before whatever was not (`InOrder`). The theorems assume
  `LinksAreWithinReach`, true of the program's numbers: the limit of records and the
  reader's span are not met before the last offset that a link can name.

* **`ImageLayoutProofs`**, from `LayoutAssumption` and `FormatAssumption`. While the next
  sector fits in 32 bits the sectors handed out ascend (`Ascending`); a number can only
  have lost bits when the next sector is too large too, and then `TooLarge` stops the
  writer before anything is written, but for a root without entries, which takes one
  sector. That is `SectorsAreNotShared`. `Done` are the items that have been come to
  and are not open; each of their sectors holds what belongs there (`Filled`) and
  nothing else has been written (`NothingElse`), which gives `NothingIsOverwritten`.
  For the contents of a table to be final when it is written, everything it names must
  have been come to (`Closed`): here the proof needs that the items are in the order of
  the recursion, so that nothing behind a later item belongs to an earlier directory.
  At the tag everything is done, which is `TaggedImagesAreWhole`.

* **`ImageTripProofs`**, from `CreateAssumption` and `TripAssumption`: any file systems,
  batches and foreign images, damaged ones included. Seven arguments:
  * `CreateInv` says of an image's place which groups can have left what is there: only
    the group at work has a partial image, or one that could not be removed. That is
    `FailureLeavesNoImage`.
  * `CreateTyped`, `WalkTyped` and `TripTyped` are the type invariant. They hold more
    than `TypeOK` asks: the frames of the scan are nested within `MaxPath`, those of
    the walk within the depth limit, and whatever is shown to the reader is an image
    (a tree of files that still have their place), after a rewrite too.
  * `WalkProgress` relates a walk to the breadth-first `Levels` of the volume, a set
    that the walk, which goes depth first, never computes: the frame n deep is a place
    of level n; what a frame has passed is seen; every directory that was seen is
    walked (`Complete`) or is the next frame; and nothing else was seen. When no frame
    is left the root is complete, and by induction along the levels so is every place.
    A walk that is refused is at a place that is too deep, corrupt, or has a name twice.
    That is `WalkSeesTheVolume`.
  * `ScanProgress` does the same for the scan, against the breadth-first `PathsIn`: the
    directory n deep that is being scanned is a place of level n; what is no longer left
    in it is handled (in the tree if it belongs there, not a dangling link, not too deep)
    or is the next directory being scanned; everything in a directory that is in the
    tree is handled, since a directory goes into the tree last; and all that is in the
    tree is somewhere in the directory, under names that differ. When nothing is left
    everything is handled, by induction along the levels (`Holds`); copying files and
    the changes others make to them keep that true for the image (`WriteHolds`,
    `ImagesHold`). `Shows` and `ShowsImage` say it of one path: a link to nothing cannot
    have been met, and an image that was in the directory is in it in full length, but
    for the output, which is being written when it is copied into itself. That is
    `ImageHoldsTheSource`.
  * `ImageIsOf` says where the image being read comes from. The places of a written image
    are exactly the directories of its tree (`WrittenPlaces`, by induction along
    `Levels`), so that it is unreadable only for a name in it or for a directory of depth
    `MaxDepth + 1` (`WhyUnreadable`). What was read to be rewritten had neither such a name
    nor anything deeper; what was made has only what was in its directory
    (`ImagesHold`). With `WalkSeen`, that a refused volume is unreadable, that is
    `MadeImagesAreReadable`.
  * `DiskIs` says that the disk has exactly what was seen, but for the file that is being
    extracted, each entry as its record says (`MadeFrom`). All of a volume is seen, and
    what is seen of a written image is each path of its tree that `-s` does not hide
    (`WrittenIsShown` along the levels, `WrittenIsReached` along the path). With
    `ImagesHold` for an image that was made, and `ImageIsOf` for one that was rewritten,
    that is `ExtractRestoresTheSource`. It needs that a written image is not taken for
    one without files: `NoRoot` is not the place of a written root.
  * `StatisticsAre` says that at each step the statistics are those of what was seen. The
    sums in `StatisticsAreTrue` go over sets, in an order that `CHOOSE` determines; that
    the order does not matter (`SumsAre`), nor what the elements are called
    (`SumsOfImage`), is proved by induction over the parts of a finite set
    (`SmallerFirst`). Where paths differ, paths and entries are paired by `DiskIs`, and
    the sums over what was seen and over the disk are the same.

The lemmas about arithmetic (`XisoFormatLemmas`) and about occurrences in parts of a
sequence (in `MediaProofs`) are stated once and used by name. Where a proof goes by
induction over a number it uses that a set of numbers that is not empty has a least one
(`LeastNumber`, from the well-foundedness of the naturals): functions that are defined
recursively over `0..n`, such as `Levels`, can so be proved about.

Only model-checked: liveness (`BatchFinishes`, `WalkEnds`, `OperationsEnd`), which the
provers cannot do. Every invariant and every property of steps that a passing run checks
is stated by a theorem.

## Not modelled

* Option parsing, names as byte strings, output, endianness, path conversion, the names
  that images get by default: stateless.
* The timestamp, which is copied; the place of the optimized tag in dumps of whole
  discs, where other bytes may be.
* Running out of memory; power loss and the order in which an operating system writes
  to disk; other programs that change images or directories meanwhile.
* Kills while an image is created. Nothing is kept from one run of `-c` to the next; a
  kill leaves the output cut off, which `ImageLayout` has at every step: it does not
  have the tag, but it stays.
* A directory that is reached through `link/..`: `create_image` checks the path as given
  and scans it lexically normalised, which need not be the same directory.

## The plan

1. Done: the files during a rewrite with its contract, ignored errors included; table
   layout, file copy, media patch, AVL tree, directory walk, the round trip, image
   layout; creating, listing and extracting images; the proofs above.
2. `RewriteImages` with two programs at work on the same files, should the code ever
   come to promise something about that.
