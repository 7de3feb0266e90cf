-------------------------- MODULE DirectoryRoundTrip --------------------------
(* A table that was laid out and written by src/image_writer.cpp, read again by *)
(* walk_directory.  The writer's tables are those of all trees of up to         *)
(* MaxEntries entries, of every shape: what the AVL tree builds, and the linked *)
(* lists of other tools, which the reader's compatibility flag is for.          *)
EXTENDS DirectoryWalk

CONSTANTS MaxEntries,       \* TLC only: entries of a directory
          NameLengths       \* lengths of the names that occur

ASSUME RoundTripAssumption ==
    /\ MaxEntries \in Nat
    /\ NameLengths \subseteq 1..MaxNameLength

\* The reader allows for an entry at each place that a link can name
\* (max_records_per_table is 16^^10000), and the table is there to that place.
LinksAreWithinReach == MaxRecords > MaxLink /\ TableDwords > MaxLink

\* The entries of a directory are numbered as for_each_preorder meets them: parent
\* first.  Behind entry i come those of its left subtree, up to entry split, and
\* then those of its right subtree, up to entry last.
IsTree(node, count) ==
    /\ count > 0 => node[1].last = count
    /\ \A i \in 1..count :
          /\ i <= node[i].split /\ node[i].split <= node[i].last
          /\ i < node[i].split => node[i + 1].last = node[i].split
          /\ node[i].split < node[i].last => node[node[i].split + 1].last = node[i].last

Trees(count) == {node \in [1..count -> [split : 1..count, last : 1..count]] : IsTree(node, count)}

LeftChild(node, i) == IF i < node[i].split THEN i + 1 ELSE 0
RightChild(node, i) == IF node[i].split < node[i].last THEN node[i].split + 1 ELSE 0

\* Whether the name of entry i comes before that of another entry j: of what is
\* behind an entry parent first, only the left subtree has smaller names.
NameBefore(node, i, j) == IF i < j THEN node[i].split < j ELSE i <= node[j].split

\* layout_directory: where each entry starts.
Offsets(names) ==
    LET Size[i \in 0..Len(names)] ==
            IF i = 0 THEN 0
            ELSE EntryOffset(Size[i - 1], EntryLength(names[i])) + EntryLength(names[i])
    IN  [i \in 1..Len(names) |-> EntryOffset(Size[i - 1], EntryLength(names[i]))]

\* What layout_directory accepts.
Fits(names) == \A i \in 1..Len(names) : Offsets(names)[i] <= MaxTableSize

Directories ==
    UNION {[node : Trees(count), names : {names \in [1..count -> NameLengths] : Fits(names)}] :
               count \in 0..MaxEntries}

\* Mistake: the link counts dwords from 1.
LinkFromOne(offsets, child) == IF child = 0 THEN 0 ELSE offsets[child] \div DwordSize + 1

\* link_offset
LinkOffset(offsets, child) == IF child = 0 THEN 0 ELSE offsets[child] \div DwordSize

\* write_tree, write_entry: the entries, and padding up to the end of the sector.
\* Other data follows; what is inside an entry is no entry.
WrittenTable(written) ==
    LET offsets == Offsets(written.names)
        count == Len(written.names)
        End(i) == offsets[i] + EntryLength(written.names[i])
        sectors == IF count = 0 THEN 1 ELSE SectorsFor(End(count))
    IN  [d \in 0..(TableDwords - 1) |->
            LET byte == d * DwordSize
                at == {i \in 1..count : offsets[i] = byte}
                inside == {i \in 1..count : offsets[i] < byte /\ byte < End(i)}
            IN  IF byte >= sectors * SectorSize \/ inside # {} THEN [kind |-> "bad"]
                ELSE IF at = {} THEN [kind |-> "padding"]
                ELSE LET i == CHOOSE i \in at : TRUE
                     IN  [kind  |-> "entry",
                          left  |-> LinkOffset(offsets, LeftChild(written.node, i)),
                          right |-> LinkOffset(offsets, RightChild(written.node, i)),
                          name  |-> written.names[i]]]

WrittenTables == {WrittenTable(d) : d \in Directories}

-------------------------------------------------------------------------------
VARIABLE directory          \* what the table was written for

RoundTripInit ==
    /\ directory \in Directories
    /\ table = WrittenTable(directory)
    /\ Start

\* No callback throws: what ends the walk early has not read the table.
RoundTripNext == Step /\ UNCHANGED directory

RoundTripSpec == RoundTripInit /\ [][RoundTripNext]_<<vars, directory>>

\* A table that was written can be read: no link, gap or sector end, and neither
\* value of the compatibility flag, makes the reader take it for corrupt.
WrittenTablesAreSound == pc # "failed"

\* read_tree gets the entries in the order they were written, each where the
\* layout put it (what the tree is rebuilt from).
EntriesAreReadInLayoutOrder ==
    pc = "done" => records = Offsets(directory.names)

\* list and extract see the files in the order of their names, all of them: the
\* right link of a linked list is followed to the entry it was written for.
EntriesAreVisitedInNameOrder ==
    pc = "done" =>
        /\ Visited = 1..Len(directory.names)
        /\ \A i, j \in 1..Len(visited) :
              i < j => /\ visited[i] # visited[j]
                       /\ NameBefore(directory.node, visited[i], visited[j])
===============================================================================
