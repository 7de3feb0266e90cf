----------------------------- MODULE MCImageTrip ------------------------------
(* Small file systems and small images for TLC.                                 *)
EXTENDS ImageTrip

CONSTANTS a, A, b, long, separator, update

\* a and A differ in case only.
MCKey == [n \in {a, A, b, long, separator, update} |-> IF n = A THEN a ELSE n]

Dir(entries) == [kind |-> "directory", entries |-> entries]
File(size) == [kind |-> "file", size |-> size]
On(names, node) == [n \in names |-> node]

\* Node 1 has any entries under its names, node 2 some; 3 is a file, 4 one that is
\* too large, 5 no file, 6 a link to nothing, 7 an empty directory, 8 and 9 images.
FileSystem(root, second) ==
    [n \in 1..9 |->
        CASE n = 1 -> Dir(root)
          [] n = 2 -> Dir(second)
          [] n = 3 -> File(2)
          [] n = 4 -> File(3)
          [] n = 5 -> [kind |-> "other"]
          [] n = 6 -> [kind |-> "dangling"]
          [] n = 7 -> Dir(<< >>)
          [] OTHER -> [kind |-> "image"]]

Group(directory, output) == [directory |-> directory, output |-> output]
Single == {<<Group(1, 8)>>}
Several == {<<Group(5, 9), Group(1, 8)>>, <<Group(2, 9), Group(1, 8)>>, <<Group(2, 8), Group(1, 8)>>}

Roots == UNION {[names -> {2, 3, 4, 5, 6, 8}] : names \in {{}, {a, A}, {a, b}}}
Seconds == {<< >>, On({a}, 3), On({a}, 7), On({b}, 1)}
OddRoots ==
    {On({n}, m) : n \in {long, separator, update}, m \in {2, 3, 4}}
    \cup {On({a, b, separator}, m) : m \in {3, 7}}

\* In the root a is read before the separator, b is not.
MCEarly == {<<a>>}

MCBatches ==
    {[files |-> FileSystem(r, s), groups |-> g] : r \in Roots \cup OddRoots, s \in Seconds, g \in Single}
    \cup {[files |-> FileSystem(On({a}, 3), s), groups |-> g] : s \in {<< >>, On({b}, 9)}, g \in Several}
    \cup {[files |-> FileSystem(On({b}, 9), On({a}, 3)), groups |-> g] : g \in Several}
    \cup {[files |-> <<Dir(<< >>)>>, groups |-> << >>]}

\* Records of damaged images: a file with less there than it should, directories
\* at two sectors, one without a table.
Rec(d, n, start, size, there) ==
    [is_directory |-> d, name |-> n, start |-> <<start>>, size |-> size, there |-> there]
Recs == {Rec(FALSE, a, 3, 3, 1), Rec(FALSE, update, 4, 1, 1), Rec(TRUE, a, 1, 1, 1),
         Rec(TRUE, update, 2, 1, 1), Rec(TRUE, b, 2, 0, 0)}
Tables ==
    [records : UNION {[1..n -> Recs] : n \in 0..2}, sound : {TRUE}]
    \cup [records : [1..1 -> Recs], sound : {FALSE}]
Table(records) == [records |-> records, sound |-> TRUE]
Volume(root, tables) == [magic |-> 2, root |-> root, tables |-> tables]

AFile == Table(<<Rec(FALSE, b, 5, 2, 2)>>)
Elsewhere == [magic |-> 0, root |-> <<1>>, tables |-> [s \in {<<1>>, <<2>>} |-> AFile]]

MCForeignImages ==
    {<<Elsewhere, Volume(<<1>>, [s \in {<<1>>, <<2>>} |-> IF s = <<1>> THEN t ELSE u])>> :
        t \in Tables, u \in {Table(<< >>), AFile, Table(<<Rec(TRUE, b, 1, 1, 1)>>),
                             Table(<<Rec(TRUE, a, 2, 1, 1), Rec(TRUE, b, 2, 1, 1)>>)}}
    \cup {<<Elsewhere>>, <<[Elsewhere EXCEPT !.magic = 1], Volume(<<1>>, Elsewhere.tables)>>,
          <<Volume(NoRoot, << >>)>>,
          <<Volume(<<1>>, [s \in {<<1>>} |-> AFile]), Volume(<<2>>, [s \in {<<2>>} |-> Table(<< >>)])>>,
          <<Volume(<<1>>, [s \in {<<1>>} |-> Table(<<Rec(TRUE, a, 6, 1, 1)>>)])>>,
          <<Volume(<<1>>, [s \in {<<1>>, <<2>>} |->
                             IF s = <<1>> THEN Table(<<Rec(TRUE, a, 2, 1, 1)>>)
                             ELSE Table(<<Rec(FALSE, a, 3, 3, 1), Rec(TRUE, b, 2, 0, 0)>>)])>>}
===============================================================================
