---------------------------- MODULE MCImageLayout -----------------------------
(* All trees of up to MaxItems items, with up to MaxItems - 1 directories below *)
(* each other or side by side, for TLC.                                         *)
EXTENDS ImageLayout

CONSTANTS MaxItems,         \* bound: directories and files of a tree
          TableSizes,       \* bytes of a table
          FileSizes         \* bytes of a file

RECURSIVE Ancestors(_, _)
Ancestors(tree, d) == IF d = 0 THEN {} ELSE {d} \cup Ancestors(tree, tree[d].parent)

LastDirectory(tree) ==
    IF tree[Len(tree)].is_directory THEN Len(tree) ELSE tree[Len(tree)].parent

\* The items that can follow those of tree: a file of the directory just begun,
\* or a subdirectory of it or of one it is in.
Followers(tree) ==
    [is_directory : {FALSE}, parent : {LastDirectory(tree)}, size : FileSizes]
    \cup [is_directory : {TRUE}, parent : Ancestors(tree, LastDirectory(tree)), size : TableSizes]

RECURSIVE TreesOf(_)
TreesOf(n) ==
    IF n = 1 THEN {<<item>> : item \in [is_directory : {TRUE}, parent : {0}, size : TableSizes]}
    ELSE UNION {{Append(tree, item) : item \in Followers(tree)} : tree \in TreesOf(n - 1)}

MCTrees == {tree \in UNION {TreesOf(n) : n \in 1..MaxItems} : IsTree(tree)}
===============================================================================
