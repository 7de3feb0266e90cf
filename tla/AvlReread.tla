------------------------------- MODULE AvlReread ------------------------------
(* A table is laid out in the order of for_each_preorder; read_tree inserts the *)
(* entries of a table into an empty tree, in the order in which they lie there. *)
EXTENDS AvlTree

VARIABLES
    layout,             \* the entries of the table, in the order of their offsets
    reading,            \* read_tree has begun
    read                \* how many entries it has taken

rereadVars == <<layout, reading, read>>

RereadInit ==
    /\ Init
    /\ layout = << >>
    /\ reading = FALSE
    /\ read = 0

RECURSIVE Preorder(_)
Preorder(node) ==
    IF node = Null THEN << >>
    ELSE <<node>> \o Preorder(child[node]["left"]) \o Preorder(child[node]["right"])

Build ==
    /\ ~reading
    /\ \E new \in Entry : Insert(new)
    /\ UNCHANGED rereadVars

\* One step of an insertion, whoever asked for it.
GoOn ==
    /\ Descend \/ Duplicate \/ Attach \/ EvenOut \/ Lean \/ RotateOnce \/ RotateTwice \/ ReturnStored
    /\ UNCHANGED rereadVars

\* read_tree of the table that was made from the tree, into a new one.
StartReading ==
    /\ ~reading /\ pc = "idle"
    /\ layout' = Preorder(root)
    /\ reading' = TRUE
    /\ root' = Null
    /\ child' = [n \in {} |-> Null]
    /\ skew' = [n \in {} |-> "none"]
    /\ first' = {}
    /\ UNCHANGED <<read, calls, entry, pc, stored, before>>

ReadEntry ==
    /\ reading /\ read < Len(layout)
    /\ Insert(layout[read + 1])
    /\ read' = read + 1
    /\ UNCHANGED <<layout, reading>>

RereadNext == Build \/ GoOn \/ StartReading \/ ReadEntry

RereadSpec == RereadInit /\ [][RereadNext]_<<vars, rereadVars>>

\* read_tree "Reads the whole directory tree of an image into memory in the
\* order that reproduces its layout when written."
LayoutIsReproduced ==
    reading /\ read = Len(layout) /\ pc = "idle" => Preorder(root) = layout
===============================================================================
