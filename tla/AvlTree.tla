-------------------------------- MODULE AvlTree -------------------------------
(* The tree of a directory's entries (include/xiso/avl_tree.hpp): insertion     *)
(* with skews and rotations.  The shape matters, it is the layout of the table  *)
(* on disk.                                                                     *)
(*                                                                              *)
(* Values are never moved, so a node is the entry it holds.  insert_node calls  *)
(* itself for a subtree: calls holds the nodes that wait, and on which side of  *)
(* each the entry goes.                                                         *)
EXTENDS Integers, Sequences, FiniteSets

CONSTANTS Key,          \* names, as far as compare_names tells them apart
          Spelling,     \* the spellings of a name that compare equal
          Null          \* no node

Entry == [key : Key, spelling : Spelling]

ASSUME AvlAssumption == Key \subseteq Int /\ Null \notin Entry

VARIABLES
    root,
    child,              \* by node and side
    skew,               \* by node
    calls,              \* the calls of insert_node that wait, outermost first
    entry,              \* what is being inserted
    pc,                 \* "idle" | "descend" | "grown" (the last call returned that)
    stored,             \* what insert returned: TRUE unless nullptr
    first,              \* history: per key the entry first offered, in a set
    before              \* history: the tree when the insertion began

vars == <<root, child, skew, calls, entry, pc, stored, first, before>>

Side == {"left", "right"}
Stored == DOMAIN child

Tree == [root |-> root, child |-> child, skew |-> skew]

Init ==
    /\ root = Null
    /\ child = [n \in {} |-> Null]
    /\ skew = [n \in {} |-> "none"]
    /\ calls = << >>
    /\ entry = Null
    /\ pc = "idle"
    /\ stored = TRUE
    /\ first = {}
    /\ before = Null

\* The code spells out each case of a mirrored pair.
Mirror(side) == IF side = "left" THEN "right" ELSE "left"

SideOf(new, node) == IF new.key < node.key THEN "left" ELSE "right"

Last(waiting) == waiting[Len(waiting)]
Front(waiting) == SubSeq(waiting, 1, Len(waiting) - 1)

\* The pointer that insert_node was given: root_, or that of the call it is in.
Slot(waiting) ==
    IF waiting = << >> THEN root ELSE child[Last(waiting).node][Last(waiting).side]

Link(waiting, children, node) ==
    IF waiting = << >> THEN root' = node /\ child' = children
    ELSE /\ child' = [children EXCEPT ![Last(waiting).node][Last(waiting).side] = node]
         /\ UNCHANGED root

Return(result) ==
    /\ stored' = result
    /\ pc' = "idle"
    /\ calls' = << >>
    /\ entry' = Null
    /\ before' = Null
    /\ UNCHANGED first

-------------------------------------------------------------------------------
(* insert_node *)

Insert(new) ==
    /\ pc = "idle"
    /\ entry' = new
    /\ first' = IF \E e \in first : e.key = new.key THEN first ELSE first \cup {new}
    /\ before' = Tree
    /\ pc' = "descend"
    /\ UNCHANGED <<root, child, skew, calls, stored>>

Descend ==
    /\ pc = "descend"
    /\ Slot(calls) # Null
    /\ entry.key # Slot(calls).key
    /\ calls' = Append(calls, [node |-> Slot(calls), side |-> SideOf(entry, Slot(calls))])
    /\ UNCHANGED <<root, child, skew, entry, pc, stored, first, before>>

Duplicate ==
    /\ pc = "descend"
    /\ Slot(calls) # Null
    /\ entry.key = Slot(calls).key
    /\ Return(FALSE)
    /\ UNCHANGED <<root, child, skew>>

\* Mistake: the skew of a new node is not initialised.
SkewMissing == "uninitialised"

NewSkew == "none"

Attach ==
    /\ pc = "descend"
    /\ Slot(calls) = Null
    /\ Link(calls, [n \in Stored \cup {entry} |->
                        IF n = entry THEN [s \in Side |-> Null] ELSE child[n]], entry)
    /\ skew' = [n \in Stored \cup {entry} |-> IF n = entry THEN NewSkew ELSE skew[n]]
    /\ pc' = "grown"
    /\ UNCHANGED <<calls, entry, stored, first, before>>

-------------------------------------------------------------------------------
(* left_grown and right_grown: the subtree on one side of a node has grown.     *)

Parent == Last(calls).node
Grown == Last(calls).side

\* Mistake: the inner subtree is dropped.
RotatedDropping(children, node, side) ==
    LET up == children[node][Mirror(side)]
    IN  [children EXCEPT ![node][Mirror(side)] = Null, ![up][side] = node]

\* Mistake: the inner subtree goes to the wrong side.
RotatedCrossing(children, node, side) ==
    LET up == children[node][Mirror(side)]
    IN  [children EXCEPT ![node] = [s \in Side |-> IF s = side THEN children[up][side] ELSE @[side]],
                         ![up][side] = node]

\* rotate_left, rotate_right: node goes down to side, its other child comes up.
Rotated(children, node, side) ==
    LET up == children[node][Mirror(side)]
    IN  [children EXCEPT ![node][Mirror(side)] = children[up][side], ![up][side] = node]

\* Mistake: the grandchild is taken to be balanced.
SkewsForgettingInner(inner, side) == [parent |-> "none", child |-> "none"]

\* The new skews of a node and of its child on the side that is too high, by the
\* skew of the grandchild between them, which comes to be their parent.
SkewsAfterDouble(inner, side) ==
    [parent |-> IF inner = side THEN Mirror(side) ELSE "none",
     child  |-> IF inner = Mirror(side) THEN side ELSE "none"]

\* Mistake: an insertion that evens out a node counts as a duplicate.
EvenOutAsDuplicate ==
    /\ pc = "grown" /\ calls # << >>
    /\ skew[Parent] = Mirror(Grown)
    /\ skew' = [skew EXCEPT ![Parent] = "none"]
    /\ Return(FALSE)
    /\ UNCHANGED <<root, child>>

EvenOut ==
    /\ pc = "grown" /\ calls # << >>
    /\ skew[Parent] = Mirror(Grown)
    /\ skew' = [skew EXCEPT ![Parent] = "none"]
    /\ Return(TRUE)
    /\ UNCHANGED <<root, child>>

Lean ==
    /\ pc = "grown" /\ calls # << >>
    /\ skew[Parent] = "none"
    /\ skew' = [skew EXCEPT ![Parent] = Grown]
    /\ calls' = Front(calls)
    /\ UNCHANGED <<root, child, entry, pc, stored, first, before>>

RotateOnce ==
    /\ pc = "grown" /\ calls # << >>
    /\ skew[Parent] = Grown
    /\ LET up == child[Parent][Grown]
       IN  /\ skew[up] = Grown
           /\ skew' = [skew EXCEPT ![Parent] = "none", ![up] = "none"]
           /\ Link(Front(calls), Rotated(child, Parent, Mirror(Grown)), up)
    /\ Return(TRUE)

RotateTwice ==
    /\ pc = "grown" /\ calls # << >>
    /\ skew[Parent] = Grown
    /\ LET high == child[Parent][Grown]
           inner == child[high][Mirror(Grown)]
           skews == SkewsAfterDouble(skew[inner], Grown)
           linked == [Rotated(child, high, Grown) EXCEPT ![Parent][Grown] = inner]
       IN  /\ skew[high] # Grown
           /\ skew' = [skew EXCEPT ![Parent] = skews.parent, ![high] = skews.child,
                                   ![inner] = "none"]
           /\ Link(Front(calls), Rotated(linked, Parent, Mirror(Grown)), inner)
    /\ Return(TRUE)

\* The outermost call returns.
ReturnStored ==
    /\ pc = "grown" /\ calls = << >>
    /\ Return(TRUE)
    /\ UNCHANGED <<root, child, skew>>

Next ==
    \/ \E new \in Entry : Insert(new)
    \/ Descend \/ Duplicate \/ Attach
    \/ EvenOut \/ Lean \/ RotateOnce \/ RotateTwice \/ ReturnStored

Spec == Init /\ [][Next]_vars

-------------------------------------------------------------------------------
TypeOK ==
    /\ Stored \subseteq Entry /\ IsFiniteSet(Stored)
    /\ root \in Stored \cup {Null}
    /\ child \in [Stored -> [Side -> Stored \cup {Null}]]
    /\ skew \in [Stored -> {"none", "left", "right"}]
    /\ calls \in Seq([node : Stored, side : Side])
    /\ entry \in Entry \cup {Null}
    /\ pc \in {"idle", "descend", "grown"}
    /\ stored \in BOOLEAN
    /\ first \subseteq Entry

\* The nodes of a subtree and its height, as deep as there are nodes.
Levels == Cardinality(Stored)

NodesTo[n \in 0..Levels] ==
    [x \in Stored \cup {Null} |->
        IF n = 0 \/ x = Null THEN {}
        ELSE {x} \cup NodesTo[n - 1][child[x]["left"]] \cup NodesTo[n - 1][child[x]["right"]]]

HeightTo[n \in 0..Levels] ==
    [x \in Stored \cup {Null} |->
        IF n = 0 \/ x = Null THEN 0
        ELSE LET left == HeightTo[n - 1][child[x]["left"]]
                 right == HeightTo[n - 1][child[x]["right"]]
             IN  1 + IF left > right THEN left ELSE right]

Nodes(x) == NodesTo[Levels][x]
Height(x) == HeightTo[Levels][x]

\* Rotations keep the names in order, without which the Xbox's binary search
\* misses files: what is on the left of a node is below it, on the right above.
NamesInOrder ==
    pc = "idle" =>
        \A x \in Nodes(root) :
            /\ \A y \in Nodes(child[x]["left"]) : y.key < x.key
            /\ \A y \in Nodes(child[x]["right"]) : x.key < y.key

\* Every skew says which subtree is higher, by exactly one level: a wrong skew
\* makes a later insertion rotate the wrong way, or through a null pointer.
SkewsAreRight ==
    pc = "idle" =>
        \A x \in Nodes(root) :
            Height(child[x]["right"]) - Height(child[x]["left"]) =
                CASE skew[x] = "none" -> 0 [] skew[x] = "right" -> 1 [] skew[x] = "left" -> -1

\* Nothing is lost or replaced by rebalancing: the tree holds the first of the
\* entries offered under each name.
FirstOfEachName == pc = "idle" => Nodes(root) = first

\* An insertion returns the entry if its name is new, and otherwise nullptr and
\* the tree as it was.
DuplicatesAreRefused ==
    [][pc # "idle" /\ pc' = "idle" =>
          IF \E x \in DOMAIN before.child : x.key = entry.key
          THEN ~stored' /\ Tree' = before
          ELSE stored']_vars
===============================================================================
