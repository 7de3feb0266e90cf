------------------------------ MODULE ImageFiles ------------------------------
(* The files a batch of rewrites works on.  What a file holds is abstracted to  *)
(* what rewrite_image (src/operations.cpp) tells apart.                         *)
EXTENDS Integers, Sequences

CONSTANTS Path,         \* the files that matter
          Disc,         \* the data of an image, whatever its layout
          NoDisc,       \* stands for no such data
          OldOf,        \* OldOf[p]: p with ".old" appended
          OutputOf,     \* OutputOf[p]: where the rewritten image of p goes
          Batch         \* the images named on the command line, in order

ASSUME BatchAssumption ==
    /\ NoDisc \notin Disc
    /\ Batch \in Seq(Path)
    /\ OldOf \in [Path -> Path]
    /\ OutputOf \in [Path -> Path]

\* What is found under a path: nothing, a file that is no image, an image
\* without files, an image as dumped, one that extract-xiso has written (it
\* carries the optimized tag), and one whose writing was cut off before its root
\* table.  The root table, the descriptors and the tag come last, in that order,
\* and are taken as one step: an image cut off among them is not told apart.
Kinds == {"none", "other", "empty", "image", "rewritten", "partial"}
Content == [kind : Kinds, disc : Disc \cup {NoDisc}]

None == [kind |-> "none", disc |-> NoDisc]
Partial == [kind |-> "partial", disc |-> NoDisc]
Rewritten(disc) == [kind |-> "rewritten", disc |-> disc]

Images == {Batch[i] : i \in 1..Len(Batch)}

\* No two rewrites of the batch get in each other's way: an output replaces at
\* most the image it was made from, and a ".old" file belongs to one image only.
\* An output is named "*.iso", so it is never a ".old" file.
NoCollision ==
    \A p, q \in Images :
        /\ OldOf[p] \notin Images
        /\ OutputOf[p] # OldOf[q]
        /\ p # q => /\ OldOf[p] # OldOf[q]
                    /\ OutputOf[p] # OutputOf[q]
                    /\ OutputOf[p] # q
===============================================================================
