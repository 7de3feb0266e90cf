---------------------------- MODULE MCRewriteImages ---------------------------
(* Batches of rewrites for TLC.  The destination is the directory of a.iso, so  *)
(* a.iso is rewritten in place; b.iso is in another directory.                  *)
EXTENDS RewriteImages, TLC

CONSTANTS a, aOld, b, bOld, bNew,   \* bNew: b.iso in the directory of a.iso
          discA, discB, noDisc

File(kind, disc) == [kind |-> kind, disc |-> disc]

MCPath == {a, aOld, b, bOld, bNew}
MCOldOf == a :> aOld @@ b :> bOld @@ bNew :> bNew @@ aOld :> aOld @@ bOld :> bOld
MCOutputOf == a :> a @@ b :> bNew @@ bNew :> bNew @@ aOld :> aOld @@ bOld :> bOld

MCInitialFiles ==
    {f \in [MCPath -> {None, File("other", noDisc), File("empty", noDisc),
                       File("image", discA), File("image", discB),
                       File("rewritten", discA), File("rewritten", discB)}] :
        /\ f[a] \in {None, File("image", discA), File("rewritten", discA)}
        /\ f[b] \in {File("other", noDisc), File("empty", noDisc), File("image", discB)}
        /\ f[aOld] \in {None, File("image", discA)}
        /\ f[bOld] \in {None, File("other", noDisc)}
        /\ f[bNew] \in {None, File("other", noDisc)}}

\* b.iso is given twice.
MCBatch == <<a, b, b>>

ASSUME NoCollision
===============================================================================
