-------------------------- MODULE MCRewriteCollision --------------------------
(* A batch whose images have the same file name: -r disc1/game.iso              *)
(* disc2/game.iso with disc2 as the destination.                                *)
EXTENDS RewriteImages, TLC

CONSTANTS a, aOld, b, bOld, discA, discB, noDisc

File(kind, disc) == [kind |-> kind, disc |-> disc]

MCPath == {a, aOld, b, bOld}
MCOldOf == a :> aOld @@ b :> bOld @@ aOld :> aOld @@ bOld :> bOld
MCOutputOf == a :> b @@ b :> b @@ aOld :> aOld @@ bOld :> bOld
MCInitialFiles ==
    {a :> File("image", discA) @@ b :> File("image", discB) @@ aOld :> None @@ bOld :> None}
MCBatch == <<a, b>>
===============================================================================
