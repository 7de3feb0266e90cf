--------------------------- MODULE MCDirectoryWalk ----------------------------
(* Every table of two sectors of two dwords, with padding behind it, for TLC.   *)
EXTENDS DirectoryWalk

MCTables ==
    {[d \in 0..4 |-> IF d < 4 THEN slots[d] ELSE [kind |-> "padding"]] :
        slots \in [0..3 -> Slot]}
MCElsewhere == -1
===============================================================================
