------------------------- MODULE MCDirectoryRoundTrip -------------------------
(* Sectors of four dwords; an entry takes two, three or four.                   *)
EXTENDS DirectoryRoundTrip

MCElsewhere == -1
===============================================================================
