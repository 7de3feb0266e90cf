------------------------------ MODULE MediaCheck ------------------------------
(* The media check sequence in .xbe files (include/xiso/format.hpp), where it   *)
(* occurs in a sequence of bytes, and what a file looks like once all of its    *)
(* occurrences are patched.                                                     *)
EXTENDS Integers, Sequences

CONSTANTS Byte,         \* the values of a byte
          Pattern,      \* format::media_check_pattern, 8 bytes
          PatchByte     \* format::media_check_patch

\* A sequence without a border never overlaps itself: for every shift, some
\* byte differs.  The real pattern e8 ca fd ff ff 85 c0 7d starts with its only
\* e8, and its patch byte eb is not part of it.
ASSUME PatternAssumption ==
    /\ Pattern \in Seq(Byte)
    /\ Len(Pattern) > 0
    /\ \A shift \in 1..(Len(Pattern) - 1) :
           \E i \in 1..(Len(Pattern) - shift) : Pattern[i] # Pattern[i + shift]
    /\ PatchByte \in Byte
    /\ \A i \in 1..Len(Pattern) : Pattern[i] # PatchByte

\* The pattern occupies the bytes start + 1 .. start + Len(Pattern) of s.
MatchAt(s, start) ==
    /\ start \in 0..(Len(s) - Len(Pattern))
    /\ \A i \in 1..Len(Pattern) : s[start + i] = Pattern[i]

\* The original bytes with the end of every occurrence replaced.
Patched(s) ==
    [i \in 1..Len(s) |-> IF MatchAt(s, i - Len(Pattern)) THEN PatchByte ELSE s[i]]
===============================================================================
