------------------------------ MODULE MediaPatch ------------------------------
(* patch_media_check (src/media_patch.cpp): finds the media check sequence in a *)
(* buffer again and again and turns its last byte, a conditional jump, into an  *)
(* unconditional one.  The search works on the buffer it changes and resumes    *)
(* behind each match.                                                           *)
EXTENDS MediaCheck, FiniteSets

CONSTANT MaxLength          \* TLC only: longest buffer that is searched

ASSUME MaxLengthAssumption == MaxLength \in Nat

VARIABLES
    patch_pc,   \* "search" | "done"
    original,   \* the buffer as it was given
    data,       \* the buffer
    position,   \* bytes behind which the next search starts
    patched     \* the number that is returned

patch_vars == <<patch_pc, original, data, position, patched>>

Buffers == UNION {[1..n -> Byte] : n \in 0..MaxLength}

PatchInit ==
    /\ patch_pc = "search"
    /\ original \in Buffers
    /\ data = original
    /\ position = 0
    /\ patched = 0

\* std::search from position on: the first match, if there is one.
IsFirstMatch(match) ==
    /\ match >= position
    /\ MatchAt(data, match)
    /\ \A other \in position..(match - 1) : ~MatchAt(data, other)

\* Mistake: the first byte of the match is patched.
PatchFirstByte(match) ==
    /\ patch_pc = "search"
    /\ position # Len(data)
    /\ IsFirstMatch(match)
    /\ data' = [data EXCEPT ![match + 1] = PatchByte]
    /\ position' = match + Len(Pattern)
    /\ patched' = patched + 1
    /\ UNCHANGED <<patch_pc, original>>

PatchMatch(match) ==
    /\ patch_pc = "search"
    /\ position # Len(data)
    /\ IsFirstMatch(match)
    /\ data' = [data EXCEPT ![match + Len(Pattern)] = PatchByte]
    /\ position' = match + Len(Pattern)
    /\ patched' = patched + 1
    /\ UNCHANGED <<patch_pc, original>>

FinishPatch ==
    /\ patch_pc = "search"
    /\ \/ position = Len(data)
       \/ \A match \in position..Len(data) : ~MatchAt(data, match)
    /\ patch_pc' = "done"
    /\ UNCHANGED <<original, data, position, patched>>

PatchNext == (\E match \in 0..Len(data) : PatchMatch(match)) \/ FinishPatch

PatchSpec == PatchInit /\ [][PatchNext]_patch_vars

-------------------------------------------------------------------------------
PatchTypeOK ==
    /\ patch_pc \in {"search", "done"}
    /\ original \in Seq(Byte)
    /\ data \in Seq(Byte)
    /\ Len(data) = Len(original)
    /\ position \in 0..Len(data)
    /\ patched \in Nat

\* The buffer ends up with every occurrence of the pattern patched, those that a
\* search resuming behind a match could step over included, and no other byte
\* changed; the result is the number of occurrences.
PatchesEveryMatch ==
    patch_pc = "done" =>
        /\ data = Patched(original)
        /\ patched = Cardinality({start \in 0..Len(original) : MatchAt(original, start)})
===============================================================================
