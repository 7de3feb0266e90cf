------------------------------ MODULE MediaProofs ------------------------------
(* patch_media_check patches every occurrence, and the copy of a file is what   *)
(* it makes of the whole file, for every pattern without a border, every buffer *)
(* larger than what is carried over, and every way the source is cut into       *)
(* chunks.  The invariant of the search says which bytes are final, and that no *)
(* occurrence is cut by the place it resumes at; that of the copy, that what is *)
(* written and what is held back, taken together, is at all times what patching *)
(* everything read so far would give.                                           *)
EXTENDS FileCopy, MediaPatch, XisoFormatLemmas, SequenceTheorems, FiniteSetTheorems

-------------------------------------------------------------------------------
\* Occurrences of a pattern that has no border.

\* Two occurrences of the pattern do not overlap.
LEMMA MatchesDoNotOverlap ==
    ASSUME NEW s, NEW a \in Nat, NEW b \in Nat, a < b, MatchAt(s, a), MatchAt(s, b)
    PROVE  a + Len(Pattern) <= b
<1>1. Len(Pattern) \in Nat
    BY PatternAssumption
<1>2. SUFFICES ASSUME b < a + Len(Pattern) PROVE FALSE
    BY <1>1
<1> DEFINE shift == b - a
<1>3. shift \in 1..(Len(Pattern) - 1) /\ b = a + shift
    BY <1>1, <1>2
<1> HIDE DEF shift
<1>4. PICK i \in 1..(Len(Pattern) - shift) : Pattern[i] # Pattern[i + shift]
    BY <1>3, PatternAssumption
<1>5. /\ i \in 1..Len(Pattern) /\ i + shift \in 1..Len(Pattern)
      /\ b + i = a + (i + shift)
    BY <1>1, <1>3
<1>6. s[b + i] = Pattern[i] /\ s[a + (i + shift)] = Pattern[i + shift]
    BY <1>5 DEF MatchAt
<1>7. QED
    BY <1>4, <1>5, <1>6

\* Patching keeps the length; each byte is the patch byte or the original one.
LEMMA PatchedBytes ==
    ASSUME NEW s \in Seq(Byte)
    PROVE  /\ Patched(s) \in Seq(Byte)
           /\ Len(Patched(s)) = Len(s)
           /\ \A i \in 1..Len(s) :
                  Patched(s)[i] = IF MatchAt(s, i - Len(Pattern)) THEN PatchByte ELSE s[i]
<1>1. Len(s) \in Nat /\ \A i \in 1..Len(s) : s[i] \in Byte
    OBVIOUS
<1>2. Patched(s) \in [1..Len(s) -> Byte]
    BY <1>1, PatternAssumption DEF Patched
<1>3. Patched(s) \in Seq(Byte) /\ Len(Patched(s)) = Len(s)
    BY <1>1, <1>2
<1>4. QED
    BY <1>3 DEF Patched

\* What follows a sequence does not change where its own bytes match.
LEMMA PrefixMatches ==
    ASSUME NEW c \in Seq(Byte), NEW d \in Seq(Byte), NEW start \in Int,
           start + Len(Pattern) <= Len(c)
    PROVE  MatchAt(c \o d, start) <=> MatchAt(c, start)
<1>1. /\ Len(c) \in Nat /\ Len(d) \in Nat /\ Len(Pattern) \in Nat
      /\ Len(c \o d) = Len(c) + Len(d)
      /\ \A i \in 1..Len(c) : (c \o d)[i] = c[i]
    BY PatternAssumption
<1>2. ASSUME start >= 0, NEW i \in 1..Len(Pattern)
      PROVE  (c \o d)[start + i] = c[start + i]
    <2>1. start + i \in 1..Len(c)
        BY <1>1, <1>2
    <2>2. QED
        BY <1>1, <2>1
<1>3. QED
    BY <1>1, <1>2 DEF MatchAt

\* The bytes behind the first part are those of the second.
LEMMA SecondPart ==
    ASSUME NEW a \in Seq(Byte), NEW b \in Seq(Byte), NEW k \in 1..Len(b)
    PROVE  (a \o b)[Len(a) + k] = b[k]
OBVIOUS

\* The step of a copy in chunks.  The bytes o are written and the bytes r are
\* carried over, all patched as far as the bytes c read so far tell; r is one byte
\* short of the pattern, or all there is.  Then patching r together with the next
\* chunk d gives what patching everything at once would.
LEMMA PatchInChunks ==
    ASSUME NEW c \in Seq(Byte), NEW d \in Seq(Byte),
           NEW o \in Seq(Byte), NEW r \in Seq(Byte),
           o \o r = Patched(c),
           Len(r) < Len(Pattern),
           Len(r) = Len(Pattern) - 1 \/ Len(o) = 0
    PROVE  o \o Patched(r \o d) = Patched(c \o d)
<1> DEFINE P == Len(Pattern)
           L == Len(o)
           R == Len(r)
           D == Len(d)
           rd == r \o d
           cd == c \o d
<1>0. P = Len(Pattern) /\ L = Len(o) /\ R = Len(r) /\ D = Len(d)
    OBVIOUS
<1>1. /\ P \in Nat \ {0} /\ L \in Nat /\ R \in Nat /\ D \in Nat
      /\ R < P /\ (R = P - 1 \/ L = 0)
    BY PatternAssumption
<1>2. Len(o \o r) = L + R /\ Len(Patched(c)) = Len(c)
    BY PatchedBytes
<1>3. Len(c) = L + R
    BY <1>2
<1>4. /\ rd \in Seq(Byte) /\ cd \in Seq(Byte)
      /\ Len(rd) = R + D /\ Len(cd) = L + R + D
    <2>1. /\ rd \in Seq(Byte) /\ Len(rd) = Len(r) + Len(d)
          /\ cd \in Seq(Byte) /\ Len(cd) = Len(c) + Len(d)
        OBVIOUS
    <2> HIDE DEF L, R, D, rd, cd
    <2>2. QED
        BY <1>0, <1>3, <2>1
<1>5. /\ \A i \in 1..L : Patched(c)[i] = o[i]
      /\ \A k \in 1..R : Patched(c)[L + k] = r[k]
    <2>1. \A i \in 1..L : (o \o r)[i] = o[i]
        OBVIOUS
    <2>2. \A k \in 1..R : (o \o r)[L + k] = r[k]
        OBVIOUS
    <2>3. QED
        BY <2>1, <2>2
<1>6. /\ \A k \in 1..R : rd[k] = r[k]
      /\ \A k \in 1..D : rd[R + k] = d[k]
      /\ \A i \in 1..(L + R) : cd[i] = c[i]
      /\ \A k \in 1..D : cd[(L + R) + k] = d[k]
    BY <1>3
<1>7. \A i \in 1..(L + R) :
          Patched(c)[i] = IF MatchAt(c, i - P) THEN PatchByte ELSE c[i]
    BY <1>3, PatchedBytes
<1>8. \A i \in 1..(L + R + D) :
          Patched(cd)[i] = IF MatchAt(cd, i - P) THEN PatchByte ELSE cd[i]
    BY <1>4, PatchedBytes
<1>9. \A k \in 1..(R + D) :
          Patched(rd)[k] = IF MatchAt(rd, k - P) THEN PatchByte ELSE rd[k]
    BY <1>4, PatchedBytes
<1> HIDE DEF P, L, R, D, rd, cd
<1>10. ASSUME NEW i \in 1..(L + R)
       PROVE  MatchAt(cd, i - P) <=> MatchAt(c, i - P)
    <2>1. i - P \in Int /\ (i - P) + Len(Pattern) <= Len(c)
        BY <1>0, <1>1, <1>3
    <2>2. QED
        BY <2>1, PrefixMatches DEF cd
<1>11. \A i \in 1..(L + R) : Patched(cd)[i] = Patched(c)[i]
    <2>1. SUFFICES ASSUME NEW i \in 1..(L + R) PROVE Patched(cd)[i] = Patched(c)[i]
        OBVIOUS
    <2>2. i \in 1..(L + R + D)
        BY <1>1
    <2>3. cd[i] = c[i]
        BY <1>6
    <2>4. QED
        BY <1>7, <1>8, <1>10, <2>2, <2>3
\* Behind the carried bytes, the two sequences match at the same places.
<1>12. ASSUME NEW k \in (R + 1)..(R + D)
       PROVE  MatchAt(rd, k - P) <=> MatchAt(cd, (L + k) - P)
    <2>1. CASE k < P
        <3>1. L = 0
            BY <1>1, <2>1
        <3>2. ~(k - P \in 0..(Len(rd) - P)) /\ ~((L + k) - P \in 0..(Len(cd) - P))
            BY <1>1, <2>1, <3>1
        <3>3. QED
            BY <1>0, <3>2 DEF MatchAt
    <2>2. CASE k >= P
        <3> DEFINE s == k - P
        <3>1. /\ s \in Nat /\ s + P = k /\ (L + k) - P = L + s
              /\ s \in 0..(Len(rd) - P) /\ L + s \in 0..(Len(cd) - P)
            BY <1>1, <1>4, <2>2
        <3> HIDE DEF s
        <3>2. ASSUME NEW q \in 1..P, s + q > R
              PROVE  rd[s + q] = cd[(L + s) + q]
            <4>1. PICK j \in 1..D : s + q = R + j
                <5>1. (s + q) - R \in 1..D
                    BY <1>1, <3>1, <3>2
                <5>2. QED
                    BY <1>1, <3>1, <5>1
            <4>2. (L + s) + q = (L + R) + j
                BY <1>1, <3>1, <4>1
            <4>3. QED
                BY <1>6, <4>1, <4>2
        <3>3. ASSUME NEW q \in 1..P, s + q <= R
              PROVE  /\ s + q \in 1..R /\ (L + s) + q \in 1..(L + R)
                     /\ rd[s + q] = IF MatchAt(c, ((L + s) + q) - P) THEN PatchByte
                                    ELSE cd[(L + s) + q]
            <4>1. s + q \in 1..R /\ (L + s) + q \in 1..(L + R) /\ (L + s) + q = L + (s + q)
                BY <1>1, <3>1, <3>3
            <4>2. rd[s + q] = Patched(c)[(L + s) + q]
                BY <1>5, <1>6, <4>1
            <4>3. QED
                BY <1>6, <1>7, <4>1, <4>2
        <3>4. ASSUME MatchAt(rd, s) PROVE MatchAt(cd, L + s)
            <4>1. ASSUME NEW q \in 1..P PROVE cd[(L + s) + q] = Pattern[q]
                <5>1. rd[s + q] = Pattern[q] /\ Pattern[q] # PatchByte
                    BY <1>0, <3>4, PatternAssumption DEF MatchAt
                <5>2. s + q > R \/ s + q <= R
                    BY <1>1, <3>1
                <5>3. QED
                    BY <3>2, <3>3, <5>1, <5>2
            <4>2. QED
                BY <1>0, <3>1, <4>1 DEF MatchAt
        <3>5. ASSUME MatchAt(cd, L + s) PROVE MatchAt(rd, s)
            <4>1. ASSUME NEW q \in 1..P PROVE rd[s + q] = Pattern[q]
                <5>1. cd[(L + s) + q] = Pattern[q]
                    BY <1>0, <3>5 DEF MatchAt
                <5>2. ASSUME s + q <= R, MatchAt(c, ((L + s) + q) - P) PROVE FALSE
                    <6> DEFINE a == ((L + s) + q) - P
                               b == L + s
                    <6>1. (L + s) + q \in 1..(L + R)
                        BY <3>3, <5>2
                    <6>2. MatchAt(cd, a)
                        BY <1>10, <5>2, <6>1
                    <6>3. a \in Nat
                        BY <1>0, <1>1, <5>2 DEF MatchAt
                    <6>4. b \in Nat /\ a < b /\ ~(a + P <= b)
                        BY <1>1, <3>1, <5>2
                    <6>5a. MatchAt(cd, b)
                        BY <3>5
                    <6> HIDE DEF a, b
                    <6>5. a + P <= b
                        BY <3>5, <6>5a, <6>2, <1>0, <6>3, <6>4, MatchesDoNotOverlap
                    <6>6. QED
                        BY <6>4, <6>5
                <5>3. s + q > R \/ s + q <= R
                    BY <1>1, <3>1
                <5>4. QED
                    BY <3>2, <3>3, <5>1, <5>2, <5>3
            <4>2. QED
                BY <1>0, <3>1, <4>1 DEF MatchAt
        <3>6. QED
            BY <3>1, <3>4, <3>5 DEF s
    <2>3. QED
        BY <1>1, <2>1, <2>2
<1>13. ASSUME NEW k \in 1..(R + D) PROVE Patched(rd)[k] = Patched(cd)[L + k]
    <2>1. L + k \in 1..(L + R + D)
        BY <1>1
    <2>2. CASE k <= R
        <3>1. k \in 1..R /\ L + k \in 1..(L + R)
            BY <1>1, <2>2
        <3>2. ~MatchAt(rd, k - P)
            BY <1>0, <1>1, <2>2 DEF MatchAt
        <3>3. Patched(rd)[k] = r[k]
            BY <1>6, <1>9, <3>1, <3>2
        <3>4. QED
            BY <1>5, <1>11, <3>1, <3>3
    <2>3. CASE k > R
        <3>1. k \in (R + 1)..(R + D)
            BY <1>1, <2>3
        <3>2. PICK j \in 1..D : k = R + j /\ L + k = (L + R) + j
            <4>1. k - R \in 1..D /\ k = R + (k - R) /\ L + k = (L + R) + (k - R)
                BY <1>1, <3>1
            <4>2. QED
                BY <4>1
        <3>3. rd[k] = cd[L + k]
            BY <1>6, <3>2
        <3>4. QED
            BY <1>8, <1>9, <1>12, <2>1, <3>1, <3>3
    <2>4. QED
        BY <1>1, <2>2, <2>3
<1>14. /\ Patched(rd) \in Seq(Byte) /\ Len(Patched(rd)) = R + D
       /\ Patched(cd) \in Seq(Byte) /\ Len(Patched(cd)) = L + R + D
    BY <1>4, PatchedBytes
<1>15. \A i \in 1..(L + R + D) : (o \o Patched(rd))[i] = Patched(cd)[i]
    <2>1. SUFFICES ASSUME NEW i \in 1..(L + R + D)
                   PROVE  (o \o Patched(rd))[i] = Patched(cd)[i]
        OBVIOUS
    <2>2. CASE i <= L
        <3>1. i \in 1..L /\ i \in 1..(L + R)
            BY <1>1, <2>2
        <3>2. (o \o Patched(rd))[i] = o[i]
            BY <1>0, <1>14, <3>1
        <3>3. QED
            BY <1>5, <1>11, <3>1, <3>2
    <2>3. CASE i > L
        <3>1. PICK k \in 1..(R + D) : i = L + k
            <4>1. i - L \in 1..(R + D) /\ i = L + (i - L)
                BY <1>1, <2>3
            <4>2. QED
                BY <4>1
        <3>2. (o \o Patched(rd))[L + k] = Patched(rd)[k]
            <4>1. Patched(rd) \in Seq(Byte) /\ k \in 1..Len(Patched(rd))
                BY <1>14
            <4>2. QED
                BY <1>0, <4>1, SecondPart, Zenon
        <3>3. QED
            BY <1>13, <3>1, <3>2
    <2>4. i <= L \/ i > L
        BY <1>1
    <2>5. QED
        BY <2>2, <2>3, <2>4, Zenon
<1>16. /\ o \o Patched(rd) \in Seq(Byte)
       /\ Len(o \o Patched(rd)) = L + R + D
    <2>1. /\ o \o Patched(rd) \in Seq(Byte)
          /\ Len(o \o Patched(rd)) = Len(o) + Len(Patched(rd))
        BY <1>14, ConcatProperties, Zenon
    <2>2. Len(Patched(rd)) = R + D
        BY <1>14
    <2>3. L + (R + D) = L + R + D
        BY <1>1
    <2>4. QED
        BY <1>0, <2>1, <2>2, <2>3, Zenon
<1>17. o \o Patched(rd) = Patched(cd)
    <2>1. /\ Patched(cd) \in Seq(Byte)
          /\ Len(o \o Patched(rd)) = Len(Patched(cd))
        BY <1>14, <1>16, Zenon
    <2>2. \A i \in 1..Len(o \o Patched(rd)) : (o \o Patched(rd))[i] = Patched(cd)[i]
        BY <1>15, <1>16, Zenon
    <2>3. QED
        BY <1>16, <2>1, <2>2, SeqEqual, Zenon
<1>18. QED
    BY <1>17 DEF rd, cd

-------------------------------------------------------------------------------
\* The search of one buffer (MediaPatch).

LEMMA PatchTypeCorrect == PatchSpec => []PatchTypeOK
<1>1. PatchInit => PatchTypeOK
    <2> SUFFICES ASSUME PatchInit PROVE PatchTypeOK
        OBVIOUS
    <2>1. PICK n \in 0..MaxLength : original \in [1..n -> Byte]
        BY DEF PatchInit, Buffers
    <2>2. n \in Nat
        BY <2>1, MaxLengthAssumption
    <2>3. original \in Seq(Byte)
        BY <2>1, <2>2
    <2>4. QED
        BY <2>3 DEF PatchInit, PatchTypeOK
<1>2. PatchTypeOK /\ [PatchNext]_patch_vars => PatchTypeOK'
    <2> SUFFICES ASSUME PatchTypeOK, [PatchNext]_patch_vars PROVE PatchTypeOK'
        OBVIOUS
    <2> USE DEF PatchTypeOK
    <2>1. ASSUME NEW match \in 0..Len(data), PatchMatch(match) PROVE PatchTypeOK'
        <3>1. match + Len(Pattern) \in 1..Len(data) /\ match + Len(Pattern) \in Nat
            BY <2>1, PatternAssumption DEF PatchMatch, IsFirstMatch, MatchAt
        <3>2. data' \in Seq(Byte) /\ Len(data') = Len(data)
            BY <2>1, <3>1, PatternAssumption DEF PatchMatch
        <3>3. position' \in 0..Len(data') /\ patched' \in Nat
            BY <2>1, <3>1, <3>2 DEF PatchMatch
        <3>4. QED
            BY <2>1, <3>2, <3>3 DEF PatchMatch
    <2>2. CASE FinishPatch
        BY <2>2 DEF FinishPatch
    <2>3. CASE UNCHANGED patch_vars
        BY <2>3 DEF patch_vars
    <2>4. QED
        BY <2>1, <2>2, <2>3 DEF PatchNext
<1>3. QED
    BY <1>1, <1>2, PTL DEF PatchSpec

-------------------------------------------------------------------------------
(* The inductive invariant. *)

\* Bytes up to position are final, the others untouched.
FinalUpToPosition ==
    \A i \in 1..Len(data) :
        data[i] = IF i <= position THEN Patched(original)[i] ELSE original[i]

\* No occurrence starts before position and ends behind it.
NothingCut ==
    \A start \in Nat : MatchAt(original, start) =>
        start >= position \/ start + Len(Pattern) <= position

MatchesUpTo(p) ==
    {start \in 0..Len(original) : MatchAt(original, start) /\ start + Len(Pattern) <= p}

CountsMatches ==
    /\ IsFiniteSet(MatchesUpTo(position))
    /\ patched = Cardinality(MatchesUpTo(position))

PatchIInv ==
    /\ PatchTypeOK
    /\ FinalUpToPosition
    /\ NothingCut
    /\ CountsMatches
    /\ PatchesEveryMatch

\* Behind position the buffer and the original match at the same places.
LEMMA SameMatchesAhead ==
    ASSUME PatchTypeOK, FinalUpToPosition, NEW start \in Nat, start >= position
    PROVE  MatchAt(data, start) <=> MatchAt(original, start)
<1>1. Len(data) = Len(original) /\ Len(data) \in Nat /\ position \in Nat
    BY DEF PatchTypeOK
<1>2. Len(Pattern) \in Nat
    BY PatternAssumption
<1>3. ASSUME start \in 0..(Len(data) - Len(Pattern)), NEW i \in 1..Len(Pattern)
      PROVE  data[start + i] = original[start + i]
    <2>1. start + i \in 1..Len(data) /\ ~(start + i <= position)
        BY <1>1, <1>2, <1>3
    <2>2. QED
        BY <2>1 DEF FinalUpToPosition
<1>4. QED
    BY <1>1, <1>3 DEF MatchAt

\* The first match found ahead is the first occurrence ahead in the original.
LEMMA FirstMatchAhead ==
    ASSUME PatchTypeOK, FinalUpToPosition, NEW match \in 0..Len(data), IsFirstMatch(match)
    PROVE  /\ MatchAt(original, match)
           /\ \A start \in Nat : MatchAt(original, start) /\ start >= position => start >= match
<1>1. match \in Nat /\ match >= position /\ position \in Nat
    BY DEF PatchTypeOK, IsFirstMatch
<1>2. MatchAt(original, match)
    BY <1>1, SameMatchesAhead DEF IsFirstMatch
<1>3. ASSUME NEW start \in Nat, MatchAt(original, start), start >= position, start < match
      PROVE  FALSE
    <2>1. start \in position..(match - 1)
        BY <1>1, <1>3
    <2>2. MatchAt(data, start)
        BY <1>3, SameMatchesAhead
    <2>3. QED
        BY <2>1, <2>2 DEF IsFirstMatch
<1>4. QED
    BY <1>1, <1>2, <1>3

LEMMA PatchKeepsInvariant ==
    ASSUME PatchIInv, NEW match \in 0..Len(data), PatchMatch(match), PatchTypeOK'
    PROVE  PatchIInv'
<1> DEFINE P == Len(Pattern)
<1>1. /\ PatchTypeOK /\ FinalUpToPosition /\ NothingCut /\ CountsMatches
      /\ patch_pc = "search" /\ patch_pc' = "search"
      /\ original' = original
      /\ position' = match + P
      /\ patched' = patched + 1
      /\ data' = [data EXCEPT ![match + P] = PatchByte]
      /\ IsFirstMatch(match)
    BY DEF PatchIInv, PatchMatch
<1>2. /\ P \in Nat \ {0} /\ match \in Nat /\ position \in Nat /\ match >= position
      /\ Len(data) \in Nat /\ Len(original) = Len(data) /\ original \in Seq(Byte)
    BY <1>1, PatternAssumption DEF PatchTypeOK, IsFirstMatch
<1>3. /\ MatchAt(original, match)
      /\ \A start \in Nat : MatchAt(original, start) /\ start >= position => start >= match
    BY <1>1, FirstMatchAhead
<1>4. match + P <= Len(data)
    BY <1>2, <1>3 DEF MatchAt
<1> HIDE DEF P
\* Every occurrence is behind position, is this one, or starts behind its end.
<1>5. ASSUME NEW start \in Nat, MatchAt(original, start)
      PROVE  start + P <= position \/ start = match \/ start >= match + P
    <2>1. CASE start < position
        BY <1>1, <1>2, <1>5, <2>1 DEF NothingCut, P
    <2>2. CASE start >= position
        <3>1. start >= match
            BY <1>3, <1>5, <2>2
        <3>2. start > match => match + P <= start
            BY <1>2, <1>3, <1>5, MatchesDoNotOverlap DEF P
        <3>3. QED
            BY <1>2, <3>1, <3>2
    <2>3. QED
        BY <1>2, <2>1, <2>2
<1>6. FinalUpToPosition'
    <2>1. SUFFICES ASSUME NEW i \in 1..Len(data')
                   PROVE  data'[i] = IF i <= match + P THEN Patched(original)[i] ELSE original[i]
        BY <1>1 DEF FinalUpToPosition
    <2>2. /\ i \in 1..Len(data) /\ Len(data') = Len(data)
          /\ data[i] = IF i <= position THEN Patched(original)[i] ELSE original[i]
        BY <1>1 DEF PatchTypeOK, FinalUpToPosition
    <2>3. Patched(original)[i] = IF MatchAt(original, i - P) THEN PatchByte ELSE original[i]
        BY <1>2, <2>2, PatchedBytes DEF P
    <2>4. CASE i = match + P
        <3>1. data'[i] = PatchByte
            BY <1>1, <1>2, <2>2, <2>4 DEF PatchTypeOK
        <3>2. i - P = match
            BY <1>2, <2>4
        <3>3. QED
            BY <1>2, <1>3, <2>3, <2>4, <3>1, <3>2
    <2>5. CASE i # match + P
        <3>1. data'[i] = data[i]
            BY <1>1, <2>2, <2>5 DEF PatchTypeOK
        <3>2. CASE i <= position
            BY <1>2, <2>2, <3>1, <3>2
        <3>3. CASE i > position /\ i <= match + P
            <4>1. ~MatchAt(original, i - P)
                <5>1. SUFFICES ASSUME MatchAt(original, i - P) PROVE FALSE
                    OBVIOUS
                <5>2. i - P \in Nat /\ (i - P) + P = i
                    BY <1>2, <2>2, <5>1 DEF MatchAt
                <5>3. i <= position \/ i - P = match \/ i - P >= match + P
                    BY <1>5, <5>1, <5>2
                <5>4. QED
                    BY <1>2, <2>5, <3>3, <5>2, <5>3
            <4>2. QED
                BY <1>2, <2>2, <2>3, <3>1, <3>3, <4>1
        <3>4. CASE i > match + P
            BY <1>2, <2>2, <3>1, <3>4
        <3>5. QED
            BY <1>2, <2>2, <3>2, <3>3, <3>4
    <2>6. QED
        BY <2>4, <2>5
<1>7. NothingCut'
    <2>1. SUFFICES ASSUME NEW start \in Nat, MatchAt(original, start)
                   PROVE  start >= match + P \/ start + P <= match + P
        BY <1>1 DEF NothingCut, MatchAt, P
    <2>2. QED
        BY <1>2, <1>5, <2>1
<1>8. CountsMatches'
    <2>1. MatchesUpTo(position)' = MatchesUpTo(position) \cup {match}
        <3>1. MatchesUpTo(position)'
                = {start \in 0..Len(original) : MatchAt(original, start) /\ start + P <= match + P}
            BY <1>1 DEF MatchesUpTo, P, MatchAt
        <3>2. ASSUME NEW start \in 0..Len(original), MatchAt(original, start)
              PROVE  start + P <= match + P <=> (start + P <= position \/ start = match)
            BY <1>2, <1>5, <3>2
        <3>3. match \in 0..Len(original)
            BY <1>2, <1>4
        <3>4. QED
            BY <1>3, <3>1, <3>2, <3>3 DEF MatchesUpTo, P
    <2>2. match \notin MatchesUpTo(position)
        BY <1>2 DEF MatchesUpTo, P
    <2>3. /\ IsFiniteSet(MatchesUpTo(position)')
          /\ Cardinality(MatchesUpTo(position)') = Cardinality(MatchesUpTo(position)) + 1
        BY <1>1, <2>1, <2>2, FS_AddElement DEF CountsMatches
    <2>4. QED
        BY <1>1, <2>3 DEF CountsMatches
<1>9. QED
    BY <1>1, <1>6, <1>7, <1>8 DEF PatchIInv, PatchesEveryMatch

LEMMA FinishPatchKeepsInvariant ==
    ASSUME PatchIInv, FinishPatch, PatchTypeOK'
    PROVE  PatchIInv'
<1>1. /\ PatchTypeOK /\ FinalUpToPosition /\ NothingCut /\ CountsMatches
      /\ UNCHANGED <<original, data, position, patched>>
      /\ position = Len(data) \/ \A match \in position..Len(data) : ~MatchAt(data, match)
    BY DEF PatchIInv, FinishPatch
<1>2. /\ Len(Pattern) \in Nat \ {0} /\ position \in Nat
      /\ Len(data) \in Nat /\ Len(original) = Len(data)
      /\ original \in Seq(Byte) /\ data \in Seq(Byte)
    BY <1>1, PatternAssumption DEF PatchTypeOK
<1>3. ASSUME NEW start \in Nat, MatchAt(original, start)
      PROVE  start + Len(Pattern) <= position
    <2>1. SUFFICES ASSUME start >= position PROVE FALSE
        BY <1>1, <1>2, <1>3 DEF NothingCut
    <2>2. start + Len(Pattern) <= Len(data)
        BY <1>2, <1>3 DEF MatchAt
    <2>3. start \in position..Len(data) /\ position # Len(data)
        BY <1>2, <2>1, <2>2
    <2>4. MatchAt(data, start)
        BY <1>1, <1>3, <2>1, SameMatchesAhead
    <2>5. QED
        BY <1>1, <2>3, <2>4
<1>4. data = Patched(original)
    <2>1. ASSUME NEW i \in 1..Len(data) PROVE data[i] = Patched(original)[i]
        <3>1. data[i] = IF i <= position THEN Patched(original)[i] ELSE original[i]
            BY <1>1 DEF FinalUpToPosition
        <3>2. Patched(original)[i]
                = IF MatchAt(original, i - Len(Pattern)) THEN PatchByte ELSE original[i]
            BY <1>2, PatchedBytes
        <3>3. CASE i > position
            <4>1. ASSUME MatchAt(original, i - Len(Pattern)) PROVE FALSE
                <5>1. i - Len(Pattern) \in Nat
                    BY <1>2, <4>1 DEF MatchAt
                <5>2. (i - Len(Pattern)) + Len(Pattern) <= position
                    BY <1>3, <4>1, <5>1
                <5>3. QED
                    BY <1>2, <3>3, <5>1, <5>2
            <4>2. QED
                BY <1>2, <3>1, <3>2, <3>3, <4>1
        <3>4. QED
            BY <1>2, <3>1, <3>3
    <2>2. Patched(original) \in Seq(Byte) /\ Len(Patched(original)) = Len(data)
        BY <1>2, PatchedBytes
    <2>3. QED
        BY <1>2, <2>1, <2>2
<1>5. MatchesUpTo(position) = {start \in 0..Len(original) : MatchAt(original, start)}
    BY <1>3 DEF MatchesUpTo
<1>6. PatchesEveryMatch'
    BY <1>1, <1>4, <1>5 DEF PatchesEveryMatch, CountsMatches, MatchAt, Patched
<1>7. QED
    BY <1>1, <1>6 DEF PatchIInv, FinalUpToPosition, NothingCut, CountsMatches, MatchesUpTo,
                      MatchAt, Patched

-------------------------------------------------------------------------------
\* When patch_media_check returns, every occurrence of the media check sequence
\* that the buffer held is patched, nothing else has changed, and the number
\* returned is the number of occurrences.
THEOREM PatchMediaCheckIsCorrect == PatchSpec => []PatchesEveryMatch
<1>1. PatchInit /\ PatchTypeOK => PatchIInv
    <2> SUFFICES ASSUME PatchInit, PatchTypeOK PROVE PatchIInv
        OBVIOUS
    <2>1. FinalUpToPosition /\ NothingCut /\ PatchesEveryMatch
        BY DEF PatchInit, PatchTypeOK, FinalUpToPosition, NothingCut, PatchesEveryMatch
    <2>2. MatchesUpTo(position) = {}
        BY PatternAssumption DEF PatchInit, MatchesUpTo
    <2>3. QED
        BY <2>1, <2>2, FS_EmptySet DEF PatchInit, PatchIInv, CountsMatches
<1>2. PatchIInv /\ PatchTypeOK' /\ [PatchNext]_patch_vars => PatchIInv'
    <2> SUFFICES ASSUME PatchIInv, PatchTypeOK', [PatchNext]_patch_vars PROVE PatchIInv'
        OBVIOUS
    <2>1. ASSUME NEW match \in 0..Len(data), PatchMatch(match) PROVE PatchIInv'
        BY <2>1, PatchKeepsInvariant
    <2>2. CASE FinishPatch
        BY <2>2, FinishPatchKeepsInvariant
    <2>3. CASE UNCHANGED patch_vars
        BY <2>3 DEF patch_vars, PatchIInv, FinalUpToPosition, NothingCut, CountsMatches,
                    MatchesUpTo, MatchAt, Patched, PatchesEveryMatch
    <2>4. QED
        BY <2>1, <2>2, <2>3 DEF PatchNext
<1>3. PatchIInv => PatchesEveryMatch
    BY DEF PatchIInv
<1>4. QED
    BY <1>1, <1>2, <1>3, PatchTypeCorrect, PTL DEF PatchSpec

-------------------------------------------------------------------------------
\* The copy of one file (FileCopy).

\* What the image should hold of the bytes read so far.
Final == IF patch_media THEN Patched(consumed) ELSE consumed

\* A chunk is a sequence of at least one and at most the wanted bytes.
LEMMA ChunkIsSeq ==
    ASSUME NEW w \in Int, NEW chunk \in Chunks(w)
    PROVE  chunk \in Seq(Byte) /\ Len(chunk) \in 1..w
<1>1. PICK n \in 1..w : chunk \in [1..n -> Byte]
    BY DEF Chunks
<1>2. n \in Nat
    BY <1>1
<1>3. chunk \in Seq(Byte) /\ Len(chunk) = n
    BY <1>1, <1>2
<1>4. QED
    BY <1>3

LEMMA FinalIsSeq ==
    ASSUME consumed \in Seq(Byte)
    PROVE  Final \in Seq(Byte) /\ Len(Final) = Len(consumed)
BY PatchedBytes DEF Final

-------------------------------------------------------------------------------
Counts == Len(consumed) = reported - remaining

\* While the copy runs, nothing read is missing from out and carried.
NothingLost == pc = "copy" => out \o carried = Final

\* What is held back is as long as an occurrence could still need.
HeldBack ==
    pc = "copy" =>
        /\ Len(carried) <= Carry
        /\ remaining = 0 => carried = << >>
        /\ ~patch_media => carried = << >>
        /\ patch_media /\ remaining > 0 => Len(carried) = Carry \/ Len(out) = 0

AllWritten == pc \in {"flush", "done"} => out = Final

IInv ==
    /\ TypeOK
    /\ Counts
    /\ NothingLost
    /\ HeldBack
    /\ AllWritten
    /\ NothingWrittenTooEarly
    /\ SizeFitsTheData

\* The numbers of a read.
LEMMA ReadNumbers ==
    ASSUME TypeOK, HeldBack, pc = "copy", remaining > 0,
           NEW chunk \in Chunks(Wanted)
    PROVE  /\ chunk \in Seq(Byte)
           /\ Len(chunk) \in 1..remaining
           /\ remaining - Len(chunk) \in 0..reported
<1>1. /\ remaining \in Nat /\ reported \in Nat /\ remaining <= reported
      /\ Len(carried) \in Nat /\ BufferSize \in Nat
    BY CopyAssumption DEF TypeOK
<1>2. Wanted \in Int /\ Wanted <= remaining
    BY <1>1 DEF Wanted, MinOf
<1>3. chunk \in Seq(Byte) /\ Len(chunk) \in 1..Wanted
    BY <1>2, ChunkIsSeq
<1>4. QED
    BY <1>1, <1>2, <1>3

\* Appending is associative.
LEMMA Regroup ==
    ASSUME NEW a \in Seq(Byte), NEW b \in Seq(Byte), NEW c \in Seq(Byte)
    PROVE  (a \o b) \o c = a \o (b \o c)
BY ConcatAssociative

\* The patched copy of one chunk: split is how much of the buffer is written.
LEMMA PatchedChunk ==
    ASSUME TypeOK, NothingLost, HeldBack, pc = "copy", remaining > 0, patch_media,
           NEW chunk \in Seq(Byte), remaining' \in Nat,
           CopyPatched(chunk), consumed' = consumed \o chunk
    PROVE  /\ out' \in Seq(Byte) /\ carried' \in Seq(Byte)
           /\ out' \o carried' = Patched(consumed')
           /\ Len(carried') <= Carry
           /\ remaining' = 0 => carried' = << >>
           /\ remaining' > 0 => Len(carried') = Carry \/ Len(out') = 0
<1> DEFINE buffer == Patched(carried \o chunk)
           keep   == IF remaining' > 0 THEN MinOf(Carry, Len(buffer)) ELSE 0
           split  == Len(buffer) - keep
           head   == SubSeq(buffer, 1, split)
           tail   == SubSeq(buffer, split + 1, Len(buffer))
<1>1. out' = out \o head /\ carried' = tail
    BY DEF CopyPatched, PatchMediaCheck
<1>2. carried \in Seq(Byte) /\ out \in Seq(Byte) /\ consumed \in Seq(Byte)
    BY DEF TypeOK
<1>3. carried \o chunk \in Seq(Byte) /\ Len(carried \o chunk) = Len(carried) + Len(chunk)
    BY <1>2
<1>4. buffer \in Seq(Byte) /\ Len(buffer) = Len(carried) + Len(chunk)
    BY <1>3, PatchedBytes
<1>5. out \o buffer = Patched(consumed')
    <2>1. out \o carried = Patched(consumed)
        BY DEF NothingLost, Final
    <2>2. Len(carried) < Len(Pattern) /\ (Len(carried) = Len(Pattern) - 1 \/ Len(out) = 0)
        BY <1>2, CopyAssumption, PatternAssumption DEF HeldBack
    <2>3. out \o Patched(carried \o chunk) = Patched(consumed \o chunk)
        BY <1>2, <2>1, <2>2, PatchInChunks, ZenonT(60)
    <2>4. QED
        BY <2>3
<1> HIDE DEF buffer
<1>6. /\ Len(buffer) \in Nat /\ Carry \in Nat
      /\ keep \in 0..Len(buffer) /\ split \in 0..Len(buffer)
      /\ keep <= Carry /\ Len(buffer) - split = keep
    <2>1. Len(buffer) \in Nat
        BY <1>4
    <2>2. Carry \in Nat
        BY CopyAssumption
    <2>3. QED
        BY <2>1, <2>2 DEF MinOf
<1>7. /\ remaining' = 0 => keep = 0
      /\ remaining' > 0 => keep = Carry \/ split = 0
    BY <1>6 DEF MinOf
<1> HIDE DEF keep, split
<1>8. /\ head \in Seq(Byte) /\ Len(head) = split
      /\ tail \in Seq(Byte) /\ Len(tail) = keep
    BY <1>4, <1>6
<1>9. head \o tail = buffer
    <2>1. /\ 1 \in 1..(Len(buffer) + 1) /\ split \in (1 - 1)..Len(buffer)
          /\ Len(buffer) \in split..Len(buffer)
        BY <1>6
    <2>2. head \o tail = SubSeq(buffer, 1, Len(buffer))
        BY <1>4, <2>1, ConcatAdjacentSubSeq
    <2>3. SubSeq(buffer, 1, Len(buffer)) = buffer
        BY <1>4
    <2>4. QED
        BY <2>2, <2>3
<1> HIDE DEF head, tail
<1>10. (out \o head) \o tail = out \o buffer
    <2>1. out \in Seq(Byte) /\ head \in Seq(Byte) /\ tail \in Seq(Byte)
        BY <1>2, <1>8
    <2>2. (out \o head) \o tail = out \o (head \o tail)
        BY <2>1, Regroup, ZenonT(60)
    <2>3. QED
        BY <1>9, <2>2, Zenon
<1>11. out \o head \in Seq(Byte) /\ Len(out \o head) = Len(out) + split
    BY <1>2, <1>8, ConcatProperties, Zenon
<1>12. ASSUME remaining' > 0 PROVE keep = Carry \/ Len(out \o head) = 0
    <2>1. CASE Len(out) = 0
        BY <1>6, <1>7, <1>11, <1>12, <2>1
    <2>2. CASE Len(out) # 0
        <3>1. Len(carried) = Carry
            BY <2>2 DEF HeldBack
        <3>2. Len(buffer) >= Carry
            BY <1>2, <1>4, <1>6, <3>1
        <3>3. keep = Carry
            BY <1>6, <1>12, <3>2 DEF keep, MinOf
        <3>4. QED
            BY <3>3
    <2>3. QED
        BY <2>1, <2>2
<1>13. remaining' = 0 => tail = << >>
    BY <1>7, <1>8
<1>14. QED
    BY <1>1, <1>5, <1>6, <1>8, <1>10, <1>11, <1>12, <1>13

\* What a step of the loop leaves behind, in both modes.
LEMMA ReadStep ==
    ASSUME IInv, ReadChunk
    PROVE  /\ pc = "copy" /\ pc' = "copy"
           /\ UNCHANGED <<patch_media, reported, padding, entry_size>>
           /\ remaining' \in 0..reported
           /\ consumed' \in Seq(Byte) /\ out' \in Seq(Byte) /\ carried' \in Seq(Byte)
           /\ Counts' /\ NothingLost' /\ HeldBack'
<1>1. /\ TypeOK /\ Counts /\ NothingLost /\ HeldBack
      /\ pc = "copy" /\ pc' = "copy" /\ remaining > 0
      /\ UNCHANGED <<patch_media, reported, padding, entry_size>>
    BY DEF IInv, ReadChunk
<1>2. PICK chunk \in Chunks(Wanted) :
          /\ consumed' = consumed \o chunk
          /\ remaining' = remaining - Len(chunk)
          /\ CopyPlain(chunk) \/ CopyPatched(chunk)
    BY DEF ReadChunk
<1>3. /\ chunk \in Seq(Byte) /\ Len(chunk) \in 1..remaining
      /\ remaining' \in 0..reported
    BY <1>1, <1>2, ReadNumbers
<1>4. /\ consumed \in Seq(Byte) /\ out \in Seq(Byte) /\ carried \in Seq(Byte)
      /\ remaining \in Nat /\ reported \in Nat /\ patch_media \in BOOLEAN
    BY <1>1 DEF TypeOK
<1>5. consumed' \in Seq(Byte) /\ Len(consumed') = Len(consumed) + Len(chunk)
    BY <1>2, <1>3, <1>4
<1>6. Counts'
    BY <1>1, <1>2, <1>3, <1>4, <1>5 DEF Counts
<1>7. CASE ~patch_media
    <2>1. out' = out \o chunk /\ carried' = carried /\ carried = << >>
        BY <1>1, <1>2, <1>7 DEF CopyPlain, CopyPatched, HeldBack
    <2>2. out = consumed
        <3>1. out \o << >> = consumed
            BY <1>1, <1>7, <2>1 DEF NothingLost, Final
        <3>2. QED
            BY <1>4, <3>1, ConcatEmptySeq
    <2>3. out' \in Seq(Byte) /\ out' \o << >> = consumed'
        BY <1>2, <1>5, <2>1, <2>2, ConcatEmptySeq
    <2>4. NothingLost' /\ HeldBack'
        BY <1>1, <1>7, <2>1, <2>3, CopyAssumption DEF NothingLost, HeldBack, Final
    <2>5. QED
        BY <1>1, <1>3, <1>4, <1>5, <1>6, <2>1, <2>3, <2>4
<1>8. CASE patch_media
    <2>1. CopyPatched(chunk)
        BY <1>2, <1>8 DEF CopyPlain
    <2>2. remaining' \in Nat
        BY <1>3, <1>4
    <2>3. /\ out' \in Seq(Byte) /\ carried' \in Seq(Byte)
          /\ out' \o carried' = Patched(consumed')
          /\ Len(carried') <= Carry
          /\ remaining' = 0 => carried' = << >>
          /\ remaining' > 0 => Len(carried') = Carry \/ Len(out') = 0
        BY <1>1, <1>2, <1>3, <1>8, <2>1, <2>2, PatchedChunk
    <2>4. NothingLost' /\ HeldBack'
        BY <1>1, <1>8, <2>3 DEF NothingLost, HeldBack, Final
    <2>5. QED
        BY <1>1, <1>3, <1>5, <1>6, <2>3, <2>4
<1>9. QED
    BY <1>4, <1>7, <1>8

\* A part and the rest: the part is a beginning of the whole.
LEMMA PartIsBeginning ==
    ASSUME NEW a \in Seq(Byte), NEW b \in Seq(Byte)
    PROVE  Len(a) <= Len(a \o b) /\ a = SubSeq(a \o b, 1, Len(a))
<1>1. /\ a \o b \in Seq(Byte) /\ Len(a \o b) = Len(a) + Len(b)
      /\ \A i \in 1..Len(a) : (a \o b)[i] = a[i]
      /\ Len(a) \in Nat /\ Len(b) \in Nat
    OBVIOUS
<1> DEFINE s == SubSeq(a \o b, 1, Len(a))
<1>2. s \in Seq(Byte) /\ Len(s) = Len(a) /\ \A i \in 1..Len(a) : s[i] = (a \o b)[i]
    BY <1>1
<1> HIDE DEF s
<1>3. a = s
    BY <1>1, <1>2, SeqEqual
<1>4. QED
    BY <1>1, <1>3 DEF s

-------------------------------------------------------------------------------
(* The steps keep the invariant. *)

LEMMA ReadKeepsInvariant ==
    ASSUME IInv, ReadChunk
    PROVE  IInv'
<1>1. /\ pc = "copy" /\ pc' = "copy"
      /\ UNCHANGED <<patch_media, reported, padding, entry_size>>
      /\ remaining' \in 0..reported
      /\ consumed' \in Seq(Byte) /\ out' \in Seq(Byte) /\ carried' \in Seq(Byte)
      /\ Counts' /\ NothingLost' /\ HeldBack'
    BY ReadStep
<1>2. TypeOK'
    BY <1>1 DEF IInv, TypeOK
<1>3. NothingWrittenTooEarly'
    <2>1. out' \o carried' = Final'
        BY <1>1 DEF NothingLost
    <2>2. Len(out') <= Len(Final') /\ out' = SubSeq(Final', 1, Len(out'))
        BY <1>1, <2>1, PartIsBeginning
    <2>3. QED
        BY <2>2 DEF NothingWrittenTooEarly, Final, PatchMediaCheck
<1>4. QED
    BY <1>1, <1>2, <1>3 DEF IInv, AllWritten, SizeFitsTheData

LEMMA ReadEndKeepsInvariant ==
    ASSUME IInv, ReadEnd
    PROVE  IInv'
<1>1. /\ TypeOK /\ Counts /\ NothingLost
      /\ pc = "copy" /\ pc' = "flush" /\ out' = out \o carried
      /\ UNCHANGED <<patch_media, reported, remaining, carried, padding, entry_size, consumed>>
    BY DEF IInv, ReadEnd
<1>2. out' = Final' /\ Final' = Final
    BY <1>1 DEF NothingLost, Final
<1>3. Final' \in Seq(Byte)
    BY <1>1, <1>2, FinalIsSeq DEF TypeOK
<1>4. TypeOK'
    BY <1>1, <1>2, <1>3 DEF TypeOK
<1>5. NothingWrittenTooEarly'
    <2>1. Len(Final') <= Len(Final') /\ Final' = SubSeq(Final', 1, Len(Final'))
        BY <1>3
    <2>2. QED
        BY <1>2, <2>1 DEF NothingWrittenTooEarly, Final, PatchMediaCheck
<1>6. QED
    BY <1>1, <1>2, <1>4, <1>5
    DEF IInv, Counts, NothingLost, HeldBack, AllWritten, SizeFitsTheData

LEMMA FinishKeepsInvariant ==
    ASSUME IInv, FinishFile
    PROVE  IInv'
<1>1. /\ TypeOK /\ Counts /\ NothingLost /\ HeldBack /\ AllWritten /\ NothingWrittenTooEarly
      /\ pc = "flush" \/ (pc = "copy" /\ remaining = 0)
      /\ pc' = "done"
      /\ entry_size' = reported - remaining
      /\ padding' = PaddingFor(entry_size', SectorSize)
      /\ UNCHANGED <<patch_media, reported, remaining, carried, out, consumed>>
    BY DEF IInv, FinishFile
<1>2. /\ entry_size' = Len(consumed) /\ entry_size' \in 0..reported
      /\ entry_size' \in Nat /\ reported \in Nat
    BY <1>1 DEF Counts, TypeOK
<1>3. out = Final
    <2>1. CASE pc = "flush"
        BY <1>1, <2>1 DEF AllWritten
    <2>2. CASE pc = "copy" /\ remaining = 0
        <3>1. out \o << >> = Final
            BY <1>1, <2>2 DEF NothingLost, HeldBack
        <3>2. out \in Seq(Byte)
            BY <1>1 DEF TypeOK
        <3>3. QED
            BY <3>1, <3>2, ConcatEmptySeq
    <2>3. QED
        BY <1>1, <2>1, <2>2
<1>4. Final' = Final
    BY <1>1 DEF Final
<1>5. Len(out') = entry_size'
    BY <1>1, <1>2, <1>3, FinalIsSeq DEF TypeOK
<1>6. /\ padding' \in Nat
      /\ entry_size' + padding' = SectorsFor(entry_size') * SectorSize
    <2>1. PaddingFor(entry_size', SectorSize) \in 0..(SectorSize - 1)
        BY <1>2, PaddingRoundsUp, FormatAssumption
    <2>2. padding' \in Nat
        BY <1>1, <2>1, FormatAssumption
    <2>3. QED
        BY <1>1, <1>2, <2>2, PaddingFillsTheSectors
<1>7. SectorsFor(entry_size') * SectorSize <= SectorsFor(reported) * SectorSize
    BY <1>2, MoreBytesMoreSectors
<1>8. SizeFitsTheData'
    BY <1>1, <1>5, <1>6, <1>7 DEF SizeFitsTheData, SectorsFor
<1>9. TypeOK'
    BY <1>1, <1>2, <1>6 DEF TypeOK
<1>10. NothingWrittenTooEarly' /\ AllWritten'
    BY <1>1, <1>3, <1>4 DEF NothingWrittenTooEarly, AllWritten, PatchMediaCheck
<1>11. QED
    BY <1>1, <1>8, <1>9, <1>10 DEF IInv, Counts, NothingLost, HeldBack

LEMMA FailKeepsInvariant ==
    ASSUME IInv, Fail
    PROVE  IInv'
BY DEF Fail, IInv, TypeOK, Counts, NothingLost, HeldBack, AllWritten, Final,
       NothingWrittenTooEarly, PatchMediaCheck, SizeFitsTheData

LEMMA InvariantIsInductive == Spec => []IInv
<1>1. Init => IInv
    <2> SUFFICES ASSUME Init PROVE IInv
        OBVIOUS
    <2>1. /\ out = << >> /\ carried = << >> /\ consumed = << >> /\ remaining = reported
          /\ reported \in Nat /\ pc = "copy" /\ padding = 0 /\ entry_size = reported
          /\ patch_media \in BOOLEAN
        BY CopyAssumption DEF Init
    <2>2. TypeOK
        BY <2>1 DEF TypeOK
    <2>3. Final \in Seq(Byte) /\ Len(Final) = 0
        BY <2>1, FinalIsSeq
    <2>4. Final = << >>
        BY <2>3
    <2>5. NothingLost
        BY <2>1, <2>4 DEF NothingLost
    <2>6. NothingWrittenTooEarly
        <3>1. Len(out) <= Len(Final) /\ out = SubSeq(Final, 1, Len(out))
            BY <2>1, <2>4
        <3>2. QED
            BY <3>1 DEF NothingWrittenTooEarly, Final, PatchMediaCheck
    <2>7. QED
        BY <2>1, <2>2, <2>5, <2>6, CopyAssumption
        DEF IInv, Counts, HeldBack, AllWritten, SizeFitsTheData
<1>2. IInv /\ [Next]_vars => IInv'
    <2> SUFFICES ASSUME IInv, [Next]_vars PROVE IInv'
        OBVIOUS
    <2>1. CASE ReadChunk
        BY <2>1, ReadKeepsInvariant
    <2>2. CASE ReadEnd
        BY <2>2, ReadEndKeepsInvariant
    <2>3. CASE FinishFile
        BY <2>3, FinishKeepsInvariant
    <2>4. CASE Fail
        BY <2>4, FailKeepsInvariant
    <2>5. CASE UNCHANGED vars
        BY <2>5 DEF vars, IInv, TypeOK, Counts, NothingLost, HeldBack, AllWritten, Final,
                    NothingWrittenTooEarly, PatchMediaCheck, SizeFitsTheData
    <2>6. QED
        BY <2>1, <2>2, <2>3, <2>4, <2>5 DEF Next
<1>3. QED
    BY <1>1, <1>2, PTL DEF Spec

-------------------------------------------------------------------------------
\* However the source is cut into chunks and wherever it ends, the file in the
\* image is the source with every occurrence patched, the size stored for it is
\* its length, and no byte was written before it was final.
THEOREM CopyIsCorrect == Spec => [](CopyIsPatched /\ NothingWrittenTooEarly /\ SizeFitsTheData)
<1>1. IInv => CopyIsPatched /\ NothingWrittenTooEarly /\ SizeFitsTheData
    BY DEF IInv, AllWritten, Final, CopyIsPatched, PatchMediaCheck
<1>2. QED
    BY <1>1, InvariantIsInductive, PTL
===============================================================================
