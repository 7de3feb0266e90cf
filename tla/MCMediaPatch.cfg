\* Every buffer of up to 7 bytes over the three bytes of the pattern and the
\* patch byte: up to two occurrences, adjacent ones and near misses included.
CONSTANTS
    Byte = {1, 2, 3, 4}
    PatchByte = 4
    MaxLength = 7
    Pattern <- MCPattern
SPECIFICATION PatchSpec
INVARIANTS
    PatchesEveryMatch
\* The search ends.
CHECK_DEADLOCK FALSE
