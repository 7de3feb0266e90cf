------------------------------- MODULE FileCopy -------------------------------
(* write_file (src/image_writer.cpp) copies one file into the image, a buffer   *)
(* at a time.  With the media patch every chunk goes through patch_media_check, *)
(* and its last bytes are carried over to the front of the next one, so that an *)
(* occurrence of the pattern that spans two chunks is found.                    *)
(* The source is open-ended: the file may have shrunk or grown since its size   *)
(* was taken, a read may return less than was asked for, and any step can fail. *)
EXTENDS XisoFormat, MediaCheck

CONSTANTS BufferSize,       \* copy_buffer_size
          Carry,            \* media_patch_carry
          MaxFileSize       \* TLC only: largest reported size

\* One byte less than the pattern is carried, and a full carry leaves room in
\* the buffer: reading into no room at all would look like the end of the file.
ASSUME CopyAssumption ==
    /\ Carry \in Nat
    /\ Carry = Len(Pattern) - 1
    /\ BufferSize \in Nat
    /\ BufferSize > Carry
    /\ MaxFileSize \in Nat

VARIABLES
    pc,             \* "copy" | "flush" | "done" | "failed"
    patch_media,    \* media_enable and the name ends with ".xbe"
    reported,       \* the size the layout was computed from
    remaining,      \* bytes still wanted
    carried,        \* bytes held back at the front of the buffer
    out,            \* bytes written to the image
    padding,        \* bytes of padding written behind them
    entry_size,     \* the size that will be stored in the directory table
    consumed        \* history: the bytes read from the source

vars == <<pc, patch_media, reported, remaining, carried, out, padding, entry_size, consumed>>

Chunks(wanted) == UNION {[1..n -> Byte] : n \in 1..wanted}

MinOf(a, b) == IF a < b THEN a ELSE b

Init ==
    /\ pc = "copy"
    /\ patch_media \in BOOLEAN
    /\ reported \in 0..MaxFileSize
    /\ remaining = reported
    /\ carried = << >>
    /\ out = << >>
    /\ padding = 0
    /\ entry_size = reported
    /\ consumed = << >>

-------------------------------------------------------------------------------
\* A file that grows is not read past its reported size.
Wanted == MinOf(remaining, BufferSize - Len(carried))

\* What patch_media_check leaves in a buffer, as module MediaPatch shows.
PatchMediaCheck(buffer) == Patched(buffer)

CopyPlain(chunk) ==
    /\ ~patch_media
    /\ out' = out \o chunk
    /\ carried' = carried

\* Mistake: one byte too few is held back.
CopyHoldingTooLittle(chunk) ==
    /\ patch_media
    /\ LET buffer == PatchMediaCheck(carried \o chunk)
           keep   == IF remaining' > 0 THEN MinOf(Carry - 1, Len(buffer)) ELSE 0
           split  == Len(buffer) - keep
       IN  /\ out' = out \o SubSeq(buffer, 1, split)
           /\ carried' = SubSeq(buffer, split + 1, Len(buffer))

\* All of the buffer but its last bytes is written; nothing stays behind once
\* the last byte has been read.
CopyPatched(chunk) ==
    /\ patch_media
    /\ LET buffer == PatchMediaCheck(carried \o chunk)
           keep   == IF remaining' > 0 THEN MinOf(Carry, Len(buffer)) ELSE 0
           split  == Len(buffer) - keep
       IN  /\ out' = out \o SubSeq(buffer, 1, split)
           /\ carried' = SubSeq(buffer, split + 1, Len(buffer))

ReadChunk ==
    /\ pc = "copy"
    /\ remaining > 0
    /\ \E chunk \in Chunks(Wanted) :
          /\ consumed' = consumed \o chunk
          /\ remaining' = remaining - Len(chunk)
          /\ CopyPlain(chunk) \/ CopyPatched(chunk)
    /\ UNCHANGED <<pc, patch_media, reported, padding, entry_size>>

\* Mistake: what was held back is forgotten.
ReadEndForgettingCarry ==
    /\ pc = "copy"
    /\ remaining > 0
    /\ pc' = "flush"
    /\ UNCHANGED <<patch_media, reported, remaining, carried, out, padding, entry_size, consumed>>

\* The file is shorter than reported: what was held back is written after all.
ReadEnd ==
    /\ pc = "copy"
    /\ remaining > 0
    /\ out' = out \o carried
    /\ pc' = "flush"
    /\ UNCHANGED <<patch_media, reported, remaining, carried, padding, entry_size, consumed>>

\* Mistake: the padding is that of the reported size.
FinishFileAsReported ==
    /\ \/ pc = "copy" /\ remaining = 0
       \/ pc = "flush"
    /\ entry_size' = reported - remaining
    /\ padding' = PaddingFor(reported, SectorSize)
    /\ pc' = "done"
    /\ UNCHANGED <<patch_media, reported, remaining, carried, out, consumed>>

FinishFile ==
    /\ \/ pc = "copy" /\ remaining = 0
       \/ pc = "flush"
    /\ entry_size' = reported - remaining
    /\ padding' = PaddingFor(entry_size', SectorSize)
    /\ pc' = "done"
    /\ UNCHANGED <<patch_media, reported, remaining, carried, out, consumed>>

\* A read or a write throws.
Fail ==
    /\ pc \in {"copy", "flush"}
    /\ pc' = "failed"
    /\ UNCHANGED <<patch_media, reported, remaining, carried, out, padding, entry_size, consumed>>

Next == ReadChunk \/ ReadEnd \/ FinishFile \/ Fail

Spec == Init /\ [][Next]_vars

-------------------------------------------------------------------------------
TypeOK ==
    /\ pc \in {"copy", "flush", "done", "failed"}
    /\ patch_media \in BOOLEAN
    /\ reported \in Nat
    /\ remaining \in 0..reported
    /\ carried \in Seq(Byte)
    /\ out \in Seq(Byte)
    /\ padding \in Nat
    /\ entry_size \in 0..reported
    /\ consumed \in Seq(Byte)

\* However the source was cut into chunks, the image holds what patching the
\* whole of it at once would give: no occurrence that spans chunks is missed,
\* no byte is patched twice, held back bytes are neither lost nor repeated.
CopyIsPatched ==
    pc = "done" => out = IF patch_media THEN PatchMediaCheck(consumed) ELSE consumed

\* Also while the copy runs, what is in the image is a beginning of that: a byte
\* once written is never one that a later chunk would still have changed.
NothingWrittenTooEarly ==
    LET final == IF patch_media THEN PatchMediaCheck(consumed) ELSE consumed
    IN  /\ Len(out) <= Len(final)
        /\ out = SubSeq(final, 1, Len(out))

\* The size stored for the file is the number of its bytes in the image, and
\* with the padding it fills whole sectors, no more than were reserved for the
\* reported size.
SizeFitsTheData ==
    pc = "done" =>
        /\ entry_size = Len(out)
        /\ entry_size + padding = SectorsFor(entry_size) * SectorSize
        /\ entry_size + padding <= SectorsFor(reported) * SectorSize
===============================================================================
