---------------------------- MODULE AmdContainer ----------------------------
(***************************************************************************)
(* Skipping to the next container in a file of AMD microcode               *)
(* (container_fast_forward of src/microcode_amd_verified.c).  A container  *)
(* is followed by patches, each with a header of two words, type and       *)
(* length; the function skips patches until it meets the header of a       *)
(* container.  Lengths come from the file and are added without a check.   *)
(* The offset counts bytes where lengths are added to it, and words where  *)
(* it is added to the pointer to the file: behind the first patch headers  *)
(* are read four times too far on, perhaps behind the file.                *)
(***************************************************************************)
EXTENDS Integers

CONSTANTS
    Width,        \* bits of an unsigned int
    Lengths,      \* header[1], the length of a patch
    Lefts         \* size_left, the bytes left in the file

ASSUME WidthAssumption == Width \in Nat \ {0}
ASSUME LengthsAssumption == Lengths \subseteq 0..(2^Width - 1)
ASSUME LeftsAssumption == Lefts \subseteq 0..(2^Width - 1)

VARIABLE amd      \* pc, size_left, offset, result; bytes left at first (total);
                  \* the headers read so far by their place (file); the rest,
                  \* and what is behind the file, may be any

HeaderBytes == 8
WordBytes == 4      \* sizeof(uint32_t)
MinPatch == 32

\* header[0] and header[1]: a container has the length 0 in this place.
\* magic: UCODE_MAGIC; patch: UCODE_UCODE_TYPE.
FileHeaders == [type : {"magic", "patch", "other"}, len : Lengths]

Container == [type |-> "magic", len |-> 0]

AmdInit ==
    amd = [pc |-> "idle", left |-> 0, offset |-> 0, result |-> 0,
           total |-> 0, file |-> <<>>]

\* The request behind the container it has looked at (external).
ForwardCall ==
    /\ amd.pc # "turn"
    /\ \E n \in Lefts :
        amd' = [pc |-> "turn", left |-> n, offset |-> 0, result |-> 0,
                total |-> n, file |-> <<>>]

ForwardReturn(r) == amd' = [amd EXCEPT !.pc = "done", !.result = r]

\* data + *offset, in bytes from the beginning of the file.
HeaderAt == WordBytes * amd.offset

\* The headers read, with h as the one at the offset.
Read(h) ==
    [a \in DOMAIN amd.file \cup {HeaderAt} |-> IF a = HeaderAt THEN h ELSE amd.file[a]]

\* Mutant: no patch is too short.
BadSizeTooLarge(size) == amd.left < size

BadSize(size) == size < MinPatch \/ amd.left < size

\* The header, h, is not a container's: skip it.
Skip(h) ==
    LET size == (h.len + HeaderBytes) % 2^Width
    IN  IF h.type # "patch" \/ BadSize(size) THEN ForwardReturn(-101)
        ELSE amd' = [amd EXCEPT
                !.left = @ - size,
                !.offset = (@ + size) % 2^Width,
                !.file = Read(h),
                !.pc = IF amd.left = size THEN "done" ELSE @,
                !.result = IF amd.left = size THEN -4 ELSE @]

\* One turn of the loop.
ForwardTurn ==
    /\ amd.pc = "turn"
    /\ \/ amd.left < HeaderBytes /\ ForwardReturn(-101)
       \/ /\ amd.left >= HeaderBytes
          /\ \E h \in FileHeaders :
                /\ HeaderAt \in DOMAIN amd.file => h = amd.file[HeaderAt]
                /\ IF h = Container
                   THEN amd' = [amd EXCEPT !.pc = "done", !.file = Read(h)]
                   ELSE Skip(h)

AmdNext == ForwardCall \/ ForwardTurn

AmdSpec == AmdInit /\ [][AmdNext]_amd

-----------------------------------------------------------------------------
(* Properties *)

\* The offset and the bytes left add up to the file; success is reported for
\* the header of a container, where the pointer looked for it, and the end of
\* the file only when all its bytes are counted.
Accounted ==
    /\ amd.offset + amd.left = amd.total
    /\ amd.result = 0 => HeaderAt \in DOMAIN amd.file /\ amd.file[HeaderAt] = Container
    /\ amd.result = -4 <=> amd.left = 0 /\ amd.total > 0

\* Whatever is found for headers, lengths that overflow when the header is
\* added included, skipping comes to an end with its counts in order: the
\* size that is checked is the size that is skipped (lines 596 to 604).
FastForward == amd.pc = "turn" ~> (amd.pc = "done" /\ Accounted)
=============================================================================
