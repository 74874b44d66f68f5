--------------------------- MODULE MicrocodeIntel ---------------------------
(***************************************************************************)
(* Loading of Intel microcode (src/intel_verified.c).  A container is a    *)
(* memory area with updates; a request scans it, checks each update it     *)
(* comes to, keeps the last that matches the CPU in mc_intel and applies   *)
(* it.  On resume the update kept is matched again and applied again.      *)
(*                                                                         *)
(* Offsets and sizes are counted in units of an update header.  What the   *)
(* source reads from memory it never wrote (the result of the commented-   *)
(* out allocations and MSR reads, the table of extended signatures) may    *)
(* be anything.                                                            *)
(***************************************************************************)
EXTENDS Integers

CONSTANTS
    Headers,     \* update headers that may be found in a container
    Platforms,   \* platform ids, the bits of pf
    Revs,        \* revisions
    MaxSize,     \* size of the largest container
    DefaultData  \* data size meant by datasize = 0 (2000 bytes)

ASSUME MaxSizeAssumption == MaxSize \in Nat \ {0}
ASSUME DefaultDataAssumption == DefaultData \in Nat \ {0}
ASSUME RevsAssumption == Revs \subseteq Nat /\ Revs # {}

\* valid: hdrver and ldrver are 1; sums: header and data add up to zero.
Header ==
    [sig : Nat, pf : SUBSET Platforms, rev : Revs, valid : BOOLEAN,
     sums : BOOLEAN, datasize : Nat, totalsize : Nat]

ASSUME HeadersAssumption == Headers \subseteq Header

HeaderSize == 1
NoUpdate == [rev |-> -1]      \* the NULL pointer

VARIABLES
    cpu_sig,    \* uci->cpu_sig: sig, pf, rev
    mc_intel,   \* uci->mc.mc_intel
    pc,         \* what the request does next
    size,       \* its container's size
    buf,        \* the headers it has read, by offset; the rest may be any
    offset,     \* its locals: offset, mc, matching_count # 0
    mc,
    matched,
    error       \* what the last request returned

scanVars == <<size, buf, offset, mc, matched>>
vars == <<cpu_sig, mc_intel, pc, error, scanVars>>

-----------------------------------------------------------------------------
(* Headers *)

total_size(h) ==
    IF h.totalsize # 0 THEN h.totalsize ELSE DefaultData + HeaderSize
data_size(h) == IF h.datasize # 0 THEN h.datasize ELSE DefaultData

\* There is room for extended signatures behind the data.
Extended(h) == total_size(h) > data_size(h) + HeaderSize

\* An update names the platforms it is for; 0 is a platform of its own.
OnPlatform(pf) == pf \cap cpu_sig.pf # {} \/ (pf = {} /\ cpu_sig.pf = {})

\* Mutant: an update that is not newer matches too.
MatchAnyRevision(h) ==
    /\ h.sig = cpu_sig.sig
    /\ OnPlatform(h.pf)

microcode_update_match(h) ==
    /\ h.sig = cpu_sig.sig
    /\ OnPlatform(h.pf)
    /\ h.rev > cpu_sig.rev

\* What microcode_sanity_check may return.  The table of extended signatures
\* is read through a pointer that was left NULL.
microcode_sanity_check(h) ==
    IF data_size(h) + HeaderSize > total_size(h) \/ ~h.valid THEN {-101}
    ELSE (IF h.sums THEN {0} ELSE {-101})
            \cup (IF Extended(h) THEN {-101, -14} ELSE {})

\* What get_matching_microcode may return.  The extended signatures are read
\* through an uninitialised pointer, but the revision is the header's; the
\* memory for the copy (new_mc) may be NULL.
get_matching_microcode(h) ==
    LET find == {1, -12}
    IN  IF microcode_update_match(h) THEN find
        ELSE IF Extended(h) /\ h.rev > cpu_sig.rev THEN {0} \cup find
        ELSE {0}

-----------------------------------------------------------------------------

Init ==
    /\ cpu_sig = [sig |-> 0, pf |-> {}, rev |-> 0]
    /\ mc_intel = NoUpdate
    /\ pc = "idle"
    /\ size = 0 /\ buf = <<>> /\ offset = 0
    /\ mc = NoUpdate /\ matched = FALSE
    /\ error = 0

\* The generic microcode code (external) starts an update or, after a
\* suspend, a resume; both collect the CPU's signature first.
Begin(op) ==
    /\ pc = "idle"
    /\ pc' = op
    /\ error' = 0
    /\ \E s \in 1..MaxSize : size' = s
    /\ buf' = <<>> /\ offset' = 0 /\ mc' = NoUpdate /\ matched' = FALSE
    /\ UNCHANGED <<cpu_sig, mc_intel>>

Return(e) == pc' = "idle" /\ error' = e

\* Another vendor's CPU, or one that is too old, is refused.  pf is only
\* read from models that have it.
collect_cpu_info ==
    /\ pc \in {"update", "resume"}
    /\ \/ /\ Return(-1)
          /\ UNCHANGED cpu_sig
       \/ /\ \E p \in {{x} : x \in Platforms} \cup {cpu_sig.pf}, r \in Revs :
                cpu_sig' = [sig |-> 0, pf |-> p, rev |-> r]
          /\ IF pc = "update" THEN pc' = "next" /\ UNCHANGED error
             ELSE IF mc_intel = NoUpdate THEN Return(0)
             ELSE pc' = "rematch" /\ UNCHANGED error
    /\ UNCHANGED <<mc_intel, scanVars>>

\* The loop of cpu_request_microcode is left without an error, be it because
\* the container ends or because get_next_ucode_from_buffer failed: the
\* statement that would report its error is never reached.
EndScan ==
    /\ IF matched THEN pc' = "apply" /\ UNCHANGED error ELSE Return(0)
    /\ UNCHANGED <<cpu_sig, mc_intel, scanVars>>

\* Mutant: the scan goes on while the offset is not negative.
ScanEndNonNegative ==
    /\ pc = "next" /\ offset >= size
    /\ offset' = 0
    /\ UNCHANGED <<cpu_sig, mc_intel, pc, error, size, buf, mc, matched>>

ScanEnd ==
    /\ pc = "next" /\ offset >= size
    /\ EndScan

\* The header at the offset.  The next offset is the size of this update,
\* not the place where it ends.  An update is compared with the whole
\* container only: what is copied may go beyond the end.
get_next_ucode_from_buffer ==
    /\ pc = "next" /\ offset < size
    /\ \E h \in Headers :
        /\ offset \in DOMAIN buf => h = buf[offset]
        /\ LET read == [o \in DOMAIN buf \cup {offset} |->
                            IF o = offset THEN h ELSE buf[o]]
           IN  \/ /\ total_size(h) <= size
                  /\ pc' = "check"
                  /\ \E b \in IF offset + total_size(h) <= size
                              THEN {h.sums} ELSE BOOLEAN :
                        mc' = [h EXCEPT !.sums = b]
                  /\ buf' = read
                  /\ offset' = total_size(h)
                  /\ UNCHANGED <<cpu_sig, mc_intel, error, size, matched>>
               \/ EndScan    \* too large, or no memory

Check ==
    /\ pc = "check"
    /\ \E e \in microcode_sanity_check(mc) :
            IF e = 0 THEN pc' = "match" /\ UNCHANGED error ELSE Return(e)
    /\ UNCHANGED <<cpu_sig, mc_intel, scanVars>>

Match ==
    /\ pc = "match"
    /\ \E e \in get_matching_microcode(mc) :
        /\ IF e < 0 THEN Return(e) ELSE pc' = "next" /\ UNCHANGED error
        /\ mc_intel' = IF e = 1 THEN mc ELSE mc_intel
        /\ matched' = (matched \/ e = 1)
    /\ UNCHANGED <<cpu_sig, size, buf, offset, mc>>

\* The copy kept is matched and kept again; the caller (external) applies it.
microcode_resume_match ==
    /\ pc = "rematch"
    /\ \E e \in get_matching_microcode(mc_intel) :
            IF e = 1 THEN pc' = "apply" /\ UNCHANGED error ELSE Return(e)
    /\ UNCHANGED <<cpu_sig, mc_intel, scanVars>>

\* The revision the CPU reports after the update.
apply_microcode ==
    /\ pc = "apply"
    /\ IF mc_intel = NoUpdate THEN Return(-101) /\ UNCHANGED cpu_sig
       ELSE \E val \in Revs :
                IF val # mc_intel.rev THEN Return(-5) /\ UNCHANGED cpu_sig
                ELSE Return(0) /\ cpu_sig' = [cpu_sig EXCEPT !.rev = val]
    /\ UNCHANGED <<mc_intel, scanVars>>

Step ==
    \/ collect_cpu_info \/ ScanEnd \/ get_next_ucode_from_buffer \/ Check
    \/ Match \/ microcode_resume_match \/ apply_microcode

Next == Begin("update") \/ Begin("resume") \/ Step

\* A request that has begun runs on: nothing in it waits.
Spec == Init /\ [][Next]_vars /\ WF_vars(Step)

-----------------------------------------------------------------------------
(* Properties *)

\* What is written to the CPU was found in a container, passed the checks
\* that do not depend on undefined memory, is for this CPU or has further
\* signatures, and is newer than what runs: also on a resume after which
\* the CPU reports another revision or platform, and also when an earlier
\* request failed after it had replaced the update kept (lines 323-379).
AppliesFitting ==
    pc = "apply" =>
        /\ mc_intel # NoUpdate
        /\ mc_intel.valid
        /\ data_size(mc_intel) + HeaderSize <= total_size(mc_intel)
        /\ mc_intel.rev > cpu_sig.rev
        /\ \/ Extended(mc_intel)
           \/ /\ mc_intel.sig = cpu_sig.sig
              /\ OnPlatform(mc_intel.pf)

\* Every update read so far is larger than the offset it is at.
Rising == \A o \in DOMAIN buf : total_size(buf[o]) > o

\* A request comes to an end in every container whose updates are larger than
\* their offsets, such as one with a single update.  (In others the offset
\* may come back: two updates of one size are scanned for ever.)
ScanEnds == pc = "next" ~> (pc = "idle" \/ ~Rising)
=============================================================================
