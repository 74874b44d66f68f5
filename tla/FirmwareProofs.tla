--------------------------- MODULE FirmwareProofs ---------------------------
(***************************************************************************)
(* Proofs about what Xen makes of data from firmware and from vendors:     *)
(* Intel microcode updates (MicrocodeIntel), files of AMD microcode        *)
(* (AmdContainer), the map of proximity domains (NumaMap) and the ranges   *)
(* of memory of the nodes (NumaRanges).                                    *)
(***************************************************************************)
EXTENDS MicrocodeIntel, AmdContainer, NumaMap, NumaRanges, WellFoundedInduction, TLAPS

-----------------------------------------------------------------------------
(***************************************************************************)
(* Microcode: only updates that are well formed, match the CPU and are     *)
(* newer than what it runs are applied, for any containers and sizes.      *)
(***************************************************************************)

\* The part of the sanity check that reads nothing undefined.
Sound(h) == h.valid /\ data_size(h) + HeaderSize <= total_size(h)

\* h is for this CPU, as far as its header says, and newer.
Fits(h) ==
    /\ h.rev > cpu_sig.rev
    /\ Extended(h) \/ (h.sig = cpu_sig.sig /\ OnPlatform(h.pf))

\* The update kept passed the check, whichever request kept it.
KeptSound == mc_intel = NoUpdate \/ (mc_intel \in Header /\ Sound(mc_intel))

\* The update under examination.
Examined ==
    /\ pc \in {"check", "match"} => mc \in Header
    /\ pc = "match" => Sound(mc)

\* Once this request has found a match, the update kept fits: a later match
\* replaces it by one that fits too, and cpu_sig stays as collected.
MatchedFits ==
    pc = "apply" \/ (pc \in {"next", "check", "match"} /\ matched) =>
        mc_intel # NoUpdate /\ Fits(mc_intel)

\* A request starts without a match; a resume goes on only with an update.
StartsUnmatched ==
    /\ pc \in {"update", "resume"} => ~matched
    /\ pc = "rematch" => mc_intel # NoUpdate

IInv == KeptSound /\ Examined /\ MatchedFits /\ StartsUnmatched

-----------------------------------------------------------------------------
\* The null pointer is no update.
LEMMA UpdateNotNull == NoUpdate \notin Header
  <1>1. SUFFICES ASSUME NoUpdate \in Header PROVE FALSE
    OBVIOUS
  <1>2. NoUpdate.rev \in Revs
    BY <1>1 DEF Header
  <1>3. NoUpdate.rev = -1
    BY DEF NoUpdate
  <1> QED
    BY <1>2, <1>3, RevsAssumption

\* What the check lets pass is sound.
LEMMA CheckedSound ==
    ASSUME NEW h \in Header, 0 \in microcode_sanity_check(h)
    PROVE  Sound(h)
  <1>1. data_size(h) \in Nat /\ total_size(h) \in Nat
    BY DefaultDataAssumption DEF data_size, total_size, Header, HeaderSize
  <1>2. ~(data_size(h) + HeaderSize > total_size(h) \/ ~h.valid)
    BY DEF microcode_sanity_check
  <1> QED
    BY <1>1, <1>2 DEF Sound, HeaderSize

\* What is kept fits the CPU.
LEMMA FoundFits ==
    ASSUME NEW h \in Header, 1 \in get_matching_microcode(h)
    PROVE  Fits(h)
  BY DEF get_matching_microcode, microcode_update_match, Fits

\* It holds when no request has been made.
LEMMA InitIInv == Init => IInv
  BY DEF Init, IInv, KeptSound, Examined, MatchedFits, StartsUnmatched

\* Every step of a request keeps it.
LEMMA NextIInv == IInv /\ [Next]_vars => IInv'
  <1> SUFFICES ASSUME IInv, [Next]_vars PROVE IInv'
    OBVIOUS
  <1> USE DEF IInv, KeptSound, Examined, MatchedFits, StartsUnmatched,
              Return, scanVars
  <1>1. ASSUME NEW op \in {"update", "resume"}, Begin(op) PROVE IInv'
    BY <1>1 DEF Begin
  <1>2. CASE collect_cpu_info
    BY <1>2 DEF collect_cpu_info
  <1>e. ASSUME EndScan, pc = "next" PROVE IInv'
    BY <1>e DEF EndScan, Fits, OnPlatform
  <1>3. CASE ScanEnd
    BY <1>3, <1>e DEF ScanEnd
  <1>4. CASE get_next_ucode_from_buffer
    <2>1. PICK h \in Headers :
            \/ /\ pc' = "check"
               /\ \E b \in BOOLEAN : mc' = [h EXCEPT !.sums = b]
               /\ UNCHANGED <<cpu_sig, mc_intel, matched>>
            \/ EndScan
      BY <1>4, HeadersAssumption DEF get_next_ucode_from_buffer, Header
    <2>2. CASE EndScan
      BY <1>4, <2>2, <1>e DEF get_next_ucode_from_buffer
    <2>3. CASE /\ pc' = "check"
               /\ \E b \in BOOLEAN : mc' = [h EXCEPT !.sums = b]
               /\ UNCHANGED <<cpu_sig, mc_intel, matched>>
      <3>1. mc' \in Header
        BY <2>3, HeadersAssumption DEF Header
      <3>2. pc = "next"
        BY <1>4 DEF get_next_ucode_from_buffer
      <3> QED
        BY <2>3, <3>1, <3>2 DEF Fits, OnPlatform
    <2> QED
      BY <2>1, <2>2, <2>3
  <1>5. CASE Check
    <2>1. PICK e \in microcode_sanity_check(mc) :
            IF e = 0 THEN pc' = "match" /\ UNCHANGED error ELSE Return(e)
      BY <1>5 DEF Check
    <2>2. pc' = "match" => Sound(mc)
      BY <1>5, <2>1, CheckedSound DEF Check
    <2> QED
      BY <1>5, <2>1, <2>2 DEF Check, Fits, OnPlatform
  <1>6. CASE Match
    <2>1. PICK e \in get_matching_microcode(mc) :
            /\ IF e < 0 THEN Return(e) ELSE pc' = "next" /\ UNCHANGED error
            /\ mc_intel' = IF e = 1 THEN mc ELSE mc_intel
            /\ matched' = (matched \/ e = 1)
      BY <1>6 DEF Match
    <2>2. mc \in Header /\ Sound(mc) /\ mc # NoUpdate
      BY <1>6, UpdateNotNull DEF Match
    <2>3. CASE e = 1
      <3>1. Fits(mc)
        BY <2>2, <2>3, FoundFits
      <3> QED
        BY <1>6, <2>1, <2>2, <2>3, <3>1 DEF Match, Fits, OnPlatform
    <2>4. CASE e # 1
      BY <1>6, <2>1, <2>4 DEF Match, Fits, OnPlatform
    <2> QED
      BY <2>3, <2>4
  <1>7. CASE microcode_resume_match
    <2>1. PICK e \in get_matching_microcode(mc_intel) :
            IF e = 1 THEN pc' = "apply" /\ UNCHANGED error ELSE Return(e)
      BY <1>7 DEF microcode_resume_match
    <2>2. pc' = "apply" => mc_intel # NoUpdate /\ Fits(mc_intel)
      BY <1>7, <2>1, FoundFits DEF microcode_resume_match
    <2> QED
      BY <1>7, <2>1, <2>2 DEF microcode_resume_match, Fits, OnPlatform
  <1>8. CASE apply_microcode
    BY <1>8 DEF apply_microcode
  <1>9. CASE UNCHANGED vars
    BY <1>9 DEF vars, Fits, OnPlatform
  <1> QED
    BY <1>1, <1>2, <1>3, <1>4, <1>5, <1>6, <1>7, <1>8, <1>9 DEF Next, Step

-----------------------------------------------------------------------------
\* An update that reaches the CPU was found in a container, is sound, matches
\* the CPU and is newer than the revision it runs (apply_microcode, line 382),
\* whatever the containers hold and however requests and resumes follow.
THEOREM FittingApplied == Spec => []AppliesFitting
  <1>1. IInv => AppliesFitting
    BY DEF IInv, KeptSound, MatchedFits, AppliesFitting, Sound, Fits
  <1> QED
    BY <1>1, InitIInv, NextIInv, PTL DEF Spec

-----------------------------------------------------------------------------
(***************************************************************************)
(* AMD containers: skipping patches ends, with its counts in order, for    *)
(* any file.                                                               *)
(***************************************************************************)

\* The headers read so far.
Files == UNION {[S -> FileHeaders] : S \in SUBSET Nat}

ForwardCalls ==
    [pc : {"idle", "turn", "done"}, left : Nat, offset : Nat,
     result : {0, -4, -101}, total : Nat, file : Files]

\* What is left and the offset add up to the file, and a call goes on only
\* with something left, or with the file it was given.
AmdInv ==
    /\ amd \in ForwardCalls
    /\ amd.offset + amd.left = amd.total
    /\ amd.pc = "turn" =>
        /\ amd.total < 2^Width /\ amd.result = 0
        /\ amd.left > 0 \/ amd.left = amd.total
    /\ amd.pc = "done" => Accounted

\* Lengths and sizes are unsigned ints.
LEMMA LengthsFit ==
    /\ \A n \in Lengths : n \in Nat /\ n < 2^Width
    /\ \A n \in Lefts : n \in Nat /\ n < 2^Width
<1>1. 2^Width \in Int
    BY WidthAssumption
<1>2. ASSUME NEW n \in 0..(2^Width - 1) PROVE n \in Nat /\ n < 2^Width
    BY <1>1, <1>2
<1> QED
    BY <1>2, LengthsAssumption, LeftsAssumption

\* Nothing has been read.
LEMMA EmptyFile == <<>> \in Files
<1>1. <<>> \in [{} -> FileHeaders] /\ {} \in SUBSET Nat
    OBVIOUS
<1> QED
    BY <1>1 DEF Files

\* What is read where the pointer looks stays in the record of the file.
LEMMA ReadAtOffset ==
    ASSUME amd \in ForwardCalls, NEW h \in FileHeaders
    PROVE  Read(h) \in Files /\ HeaderAt \in DOMAIN Read(h) /\ Read(h)[HeaderAt] = h
<1>1. PICK S \in SUBSET Nat : amd.file \in [S -> FileHeaders]
    BY DEF ForwardCalls, Files
<1>2. HeaderAt \in Nat
    <2>1. amd.offset \in Nat
        BY DEF ForwardCalls
    <2> QED
        BY <2>1 DEF HeaderAt, WordBytes
<1> DEFINE T == S \cup {HeaderAt}
<1>3. T \in SUBSET Nat
    BY <1>2
<1>4. /\ Read(h) \in [T -> FileHeaders]
      /\ HeaderAt \in DOMAIN Read(h) /\ Read(h)[HeaderAt] = h
    BY <1>1 DEF Read
<1> HIDE DEF T
<1> QED
    BY <1>3, <1>4 DEF Files

\* An error leaves everything but the control point and the result alone.
LEMMA ErrorInv ==
    ASSUME AmdInv, amd.pc = "turn", amd.left > 0 \/ amd.left = amd.total, ForwardReturn(-101)
    PROVE  AmdInv' /\ amd'.pc = "done"
<1>1. amd' \in ForwardCalls /\ amd'.pc = "done" /\ amd'.result = -101
    BY DEF AmdInv, ForwardCalls, ForwardReturn
<1>2. amd'.left = amd.left /\ amd'.offset = amd.offset /\ amd'.total = amd.total
    BY DEF AmdInv, ForwardCalls, ForwardReturn
<1>3. amd.left \in Nat /\ amd.total \in Nat /\ amd.offset \in Nat
    BY DEF AmdInv, ForwardCalls
<1> QED
    BY <1>1, <1>2, <1>3 DEF AmdInv, Accounted

\* Skipping a patch: the size that is left out fits into what is left, so
\* neither counter wraps.
LEMMA SkipInv ==
    ASSUME AmdInv, amd.pc = "turn", amd.left >= HeaderBytes, NEW h \in FileHeaders, Skip(h)
    PROVE  /\ AmdInv'
           /\ amd'.pc = "done" \/ amd'.left + MinPatch <= amd.left
<1> DEFINE patch == (h.len + HeaderBytes) % 2^Width
<1>1. /\ amd.left \in Nat /\ amd.offset \in Nat /\ amd.total \in Nat
      /\ amd.offset + amd.left = amd.total /\ amd.total < 2^Width /\ amd.result = 0
    BY DEF AmdInv, ForwardCalls
<1>2. 2^Width \in Nat /\ 2^Width > HeaderBytes
    <2>1. 2^Width \in Int
        BY WidthAssumption
    <2> QED
        BY <1>1, <2>1 DEF HeaderBytes
<1>3. h.len \in Nat
    <2>1. h.len \in Lengths
        BY DEF FileHeaders
    <2> QED
        BY <2>1, LengthsFit
<1>4. patch \in Nat
    BY <1>2, <1>3 DEF HeaderBytes
<1> HIDE DEF patch
<1>5. CASE h.type # "patch" \/ BadSize(patch)
    <2>1. ForwardReturn(-101)
        BY <1>5 DEF Skip, patch
    <2> QED
        BY <1>1, <2>1, ErrorInv DEF HeaderBytes
<1>6. CASE ~(h.type # "patch" \/ BadSize(patch))
    <2>1. patch >= MinPatch /\ patch <= amd.left
        BY <1>1, <1>4, <1>6 DEF BadSize, MinPatch
    <2>2. (amd.offset + patch) % 2^Width = amd.offset + patch
        <3>1. amd.offset + patch \in Nat /\ amd.offset + patch < 2^Width
            BY <1>1, <1>2, <1>4, <2>1
        <3> QED
            BY <1>2, <3>1
    <2>3. amd' = [amd EXCEPT !.left = amd.left - patch, !.offset = amd.offset + patch,
                    !.file = Read(h),
                    !.pc = IF amd.left = patch THEN "done" ELSE amd.pc,
                    !.result = IF amd.left = patch THEN -4 ELSE amd.result]
        BY <1>6, <2>2 DEF Skip, patch
    <2> DEFINE over == IF amd.left = patch THEN "done" ELSE amd.pc
               answer == IF amd.left = patch THEN -4 ELSE amd.result
               left == amd.left - patch
               next == amd.offset + patch
               read == Read(h)
    <2>4. /\ left \in Nat /\ next \in Nat /\ next + left = amd.total
          /\ over = (IF left = 0 THEN "done" ELSE "turn")
          /\ answer = (IF left = 0 THEN -4 ELSE 0)
          /\ left + MinPatch <= amd.left /\ amd.total > 0
          /\ read \in Files
        BY <1>1, <1>4, <2>1, ReadAtOffset DEF MinPatch, AmdInv
    <2>5. amd' = [amd EXCEPT !.left = left, !.offset = next, !.file = read,
                             !.pc = over, !.result = answer]
        BY <2>3
    <2> HIDE DEF over, answer, left, next, read
    <2>6. over \in {"turn", "done"} /\ answer \in {0, -4, -101}
        BY <2>4
    <2>7. /\ amd'.left = left /\ amd'.offset = next /\ amd'.total = amd.total
          /\ amd'.pc = over /\ amd'.result = answer
        BY <2>5 DEF AmdInv, ForwardCalls
    <2>8. amd' \in ForwardCalls
        BY <2>4, <2>5, <2>6 DEF AmdInv, ForwardCalls
    <2> QED
        BY <1>1, <2>4, <2>7, <2>8 DEF AmdInv, Accounted
<1> QED
    BY <1>5, <1>6

\* A turn of the loop ends the call or skips at least the shortest patch.
LEMMA TurnInv ==
    ASSUME AmdInv, ForwardTurn
    PROVE  AmdInv' /\ (amd'.pc = "done" \/ amd'.left + MinPatch <= amd.left)
<1>1. /\ amd.pc = "turn" /\ amd.left \in Nat /\ amd.total \in Nat /\ amd.result = 0
      /\ amd.left > 0 \/ amd.left = amd.total
    <2>1. amd.pc = "turn"
        BY Zenon DEF ForwardTurn
    <2> QED
        BY <2>1 DEF AmdInv, ForwardCalls
<1>2. CASE amd.left < HeaderBytes /\ ForwardReturn(-101)
    BY <1>1, <1>2, ErrorInv
<1>3. ASSUME amd.left >= HeaderBytes, NEW h \in FileHeaders, h = Container,
             amd' = [amd EXCEPT !.pc = "done", !.file = Read(h)]
      PROVE  AmdInv' /\ amd'.pc = "done"
    <2> DEFINE read == Read(h)
    <2>1. read \in Files /\ HeaderAt \in DOMAIN read /\ read[HeaderAt] = Container
        BY <1>3, ReadAtOffset DEF AmdInv
    <2>2. amd' = [amd EXCEPT !.pc = "done", !.file = read]
        BY <1>3
    <2> HIDE DEF read
    <2>3. /\ amd'.left = amd.left /\ amd'.offset = amd.offset /\ amd'.total = amd.total
          /\ amd'.pc = "done" /\ amd'.result = 0 /\ amd'.file = read
          /\ amd' \in ForwardCalls
        BY <1>1, <2>1, <2>2 DEF AmdInv, ForwardCalls
    <2>4. HeaderAt' = HeaderAt
        BY <2>3 DEF HeaderAt
    <2> QED
        BY <1>1, <1>3, <2>1, <2>3, <2>4 DEF AmdInv, Accounted, HeaderBytes
<1>4. ASSUME amd.left >= HeaderBytes, NEW h \in FileHeaders, Skip(h)
      PROVE  AmdInv' /\ (amd'.pc = "done" \/ amd'.left + MinPatch <= amd.left)
    BY <1>1, <1>4, SkipInv
<1>5. \/ amd.left < HeaderBytes /\ ForwardReturn(-101)
      \/ /\ amd.left >= HeaderBytes
         /\ \E h \in FileHeaders :
                \/ h = Container /\ amd' = [amd EXCEPT !.pc = "done", !.file = Read(h)]
                \/ Skip(h)
    BY Zenon DEF ForwardTurn
<1>6. ASSUME amd.left >= HeaderBytes, NEW h \in FileHeaders,
             \/ h = Container /\ amd' = [amd EXCEPT !.pc = "done", !.file = Read(h)]
             \/ Skip(h)
      PROVE  AmdInv' /\ (amd'.pc = "done" \/ amd'.left + MinPatch <= amd.left)
    BY ONLY <1>3, <1>4, <1>6, Zenon
<1> QED
    BY <1>2, <1>5, <1>6, Zenon

\* A call begins at the start of what is left of the file.
LEMMA CallInv == AmdInv /\ ForwardCall => AmdInv'
<1> SUFFICES ASSUME AmdInv, ForwardCall PROVE AmdInv'
    OBVIOUS
<1>1. PICK n \in Lefts : amd' = [pc |-> "turn", left |-> n, offset |-> 0, result |-> 0,
                                 total |-> n, file |-> <<>>]
    BY DEF ForwardCall
<1>2. n \in Nat /\ n < 2^Width
    BY LengthsFit
<1> QED
    BY <1>1, <1>2, EmptyFile DEF AmdInv, ForwardCalls

\* The invariant holds in every reachable state.
LEMMA AmdInvariant == AmdSpec => []AmdInv
<1>1. AmdInit => AmdInv
    BY EmptyFile DEF AmdInit, AmdInv, ForwardCalls
<1>2. AmdInv /\ [AmdNext]_amd => AmdInv'
    <2> SUFFICES ASSUME AmdInv, [AmdNext]_amd PROVE AmdInv'
        OBVIOUS
    <2>1. CASE UNCHANGED amd
        BY <2>1 DEF AmdInv, Accounted, HeaderAt
    <2> QED
        BY <2>1, CallInv, TurnInv DEF AmdNext
<1> QED
    BY <1>1, <1>2, PTL DEF AmdSpec

\* Skipping ends with an error, when all bytes of the file are counted, or at
\* a header of a container where the pointer, which takes the offset for words,
\* looked for it; offset and bytes left add up to the file, for any lengths in
\* it, those that wrap included (container_fast_forward).
THEOREM ForwardAccounted == AmdSpec => [](amd.pc = "done" => Accounted)
<1>1. AmdInv => (amd.pc = "done" => Accounted)
    BY DEF AmdInv
<1> QED
    BY <1>1, AmdInvariant, PTL

\* Each turn of the loop ends it or takes at least the shortest patch off the
\* bytes left, which is why it ends: no length in the file makes it stand
\* still (container_fast_forward).
THEOREM ForwardProgress ==
    AmdSpec => [][ForwardTurn => amd'.pc = "done" \/ amd'.left + MinPatch <= amd.left]_amd
<1>1. AmdInv => [ForwardTurn => amd'.pc = "done" \/ amd'.left + MinPatch <= amd.left]_amd
    BY TurnInv
<1> QED
    BY <1>1, AmdInvariant, PTL

-----------------------------------------------------------------------------
(***************************************************************************)
(* Proximity domains: nodes lead back to their domains, and lookups are    *)
(* stable.                                                                 *)
(***************************************************************************)

\* A set of positions has a first one.
LEMMA FirstPosition ==
    ASSUME NEW S, S \subseteq Nat, S # {}
    PROVE  \E i \in S : \A j \in S : i <= j
<1>1. PICK x \in S : \A y \in S : ~(<<y, x>> \in OpToRel(<, Nat))
    BY WFMin, NatLessThanWellFounded
<1>2. \A y \in S : ~(y < x)
    BY <1>1 DEF OpToRel
<1> QED
    BY <1>2, SMT

\* A loop over the table stops at the least slot that satisfies its test.
LEMMA FirstSlotIsLeast ==
    ASSUME NEW S, S \subseteq Nat, S # {}
    PROVE  /\ FirstSlot(S) \in S
           /\ \A j \in S : FirstSlot(S) <= j
           /\ \A j : j < FirstSlot(S) => j \notin S
<1>1. PICK x \in S : \A y \in S : x <= y
    BY FirstPosition
<1>4. FirstSlot(S) \in S /\ \A j \in S : FirstSlot(S) <= j
    BY <1>1 DEF FirstSlot
<1>5. ASSUME NEW j, j < FirstSlot(S), j \in S PROVE FALSE
    <2>1. j \in Nat /\ FirstSlot(S) \in Nat /\ FirstSlot(S) <= j
        BY <1>4, <1>5
    <2> QED
        BY <1>5, <2>1
<1> QED
    BY <1>4, <1>5

\* The slot FreeSlot picks is free.
LEMMA FreeSlotIsFree ==
    ASSUME MapTypeOK, NEW p, FreeSlot(p) # -1
    PROVE  FreeSlot(p) \in Slots /\ pxm2node[FreeSlot(p)].node = 0
<1> DEFINE F == {i \in Slots : pxm2node[i].node = NUMA_NO_NODE}
<1>1. CASE p \in Slots /\ pxm2node[p].node = NUMA_NO_NODE
    BY <1>1 DEF FreeSlot, NUMA_NO_NODE
<1>2. CASE ~(p \in Slots /\ pxm2node[p].node = NUMA_NO_NODE)
    <2>1. FreeSlot(p) = FirstSlot(F)
        BY <1>2 DEF FreeSlot
    <2>2. F # {}
        BY <2>1 DEF FirstSlot
    <2>3. F \subseteq Nat
        BY TableAssumption DEF Slots
    <2>4. FirstSlot(F) \in F
        BY <2>2, <2>3, FirstSlotIsLeast
    <2> QED
        BY <2>1, <2>4 DEF NUMA_NO_NODE
<1> QED
    BY <1>1, <1>2

\* A free slot that is not the domain's own: the own one is taken or does
\* not exist, and so are all before it.
LEMMA ForeignSlotIsFirst ==
    ASSUME MapTypeOK, NEW p, FreeSlot(p) # -1, FreeSlot(p) # p
    PROVE  /\ p \in Slots => pxm2node[p].node # 0
           /\ \A j \in Slots : j < FreeSlot(p) => pxm2node[j].node # 0
<1> DEFINE F == {i \in Slots : pxm2node[i].node = NUMA_NO_NODE}
<1>1. ~(p \in Slots /\ pxm2node[p].node = NUMA_NO_NODE)
    BY DEF FreeSlot
<1>2. FreeSlot(p) = FirstSlot(F)
    BY <1>1 DEF FreeSlot
<1>3. F # {}
    BY <1>2 DEF FirstSlot
<1>4. F \subseteq Nat
    BY TableAssumption DEF Slots
<1>5. \A j \in Slots : j < FirstSlot(F) => j \notin F
    BY <1>3, <1>4, FirstSlotIsLeast
<1> QED
    BY <1>1, <1>2, <1>5 DEF NUMA_NO_NODE

-----------------------------------------------------------------------------
(* The inductive invariant *)

\* Nodes in the table have been handed out, each to one slot.
NodesUsed == \A i \in Slots : pxm2node[i].node # 0 => pxm2node[i].node < nodes_found
NodesDistinct ==
    \A i, j \in Slots :
        pxm2node[i].node = pxm2node[j].node /\ pxm2node[i].node # 0 => i = j

\* A domain is kept in a foreign slot only if its own and all before the
\* foreign one are taken.
Placed ==
    \A i \in Slots : (pxm2node[i].node # 0 /\ pxm2node[i].pxm # i) =>
        /\ pxm2node[i].pxm \in Slots => pxm2node[pxm2node[i].pxm].node # 0
        /\ \A j \in Slots : j < i => pxm2node[j].node # 0

MapInv == MapTypeOK /\ NodesUsed /\ NodesDistinct /\ Placed

\* It holds when the table is empty.
LEMMA MapInvInit == MapInit => MapInv
BY MaxNumnodesAssumption, MaxFoundAssumption
    DEF MapInit, MapInv, MapTypeOK, NodesUsed, NodesDistinct, Placed, NUMA_NO_NODE

\* What a step of HotAdd does, seen from the table.
LEMMA HotAddTakes ==
    ASSUME MapInv, NEW p \in Domains, setup_node(p),
           ~UNCHANGED <<pxm2node, nodes_found>>
    PROVE  /\ FreeSlot(p) \in Slots
           /\ pxm2node[FreeSlot(p)].node = 0
           /\ FreeSlot(p) # -1
           /\ TakeNode(FreeSlot(p), p)
<1>1. FreeSlot(p) # -1 /\ TakeNode(FreeSlot(p), p)
    BY DEF setup_node
<1> QED
    BY <1>1, FreeSlotIsFree DEF MapInv

\* A hot-added domain and a bad table keep it.
LEMMA MapInvNext == MapInv /\ [MapNext]_mapVars => MapInv'
<1> SUFFICES ASSUME MapInv, [MapNext]_mapVars PROVE MapInv'
    OBVIOUS
<1> USE DEF MapInv
<1>1. CASE UNCHANGED mapVars
    BY <1>1 DEF mapVars, MapTypeOK, NodesUsed, NodesDistinct, Placed
<1>2. ASSUME NEW p \in Domains, setup_node(p) PROVE MapInv'
    <2>1. CASE UNCHANGED <<pxm2node, nodes_found>>
        BY <1>2, <2>1 DEF setup_node, MapTypeOK, NodesUsed, NodesDistinct, Placed
    <2>2. CASE ~UNCHANGED <<pxm2node, nodes_found>>
        <3> DEFINE k == FreeSlot(p)
        <3>1. k \in Slots /\ pxm2node[k].node = 0 /\ k # -1 /\ TakeNode(k, p)
            BY <1>2, <2>2, HotAddTakes
        <3>2. /\ nodes_found < MaxFound /\ acpi_numa' = acpi_numa
              /\ nodes_found' = nodes_found + 1
              /\ nodes_found \in Nat /\ MAX_NUMNODES \in Nat /\ MaxFound \in Nat
            BY <1>2, <3>1, MaxNumnodesAssumption, MaxFoundAssumption
                DEF setup_node, TakeNode, MapTypeOK
        <3>3. CASE nodes_found >= MAX_NUMNODES
            <4>1. pxm2node' = pxm2node
                BY <3>1, <3>3 DEF TakeNode
            <4> QED
                BY <3>2, <4>1 DEF MapTypeOK, NodesUsed, NodesDistinct, Placed
        <3>4. CASE nodes_found < MAX_NUMNODES
            <4>1. pxm2node' = [pxm2node EXCEPT ![k] =
                                    [pxm |-> p, node |-> nodes_found]]
                BY <3>1, <3>2, <3>4 DEF TakeNode
            <4> HIDE DEF k
            <4>2. /\ pxm2node'[k] = [pxm |-> p, node |-> nodes_found]
                  /\ \A j \in Slots : j # k => pxm2node'[j] = pxm2node[j]
                BY <3>1, <4>1 DEF MapTypeOK
            <4>3. MapTypeOK'
                BY <3>1, <3>2, <3>4, <4>1 DEF MapTypeOK
            <4>4. NodesUsed'
                BY <3>1, <3>2, <4>2 DEF NodesUsed, MapTypeOK
            <4>5. NodesDistinct'
                BY <3>1, <3>2, <4>2 DEF NodesUsed, NodesDistinct, MapTypeOK
            <4>6. \A j \in Slots : pxm2node[j].node # 0 =>
                        j # k /\ pxm2node'[j] = pxm2node[j]
                BY <3>1, <4>2
            <4>7. Placed'
                <5> SUFFICES ASSUME NEW i \in Slots,
                                    pxm2node'[i].node # 0, pxm2node'[i].pxm # i
                             PROVE  /\ pxm2node'[i].pxm \in Slots =>
                                            pxm2node'[pxm2node'[i].pxm].node # 0
                                    /\ \A j \in Slots : j < i => pxm2node'[j].node # 0
                    BY DEF Placed
                <5>1. CASE i = k
                    <6>1. /\ p \in Slots => pxm2node[p].node # 0
                          /\ \A j \in Slots : j < k => pxm2node[j].node # 0
                        BY <3>1, <4>2, <5>1, ForeignSlotIsFirst DEF k
                    <6> QED
                        BY <4>2, <4>6, <5>1, <6>1
                <5>2. CASE i # k
                    BY <4>2, <4>6, <5>2 DEF Placed
                <5> QED
                    BY <5>1, <5>2
            <4> QED
                BY <4>3, <4>4, <4>5, <4>7
        <3> QED
            BY <3>2, <3>3, <3>4
    <2> QED
        BY <2>1, <2>2
<1>3. CASE affinity_init
    BY <1>3, MaxNumnodesAssumption
        DEF affinity_init, bad_srat, NUMA_NO_NODE,
            MapTypeOK, NodesUsed, NodesDistinct, Placed
<1> QED
    BY <1>1, <1>2, <1>3 DEF MapNext, HotAdd

\* Distinct nodes lead back to their slots.
LEMMA DistinctRoundTrip == MapInv => RoundTrip
<1> SUFFICES ASSUME MapInv, NEW i \in Slots, pxm2node[i].node # NUMA_NO_NODE
             PROVE  node_to_pxm(pxm2node[i].node) = pxm2node[i].pxm
    BY DEF RoundTrip
<1> DEFINE n == pxm2node[i].node
           S == {j \in Slots : pxm2node[j].node = n}
<1>1. \A j \in Slots : pxm2node[j].node = n => j = i
    BY DEF MapInv, NodesDistinct, NUMA_NO_NODE
<1>2. S = {i}
    BY <1>1
<1>3. FirstSlot(S) = i /\ i # -1
    <2>1. S \subseteq Nat /\ S # {}
        BY <1>2, TableAssumption DEF Slots
    <2>2. FirstSlot(S) \in S
        BY <2>1, FirstSlotIsLeast
    <2> QED
        BY <1>2, <2>2, TableAssumption DEF Slots
<1> QED
    BY <1>1, <1>3 DEF node_to_pxm

\* setup_node, bad_srat and the lookups: whatever domains are added, and
\* whether or not the SRAT is rejected in between, a node leads back to
\* the domain it was given to.
THEOREM NodesLeadBack == MapSpec => [](MapTypeOK /\ RoundTrip)
<1>1. MapInv => MapTypeOK /\ RoundTrip
    BY DistinctRoundTrip DEF MapInv
<1> QED
    BY <1>1, MapInvInit, MapInvNext, PTL DEF MapSpec

\* A hot-added domain does not change what is looked up for any domain.
LEMMA HotAddKeepsLookups ==
    ASSUME MapInv, NEW q \in Domains, setup_node(q),
           NEW p \in Domains, pxm_to_node(p) # NUMA_NO_NODE
    PROVE  pxm_to_node(p)' = pxm_to_node(p)
<1> DEFINE S == {j \in Slots : node_found(j, p)}
           T == {j \in Slots : node_found(j, p)'}
<1>1. CASE UNCHANGED <<pxm2node, nodes_found>>
    BY <1>1 DEF pxm_to_node, node_found
<1>2. CASE ~UNCHANGED <<pxm2node, nodes_found>>
    <2> DEFINE k == FreeSlot(q)
    <2>1. k \in Slots /\ pxm2node[k].node = 0 /\ k # -1 /\ TakeNode(k, q)
        BY <1>2, HotAddTakes
    <2>2. \A j \in Slots : pxm2node[j].node # 0 => pxm2node'[j] = pxm2node[j]
        BY <2>1 DEF TakeNode, MapInv, MapTypeOK
    <2>3. \A j \in Slots : j # k => pxm2node'[j] = pxm2node[j]
        BY <2>1 DEF TakeNode, MapInv, MapTypeOK
    <2> HIDE DEF k
    <2>4. CASE p \in Slots /\ node_found(p, p)
        BY <2>2, <2>4 DEF pxm_to_node, node_found, NUMA_NO_NODE
    <2>5. CASE ~(p \in Slots /\ node_found(p, p))
        <3> DEFINE i == FirstSlot(S)
        <3>1. i # -1 /\ pxm_to_node(p) = pxm2node[i].node
            BY <2>5 DEF pxm_to_node
        <3>2. S # {} /\ S \subseteq Nat /\ T \subseteq Nat
            BY <3>1, TableAssumption DEF FirstSlot, Slots
        <3>3. i \in S /\ \A j \in S : i <= j
            BY <3>2, FirstSlotIsLeast
        <3> HIDE DEF i
        <3>4. i \in Slots /\ pxm2node[i].pxm = p /\ pxm2node[i].node # 0 /\ i # p
            BY <2>5, <3>3 DEF node_found, NUMA_NO_NODE
        <3>5. /\ p \in Slots => pxm2node[p].node # 0
              /\ \A j \in Slots : j < i => pxm2node[j].node # 0
            BY <3>4 DEF MapInv, Placed
        <3>6. i \in T /\ pxm2node'[i] = pxm2node[i]
            BY <2>2, <3>4 DEF node_found, NUMA_NO_NODE
        <3>7. ~(p \in Slots /\ node_found(p, p)')
            BY <2>2, <2>5, <3>5 DEF node_found
        <3>8. \A j \in T : i <= j
            <4> SUFFICES ASSUME NEW j \in T, j < i PROVE FALSE
                BY <3>2, <3>3
            <4>1. pxm2node[j].node # 0 /\ pxm2node'[j] = pxm2node[j]
                BY <2>2, <3>5
            <4>2. j \in S
                BY <4>1 DEF node_found
            <4> QED
                BY <3>2, <3>3, <4>2
        <3>9. FirstSlot(T) = i
            <4>1. FirstSlot(T) \in T /\ FirstSlot(T) <= i
                BY <3>2, <3>6, FirstSlotIsLeast
            <4> QED
                BY <3>2, <3>6, <3>8, <4>1
        <3> QED
            BY <3>1, <3>6, <3>7, <3>9 DEF pxm_to_node
    <2> QED
        BY <2>4, <2>5
<1> QED
    BY <1>1, <1>2

\* setup_node: until the SRAT is rejected, a domain keeps the node
\* pxm_to_node reports for it, although setup_node may give it more.
THEOREM LookupsStable == MapSpec => LookupStable
<1> DEFINE Stable ==
        acpi_numa' = acpi_numa =>
            \A p \in Domains : pxm_to_node(p) # NUMA_NO_NODE =>
                pxm_to_node(p)' = pxm_to_node(p)
<1>1. MapInv /\ [MapNext]_mapVars => [Stable]_mapVars
    <2> SUFFICES ASSUME MapInv, MapNext PROVE Stable
        OBVIOUS
    <2>1. CASE HotAdd
        BY <2>1, HotAddKeepsLookups DEF HotAdd
    <2>2. CASE affinity_init
        BY <2>2 DEF affinity_init, bad_srat, srat_disabled
    <2> QED
        BY <2>1, <2>2 DEF MapNext
<1> QED
    BY <1>1, MapInvInit, MapInvNext, PTL DEF MapSpec, LookupStable

-----------------------------------------------------------------------------
(***************************************************************************)
(* Ranges: nodes_cover_memory, cutoff_node and conflicting_memblks compute *)
(* what they should, for tables of any length and any memory map.          *)
(***************************************************************************)

\* An address of some range of the table.
Within(a, r) == r.start <= a /\ a < r.end
Covered(a) == \E i \in DOMAIN ranges : Within(a, ranges[i])

\* The node would trim what is left.
Trims(nd) ==
    /\ cover.start < nd.end /\ cover.end > nd.start
    /\ cover.start >= nd.start \/ cover.end <= nd.end

Looping == cover.pc \in {"pass", "node"}

Calls ==
    [pc : {"idle", "entry", "pass", "node", "returned"}, lo : Int, hi : Int,
     start : Int, end : Int, found : BOOLEAN, j : Nat \ {0}, bound : Nat,
     ret : {0, 1}, ram : SUBSET Int, full : BOOLEAN]

RangesTypeOK == ranges \in Seq(Ranges) /\ cover \in Calls

\* What is no longer left of an entry is covered, and only that is missing.
LeftOver ==
    Looping =>
        /\ cover.lo <= cover.start /\ cover.end <= cover.hi
        /\ \A a \in Int :
            cover.lo <= a /\ a < cover.hi /\ ~(cover.start <= a /\ a < cover.end)
                => Covered(a)

\* The entries before the present one are covered; the present one counts.
RamSoFar ==
    /\ cover.pc = "idle" => cover.ram = {}
    /\ cover.pc = "entry" => \A a \in cover.ram : Covered(a)
    /\ Looping =>
        /\ \A a \in cover.ram : Covered(a) \/ (cover.lo <= a /\ a < cover.hi)
        /\ \A a \in Int : cover.lo <= a /\ a < cover.hi => a \in cover.ram

\* The nodes a pass has gone through without finding anything trim nothing.
PassSoFar ==
    cover.pc = "node" =>
        /\ cover.bound <= Len(ranges) /\ cover.j <= cover.bound + 1
        /\ cover.full => cover.bound = Len(ranges)
        /\ ~cover.found => \A k \in 1..(cover.j - 1) : ~Trims(ranges[k])

\* What has been returned is right.
Answered ==
    cover.pc = "returned" =>
        /\ cover.ret = 1 => \A a \in cover.ram : Covered(a)
        /\ cover.ret = 0 /\ cover.full => \E a \in cover.ram : ~Covered(a)

RangesInv == RangesTypeOK /\ LeftOver /\ RamSoFar /\ PassSoFar /\ Answered

-----------------------------------------------------------------------------
\* The ends of a range, and of each range of a table, are addresses in order.
LEMMA RangeFields ==
    ASSUME NEW r \in Ranges
    PROVE  r.start \in Int /\ r.end \in Int /\ r.start <= r.end
           /\ 0 <= r.start /\ r.end <= MaxAddress
BY MaxAddressAssumption DEF Ranges

\* Sets of addresses and comparisons of ends say the same.
LEMMA BytesWithin ==
    ASSUME NEW r \in Ranges, NEW a
    PROVE  a \in Bytes(r) <=> a \in Int /\ Within(a, r)
BY RangeFields DEF Bytes, Within

\* The addresses of a table are those some range of it holds.
LEMMA AllBytesCovered ==
    ASSUME ranges \in Seq(Ranges), NEW a \in Int
    PROVE  a \in AllBytes(ranges) <=> Covered(a)
<1>1. \A i \in DOMAIN ranges : ranges[i] \in Ranges
    OBVIOUS
<1> QED
    BY <1>1, BytesWithin DEF AllBytes, Covered

-----------------------------------------------------------------------------
(* The loop of nodes_cover_memory *)

\* The invariant holds before the call.
LEMMA RangesInitInv == RangesInit => RangesInv
<1> SUFFICES ASSUME RangesInit PROVE RangesInv
    OBVIOUS
<1>1. RangesTypeOK
    BY DEF RangesInit, RangesTypeOK, NotCalled, Calls
<1>2. cover.pc = "idle" /\ cover.ram = {}
    BY DEF RangesInit, NotCalled
<1> QED
    BY <1>1, <1>2 DEF RangesInv, LeftOver, RamSoFar, PassSoFar, Answered, Looping

\* A range enters the table before the call.
LEMMA AddRangeInv ==
    ASSUME RangesInv, AddRange
    PROVE  RangesInv'
<1>1. cover.pc = "idle" /\ cover' = cover /\ ranges' \in Seq(Ranges)
    BY DEF AddRange, RangesInv, RangesTypeOK
<1> QED
    BY <1>1 DEF RangesInv, RangesTypeOK, LeftOver, RamSoFar, PassSoFar, Answered, Looping

\* A new entry is left whole.
LEMMA NextEntryInv ==
    ASSUME RangesInv, NextEntry
    PROVE  RangesInv'
<1>1. PICK r \in Ranges :
        cover' = [cover EXCEPT !.pc = "pass", !.lo = r.start, !.hi = r.end,
                               !.start = r.start, !.end = r.end,
                               !.ram = cover.ram \cup Bytes(r)]
    BY DEF NextEntry
<1>2. ranges' = ranges /\ cover.pc \in {"idle", "entry"} /\ RangesTypeOK
    BY DEF NextEntry, RangesInv
<1>3. r.start \in Int /\ r.end \in Int /\ Bytes(r) \subseteq Int
    BY RangeFields DEF Bytes
<1>4. /\ cover' \in Calls
      /\ cover'.pc = "pass" /\ cover'.lo = r.start /\ cover'.hi = r.end
      /\ cover'.start = r.start /\ cover'.end = r.end
      /\ cover'.ram = cover.ram \cup Bytes(r)
    BY <1>1, <1>2, <1>3 DEF RangesTypeOK, Calls
<1>5. \A a \in cover.ram : Covered(a)
    BY <1>2 DEF RangesInv, RamSoFar
<1>6. LeftOver'
    <2>1. cover'.lo <= cover'.start /\ cover'.end <= cover'.hi
        BY <1>3, <1>4
    <2>2. \A a : cover'.lo <= a /\ a < cover'.hi => cover'.start <= a /\ a < cover'.end
        BY <1>4
    <2> QED
        BY <2>1, <2>2 DEF LeftOver, Covered
<1>7. RamSoFar'
    BY <1>2, <1>3, <1>4, <1>5, BytesWithin DEF RamSoFar, Covered, Within
<1> QED
    BY <1>2, <1>4, <1>6, <1>7 DEF RangesInv, RangesTypeOK, PassSoFar, Answered

\* A pass begins with nothing found.
LEMMA BeginPassInv ==
    ASSUME RangesInv, BeginPass
    PROVE  RangesInv'
<1>1. PICK n \in 0..Len(ranges) :
        cover' = [cover EXCEPT !.pc = "node", !.found = FALSE, !.j = 1, !.bound = n,
                               !.full = cover.full /\ n = Len(ranges)]
    BY DEF BeginPass
<1>2. ranges' = ranges /\ cover.pc = "pass" /\ RangesTypeOK /\ Len(ranges) \in Nat
    BY DEF BeginPass, RangesInv, RangesTypeOK
<1> DEFINE full == cover.full /\ n = Len(ranges)
<1>3. /\ cover' \in Calls
      /\ cover'.pc = "node" /\ cover'.lo = cover.lo /\ cover'.hi = cover.hi
      /\ cover'.start = cover.start /\ cover'.end = cover.end
      /\ cover'.ram = cover.ram /\ cover'.j = 1 /\ cover'.bound = n
      /\ cover'.full = full
    <2> DEFINE found == FALSE
    <2>1. full \in BOOLEAN /\ found \in BOOLEAN /\ n \in Nat /\ 1 \in Nat \ {0}
        BY <1>2
    <2>2. cover' = [cover EXCEPT !.pc = "node", !.found = found, !.j = 1, !.bound = n,
                                 !.full = full]
        BY <1>1
    <2> HIDE DEF full, found
    <2> QED
        BY <1>2, <2>1, <2>2 DEF RangesTypeOK, Calls
<1>4. LeftOver'
    BY <1>2, <1>3 DEF RangesInv, LeftOver, Looping, Covered
<1>5. RamSoFar'
    BY <1>2, <1>3 DEF RangesInv, RamSoFar, Looping, Covered
<1>6. PassSoFar'
    <2>1. cover'.full => n = Len(ranges)
        BY <1>3
    <2>2. n <= Len(ranges) /\ 1 <= n + 1
        BY <1>2
    <2> QED
        BY <1>2, <1>3, <2>1, <2>2 DEF PassSoFar
<1> QED
    BY <1>2, <1>3, <1>4, <1>5, <1>6 DEF RangesInv, RangesTypeOK, Answered

\* A node trims only addresses it covers; what it does not trim, it could not.
LEMMA TrimNodeInv ==
    ASSUME RangesInv, TrimNode
    PROVE  RangesInv'
<1> DEFINE nd == ranges[cover.j]
           meets == cover.start < nd.end /\ cover.end > nd.start
           low == meets /\ cover.start >= nd.start
           high == meets /\ cover.end <= nd.end
           start == IF low THEN nd.end ELSE cover.start
           end == IF high THEN nd.start ELSE cover.end
<1>1. /\ cover.pc = "node" /\ cover.j <= cover.bound /\ ranges' = ranges
      /\ cover' = [cover EXCEPT !.start = start, !.end = end,
                                !.found = cover.found \/ low \/ high, !.j = cover.j + 1]
    BY DEF TrimNode
<1>2. /\ RangesTypeOK /\ Len(ranges) \in Nat
      /\ cover.j \in Nat \ {0} /\ cover.bound \in Nat /\ cover.bound <= Len(ranges)
      /\ cover.start \in Int /\ cover.end \in Int /\ cover.lo \in Int /\ cover.hi \in Int
    BY <1>1 DEF RangesInv, RangesTypeOK, Calls, PassSoFar
<1>3. cover.j \in DOMAIN ranges /\ nd \in Ranges
    BY <1>1, <1>2 DEF RangesTypeOK
<1>4. nd.start \in Int /\ nd.end \in Int /\ nd.start <= nd.end
    BY <1>3, RangeFields
<1>5. start \in Int /\ end \in Int
    BY <1>2, <1>4
<1>6. /\ cover' \in Calls
      /\ cover'.pc = "node" /\ cover'.lo = cover.lo /\ cover'.hi = cover.hi
      /\ cover'.start = start /\ cover'.end = end
      /\ cover'.ram = cover.ram /\ cover'.j = cover.j + 1 /\ cover'.bound = cover.bound
      /\ cover'.full = cover.full
      /\ cover'.found = (cover.found \/ low \/ high)
    <2> DEFINE found == cover.found \/ low \/ high
    <2>1. found \in BOOLEAN
        OBVIOUS
    <2>2. cover' = [cover EXCEPT !.start = start, !.end = end, !.found = found,
                                 !.j = cover.j + 1]
        BY <1>1
    <2>3. cover.j + 1 \in Nat \ {0}
        BY <1>2
    <2> HIDE DEF start, end, found
    <2>4. /\ cover' \in Calls
          /\ cover'.pc = "node" /\ cover'.lo = cover.lo /\ cover'.hi = cover.hi
          /\ cover'.start = start /\ cover'.end = end
          /\ cover'.ram = cover.ram /\ cover'.j = cover.j + 1 /\ cover'.bound = cover.bound
          /\ cover'.full = cover.full
          /\ cover'.found = found
        BY <1>1, <1>2, <1>5, <2>1, <2>2, <2>3 DEF RangesTypeOK, Calls
    <2> QED
        BY <2>4 DEF found
<1>7. LeftOver'
    <2>1. cover.lo <= start /\ end <= cover.hi
        BY <1>1, <1>2, <1>4 DEF RangesInv, LeftOver, Looping
    <2>2. ASSUME NEW a \in Int, cover.lo <= a, a < cover.hi, ~(start <= a /\ a < end)
          PROVE  Covered(a)
        <3>1. CASE cover.start <= a /\ a < cover.end
            <4>1. Within(a, nd)
                BY <1>2, <1>4, <2>2, <3>1 DEF Within
            <4> QED
                BY <1>3, <4>1 DEF Covered
        <3>2. CASE ~(cover.start <= a /\ a < cover.end)
            BY <1>1, <2>2, <3>2 DEF RangesInv, LeftOver, Looping
        <3> QED
            BY <3>1, <3>2
    <2> HIDE DEF start, end
    <2>3. ASSUME NEW a \in Int, cover'.lo <= a, a < cover'.hi,
                 ~(cover'.start <= a /\ a < cover'.end)
          PROVE  Covered(a)'
        <3>1. Covered(a)
            BY <1>6, <2>2, <2>3
        <3> QED
            BY <1>1, <3>1 DEF Covered
    <2>4. cover'.lo <= cover'.start /\ cover'.end <= cover'.hi
        BY <1>6, <2>1
    <2> QED
        BY <2>3, <2>4 DEF LeftOver
<1>8. RamSoFar'
    BY <1>1, <1>6 DEF RangesInv, RamSoFar, Looping, Covered
<1>9. PassSoFar'
    <2>1. cover.j + 1 <= cover.bound + 1 /\ (cover.full => cover.bound = Len(ranges))
        BY <1>1, <1>2 DEF RangesInv, PassSoFar
    <2>2. ASSUME ~cover'.found, NEW k \in 1..cover.j
          PROVE  ~Trims(ranges[k])'
        <3>1. ~cover.found /\ ~low /\ ~high
            BY <1>6, <2>2
        <3>2. ~Trims(ranges[k])
            <4>1. CASE k = cover.j
                BY <3>1, <4>1 DEF Trims
            <4>2. CASE k # cover.j
                <5>1. k \in 1..(cover.j - 1)
                    BY <1>2, <4>2
                <5> QED
                    BY <1>1, <3>1, <5>1 DEF RangesInv, PassSoFar
            <4> QED
                BY <4>1, <4>2
        <3>3. cover'.start = cover.start /\ cover'.end = cover.end
            BY <1>6, <3>1
        <3> QED
            BY <1>1, <3>2, <3>3 DEF Trims
    <2>3. (cover.j + 1) - 1 = cover.j
        BY <1>2
    <2> QED
        BY <1>1, <1>2, <1>6, <2>1, <2>2, <2>3 DEF PassSoFar
<1> QED
    BY <1>1, <1>2, <1>6, <1>7, <1>8, <1>9 DEF RangesInv, RangesTypeOK, Answered

\* A pass or the call ends: nothing changes but the control point and ret.
LEMMA CoverMoved ==
    ASSUME RangesTypeOK, NEW at \in {"pass", "entry", "returned"}, NEW ret \in {0, 1},
           \/ cover' = [cover EXCEPT !.pc = at]
           \/ cover' = [cover EXCEPT !.pc = at, !.ret = ret]
    PROVE  /\ cover' \in Calls
           /\ cover'.pc = at /\ cover'.lo = cover.lo /\ cover'.hi = cover.hi
           /\ cover'.start = cover.start /\ cover'.end = cover.end
           /\ cover'.ram = cover.ram /\ cover'.full = cover.full
<1>1. cover \in Calls
    BY DEF RangesTypeOK
<1>2. CASE cover' = [cover EXCEPT !.pc = at]
    <2>1. cover' \in Calls
        BY <1>1, <1>2 DEF Calls
    <2> QED
        BY <1>1, <1>2, <2>1 DEF Calls
<1>3. CASE cover' = [cover EXCEPT !.pc = at, !.ret = ret]
    <2>1. cover' \in Calls
        BY <1>1, <1>3 DEF Calls
    <2> QED
        BY <1>1, <1>3, <2>1 DEF Calls
<1> QED
    BY <1>2, <1>3

\* A pass that trims nothing leaves only what no node covers at its ends.
LEMMA EndPassInv ==
    ASSUME RangesInv, EndPass
    PROVE  RangesInv'
<1>1. /\ cover.pc = "node" /\ cover.j > cover.bound /\ ranges' = ranges
      /\ RangesTypeOK /\ Looping
    BY DEF EndPass, RangesInv, Looping
<1>2. /\ cover.j \in Nat \ {0} /\ cover.bound \in Nat /\ Len(ranges) \in Nat
      /\ cover.start \in Int /\ cover.end \in Int /\ cover.lo \in Int /\ cover.hi \in Int
      /\ cover.ram \subseteq Int
    BY <1>1 DEF RangesTypeOK, Calls
<1>3. CASE cover' = [cover EXCEPT !.pc = "pass"]
    <2>1. /\ cover' \in Calls
          /\ cover'.pc = "pass" /\ cover'.lo = cover.lo /\ cover'.hi = cover.hi
          /\ cover'.start = cover.start /\ cover'.end = cover.end
          /\ cover'.ram = cover.ram
        BY <1>1, <1>3, CoverMoved
    <2> QED
        BY <1>1, <2>1
        DEF RangesInv, RangesTypeOK, LeftOver, RamSoFar, PassSoFar, Answered, Looping, Covered
<1>4. CASE cover.start >= cover.end /\ cover' = [cover EXCEPT !.pc = "entry"]
    <2>1. cover' \in Calls /\ cover'.pc = "entry" /\ cover'.ram = cover.ram
        BY <1>1, <1>4, CoverMoved
    <2>2. ASSUME NEW a \in cover.ram PROVE Covered(a)
        BY <1>1, <1>2, <1>4 DEF RangesInv, LeftOver, RamSoFar
    <2> QED
        BY <1>1, <2>1, <2>2
        DEF RangesInv, RangesTypeOK, LeftOver, RamSoFar, PassSoFar, Answered, Looping, Covered
<1>5. CASE /\ ~cover.found /\ cover.start < cover.end
           /\ cover' = [cover EXCEPT !.pc = "returned", !.ret = 0]
    <2>1. /\ cover' \in Calls /\ cover'.pc = "returned" /\ cover'.ram = cover.ram
          /\ cover'.full = cover.full
        BY <1>1, <1>5, CoverMoved
    <2>2. cover'.ret = 0
        BY <1>1, <1>5 DEF RangesTypeOK, Calls
    <2>3. ASSUME cover.full PROVE ~Covered(cover.start)
        <3>1. \A k \in 1..Len(ranges) : ~Trims(ranges[k])
            <4>1. cover.bound = Len(ranges) /\ cover.j = cover.bound + 1
                BY <1>1, <1>2, <2>3 DEF RangesInv, PassSoFar
            <4>2. cover.j - 1 = Len(ranges)
                BY <1>2, <4>1
            <4> QED
                BY <1>1, <1>5, <4>2 DEF RangesInv, PassSoFar
        <3>2. ASSUME NEW i \in DOMAIN ranges PROVE ~Within(cover.start, ranges[i])
            <4>1. i \in 1..Len(ranges) /\ ranges[i] \in Ranges
                BY <1>1 DEF RangesTypeOK
            <4>2. ranges[i].start \in Int /\ ranges[i].end \in Int
                BY <4>1, RangeFields
            <4> QED
                BY <1>2, <1>5, <3>1, <4>1, <4>2 DEF Trims, Within
        <3> QED
            BY <3>2 DEF Covered
    <2>4. cover.start \in cover.ram
        BY <1>1, <1>2, <1>5 DEF RangesInv, LeftOver, RamSoFar
    <2>5. Answered'
        BY <1>1, <2>1, <2>2, <2>3, <2>4 DEF Answered, Covered
    <2> QED
        BY <1>1, <2>1, <2>5
        DEF RangesInv, RangesTypeOK, LeftOver, RamSoFar, PassSoFar, Looping
<1> QED
    BY <1>3, <1>4, <1>5 DEF EndPass

\* At the end of the memory map every entry has been covered.
LEMMA ReturnCoveredInv ==
    ASSUME RangesInv, ReturnCovered
    PROVE  RangesInv'
<1>1. /\ cover.pc \in {"idle", "entry"} /\ ranges' = ranges /\ RangesTypeOK
      /\ cover' = [cover EXCEPT !.pc = "returned", !.ret = 1]
    BY DEF ReturnCovered, RangesInv
<1>2. cover' \in Calls /\ cover'.pc = "returned" /\ cover'.ram = cover.ram
    BY <1>1, CoverMoved
<1>3. cover'.ret = 1
    BY <1>1 DEF RangesTypeOK, Calls
<1>4. \A a \in cover.ram : Covered(a)
    BY <1>1 DEF RangesInv, RamSoFar
<1> QED
    BY <1>1, <1>2, <1>3, <1>4
    DEF RangesInv, RangesTypeOK, LeftOver, RamSoFar, PassSoFar, Answered, Looping, Covered

\* Every step of nodes_cover_memory keeps the invariant.
LEMMA RangesNextInv == RangesInv /\ [RangesNext]_rangesVars => RangesInv'
<1> SUFFICES ASSUME RangesInv, [RangesNext]_rangesVars PROVE RangesInv'
    OBVIOUS
<1>1. CASE UNCHANGED rangesVars
    BY <1>1 DEF rangesVars, RangesInv, RangesTypeOK, LeftOver, RamSoFar, PassSoFar,
                Answered, Looping, Covered, Trims
<1> QED
    BY <1>1, AddRangeInv, NextEntryInv, BeginPassInv, TrimNodeInv, EndPassInv,
       ReturnCoveredInv
    DEF RangesNext

\* What nodes_cover_memory returns.
LEMMA CoverRight == RangesInv => CoverAgrees
<1> SUFFICES ASSUME RangesInv, cover.pc = "returned"
             PROVE  /\ cover.ret = 1 => cover.ram \subseteq AllBytes(ranges)
                    /\ cover.ret = 0 /\ cover.full => ~(cover.ram \subseteq AllBytes(ranges))
    BY DEF CoverAgrees
<1>1. \A a \in cover.ram : a \in AllBytes(ranges) <=> Covered(a)
    BY AllBytesCovered DEF RangesInv, RangesTypeOK, Calls
<1> QED
    BY <1>1 DEF RangesInv, Answered

-----------------------------------------------------------------------------
(* The functions on ranges *)

\* cutoff_node intersects.
LEMMA CutRight == RangesInv => CutAgrees
<1> SUFFICES ASSUME RangesInv, NEW i \in DOMAIN ranges, NEW r \in Ranges
             PROVE  LET cut == cutoff_node(ranges[i], r.start, r.end)
                    IN  cut \in Ranges /\ Bytes(cut) = Bytes(ranges[i]) \cap Bytes(r)
    BY DEF CutAgrees
<1> DEFINE nd == ranges[i]
           low == CutStart(nd, r.start)
           cut == cutoff_node(nd, r.start, r.end)
<1>1. nd \in Ranges
    BY DEF RangesInv, RangesTypeOK
<1>2. /\ nd.start \in Int /\ nd.end \in Int /\ nd.start <= nd.end
      /\ 0 <= nd.start /\ nd.end <= MaxAddress
      /\ r.start \in Int /\ r.end \in Int /\ r.start <= r.end
      /\ 0 <= r.start /\ r.end <= MaxAddress
    BY <1>1, RangeFields
<1>3. /\ low \in Ranges /\ low.end = nd.end
      /\ low.start = IF nd.start >= r.start THEN nd.start
                     ELSE IF nd.end < r.start THEN nd.end ELSE r.start
    BY <1>1, <1>2, MaxAddressAssumption DEF CutStart, Ranges
<1>4. low.start \in Int /\ low.end \in Int /\ low.start <= low.end /\ 0 <= low.start
    BY <1>3, RangeFields
<1> HIDE DEF low, nd
<1>5. /\ cut \in Ranges
      /\ cut.end = IF low.end <= r.end THEN low.end ELSE r.end
      /\ cut.start = IF low.end <= r.end THEN low.start
                     ELSE IF low.start > r.end THEN r.end ELSE low.start
    <2>1. cut = CutEnd(low, r.end)
        BY DEF cutoff_node, low
    <2> HIDE DEF cut
    <2> QED
        BY <1>2, <1>3, <1>4, <2>1, MaxAddressAssumption DEF CutEnd, Ranges
<1> HIDE DEF cut
<1>6. ASSUME NEW a PROVE a \in Bytes(cut) <=> a \in Bytes(nd) /\ a \in Bytes(r)
    <2>1. a \in Int => (Within(a, cut) <=> Within(a, nd) /\ Within(a, r))
        BY <1>2, <1>3, <1>4, <1>5 DEF Within
    <2> QED
        BY <1>1, <1>5, <2>1, BytesWithin
<1> QED
    BY <1>5, <1>6 DEF cut, nd

\* conflicting_memblks finds the first overlap.
LEMMA ConflictRight == RangesInv => ConflictAgrees
<1> SUFFICES ASSUME RangesInv, NEW r \in Ranges, r.start < r.end
             PROVE  LET shared == {i \in DOMAIN ranges : Bytes(ranges[i]) \cap Bytes(r) # {}}
                        nodeid == [i \in DOMAIN ranges |-> i]
                        first == conflicting_memblks(ranges, r)
                    IN  /\ IF shared = {} THEN first = 0
                           ELSE first \in shared /\ \A i \in shared : first <= i
                        /\ (\E i \in DOMAIN ranges : valid_numa_range(ranges, nodeid, r, i))
                                => first # 0
    BY DEF ConflictAgrees
<1> DEFINE shared == {i \in DOMAIN ranges : Bytes(ranges[i]) \cap Bytes(r) # {}}
           hits == {i \in DOMAIN ranges :
                      /\ ranges[i].start # ranges[i].end
                      /\ \/ ranges[i].end > r.start /\ ranges[i].start < r.end
                         \/ ranges[i].end = r.end /\ ranges[i].start = r.start}
           first == conflicting_memblks(ranges, r)
<1>1. r.start \in Int /\ r.end \in Int
    BY RangeFields
<1>2. ASSUME NEW i \in DOMAIN ranges PROVE i \in shared <=> i \in hits
    <2> DEFINE nd == ranges[i]
    <2>1. nd \in Ranges
        BY DEF RangesInv, RangesTypeOK
    <2>2. nd.start \in Int /\ nd.end \in Int /\ nd.start <= nd.end
        BY <2>1, RangeFields
    <2>3. ASSUME i \in shared PROVE i \in hits
        <3>1. PICK a \in Bytes(nd) : a \in Bytes(r)
            BY <2>3
        <3>2. a \in Int /\ Within(a, nd) /\ Within(a, r)
            BY <2>1, <3>1, BytesWithin
        <3> QED
            BY <1>1, <2>2, <3>2 DEF Within
    <2>4. ASSUME i \in hits PROVE i \in shared
        <3> DEFINE a == IF nd.start >= r.start THEN nd.start ELSE r.start
        <3>1. a \in Int /\ Within(a, nd) /\ Within(a, r)
            BY <1>1, <2>2, <2>4 DEF Within
        <3> HIDE DEF a
        <3>2. a \in Bytes(nd) /\ a \in Bytes(r)
            BY <2>1, <3>1, BytesWithin
        <3> QED
            BY <3>2
    <2> QED
        BY <2>3, <2>4
<1>3. shared = hits
    BY <1>2
<1>4. first = IF hits = {} THEN 0 ELSE CHOOSE i \in hits : \A j \in hits : i <= j
    BY DEF conflicting_memblks
<1>5. shared \subseteq Nat \ {0}
    BY DEF RangesInv, RangesTypeOK
<1>6. (\E i \in DOMAIN ranges : valid_numa_range(ranges, [k \in DOMAIN ranges |-> k], r, i))
            => shared # {}
    <2> SUFFICES ASSUME NEW i \in DOMAIN ranges, ranges[i].start <= r.start,
                        ranges[i].end >= r.end
                 PROVE  shared # {}
        BY DEF valid_numa_range
    <2>1. ranges[i] \in Ranges
        BY DEF RangesInv, RangesTypeOK
    <2>2. ranges[i].start \in Int /\ ranges[i].end \in Int
        BY <2>1, RangeFields
    <2>3. i \in hits
        BY <1>1, <2>2
    <2> QED
        BY <1>3, <2>3
<1> HIDE DEF hits, shared, first
<1>7. IF shared = {} THEN first = 0
      ELSE first \in shared /\ \A i \in shared : first <= i
    <2>1. CASE shared = {}
        BY <1>3, <1>4, <2>1
    <2>2. CASE shared # {}
        <3>1. \E i \in shared : \A j \in shared : i <= j
            BY <1>5, <2>2, FirstPosition
        <3> QED
            BY <1>3, <1>4, <2>2, <3>1
    <2> QED
        BY <2>1, <2>2
<1>8. shared # {} => first # 0
    BY <1>5, <1>7
<1> QED
    BY <1>6, <1>7, <1>8 DEF shared, first

\* The functions on ranges mean what they should, for tables and addresses
\* without bound (conflicting_memblks, cutoff_node, nodes_cover_memory).
THEOREM RangesRight == RangesSpec => []RangesAgree
<1>1. RangesInv => RangesAgree
    BY CoverRight, CutRight, ConflictRight DEF RangesAgree
<1> QED
    BY <1>1, RangesInitInv, RangesNextInv, PTL DEF RangesSpec
=============================================================================
