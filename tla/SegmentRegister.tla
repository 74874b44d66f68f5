-------------------------- MODULE SegmentRegister --------------------------
(***************************************************************************)
(* The segment registers of an event (src/vm_event_verified.c, the last    *)
(* two functions).  What the hardware keeps of a segment is put right,     *)
(* then packed for the monitor: a limit of 32 bits into 20 bits and the    *)
(* granularity flag.                                                       *)
(***************************************************************************)
EXTENDS Integers

CONSTANTS Limits      \* limits of segments, those at the edges

\* limit is a uint32_t.
ASSUME LimitsAssumption == \A l \in Limits : l \in Nat /\ l \div 2^20 < 2^12

VARIABLE seg      \* the register fetched last: name, as in hardware, fetched, packed

UserSegments == {"es", "cs", "ss", "ds", "fs", "gs"}
Segments == UserSegments \cup {"tr", "ldtr", "gdtr", "idtr"}

\* The flags of attr the functions look at; the others are passed on.
Attributes == {"type0", "type1", "s", "p", "db", "g"}

\* A base is two halves of 32 bits.
Bases == [high : {0, 1}, low : {0, 1}]
HwRegisters == [attr : SUBSET Attributes, limit : Limits, base : Bases]

is_x86_user_segment(name) == name \in UserSegments

\* The switch; tr falls through to cs.
Fixed(name, attr) ==
    CASE name = "ss" -> IF "p" \in attr THEN attr ELSE attr \ {"db"}
      [] name = "tr" -> attr \cup {"type1", "p"}
      [] name = "cs" -> attr \cup {"p"}
      [] name \in {"gdtr", "idtr"} -> {"p"}
      [] OTHER -> attr

\* Mutant: the granularity the hardware reports is believed.
GranularityKept(attr, limit) == attr

\* G is calculated again.
Granularity(attr, limit) ==
    IF limit \div 2^20 # 0 THEN attr \cup {"g"} ELSE attr \ {"g"}

\* For segments that are present.
Cooked(name, attr, limit) ==
    LET sized == Granularity(attr, limit)
    IN  IF is_x86_user_segment(name) THEN sized \cup {"s", "type0"} ELSE sized \ {"s"}

hvm_get_segment_register(name, hw) ==
    LET fixed == Fixed(name, hw.attr)
    IN  [hw EXCEPT !.attr =
            IF "p" \in fixed THEN Cooked(name, fixed, hw.limit) ELSE fixed]

\* What the event says of a user segment: a limit of 20 bits, and a base of
\* 64 bits for fs and gs only.
vm_event_pack_segment_register(name, reg) ==
    [base |-> [high |-> IF name \in {"fs", "gs"} THEN reg.base.high ELSE 0,
               low |-> reg.base.low],
     limit |-> (IF "g" \in reg.attr THEN reg.limit \div 2^12 ELSE reg.limit) % 2^20,
     ar |-> reg.attr]

NoSegment == [name |-> "none"]

SegInit == seg = NoSegment

\* An event carries the registers of its vCPU; others ask for a system
\* segment.
Fetch(name, hw) ==
    LET reg == hvm_get_segment_register(name, hw)
    IN  /\ seg = NoSegment
        /\ seg' = [name |-> name, hw |-> hw, reg |-> reg,
                    packed |-> IF is_x86_user_segment(name)
                               THEN vm_event_pack_segment_register(name, reg)
                               ELSE NoSegment]

\* The event is sent, or the segment has been used.
Consume == seg # NoSegment /\ seg' = NoSegment

SegNext == Consume \/ \E name \in Segments, hw \in HwRegisters : Fetch(name, hw)

SegSpec == SegInit /\ [][SegNext]_seg

-----------------------------------------------------------------------------
(* Properties *)

\* The limit a monitor reads from a packed segment.
Unpacked(packed) ==
    IF "g" \in packed.ar THEN packed.limit * 2^12 + (2^12 - 1) ELSE packed.limit

\* Limits a descriptor can express.
Expressible(limit) == limit < 2^20 \/ limit % 2^12 = 2^12 - 1

\* A monitor that reads limit and granularity gets the limit the segment
\* has, whatever the hardware said of its granularity; the base reaches
\* it where bases have 64 bits; and segments that are present can be told
\* apart as user and system segments (lines 568-592 and 610-652).
SegmentPacked ==
    seg # NoSegment =>
        /\ seg.name \in {"cs", "tr", "gdtr", "idtr"} => "p" \in seg.reg.attr
        /\ "p" \in seg.reg.attr => ("s" \in seg.reg.attr <=> seg.name \in UserSegments)
        /\ seg.packed # NoSegment =>
            /\ "p" \in seg.packed.ar /\ Expressible(seg.hw.limit) =>
                    Unpacked(seg.packed) = seg.hw.limit
            /\ (seg.hw.base.high = 0 \/ seg.name \in {"fs", "gs"}) =>
                    seg.packed.base = seg.hw.base
=============================================================================
