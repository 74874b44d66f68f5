----------------------------- MODULE NumaRanges -----------------------------
(***************************************************************************)
(* The functions of src/srat_verified.c on ranges of memory: what overlaps *)
(* what and cutting nodes down to the memory there is, as operators, and   *)
(* whether the nodes cover all RAM, step by step.  A range holds the       *)
(* addresses from start up to but not including end.                       *)
(***************************************************************************)
EXTENDS Integers, Sequences

CONSTANTS
    MaxAddress,    \* the highest end of a range
    MaxRanges      \* the most nodes or memory blocks in a table

ASSUME MaxAddressAssumption == MaxAddress \in Nat
ASSUME MaxRangesAssumption == MaxRanges \in Nat

VARIABLES
    ranges,    \* the ranges of the nodes, or of the memory blocks
    cover      \* the call of nodes_cover_memory, see NotCalled

rangesVars == <<ranges, cover>>

\* struct node, with its invariant.
Ranges == {r \in [start : 0..MaxAddress, end : 0..MaxAddress] : r.start <= r.end}

-----------------------------------------------------------------------------
(* Memory blocks: sequences of ranges, and the node of each. *)

valid_numa_range(blocks, nodeid, r, node) ==
    \E i \in DOMAIN blocks :
        /\ blocks[i].start <= r.start
        /\ blocks[i].end >= r.end
        /\ nodeid[i] = node

\* The first block that conflicts, 0 for the -1 of the code.
conflicting_memblks(blocks, r) ==
    LET hits == {i \in DOMAIN blocks :
                    /\ blocks[i].start # blocks[i].end
                    /\ \/ blocks[i].end > r.start /\ blocks[i].start < r.end
                       \/ blocks[i].end = r.end /\ blocks[i].start = r.start}
    IN  IF hits = {} THEN 0 ELSE CHOOSE i \in hits : \A j \in hits : i <= j

-----------------------------------------------------------------------------
(* Nodes *)

\* The two tests of cutoff_node, in order; a node that lies outside becomes
\* empty.
CutStart(nd, start) ==
    IF nd.start >= start THEN nd
    ELSE [nd EXCEPT !.start = IF nd.end < start THEN nd.end ELSE start]

CutEnd(nd, end) ==
    IF nd.end <= end THEN nd
    ELSE [start |-> IF nd.start > end THEN end ELSE nd.start, end |-> end]

cutoff_node(nd, start, end) == CutEnd(CutStart(nd, start), end)

-----------------------------------------------------------------------------
(* The caller's table: any ranges, in any order. *)

\* A call of nodes_cover_memory: its control point, the entry of the memory
\* map it is at (lo, hi) and what is left of it, found, j, the bound of the
\* inner loop and the value returned.  History: the RAM of the entries so far
\* (ram), and whether every pass went through the whole table (full).
NotCalled == [pc |-> "idle", lo |-> 0, hi |-> 0, start |-> 0, end |-> 0, found |-> FALSE,
              j |-> 1, bound |-> 0, ret |-> 1, ram |-> {}, full |-> TRUE]

RangesInit == ranges = <<>> /\ cover = NotCalled

AddRange ==
    /\ cover.pc = "idle"
    /\ Len(ranges) < MaxRanges
    /\ \E r \in Ranges : ranges' = Append(ranges, r)
    /\ UNCHANGED cover

\* The addresses of a range, and of a table of them.
Bytes(r) == r.start..(r.end - 1)
AllBytes(t) == UNION {Bytes(t[i]) : i \in DOMAIN t}

-----------------------------------------------------------------------------
(* nodes_cover_memory *)

\* The next entry of the memory map that is RAM (others are skipped).
NextEntry ==
    /\ cover.pc \in {"idle", "entry"}
    /\ \E r \in Ranges :
        cover' = [cover EXCEPT !.pc = "pass", !.lo = r.start, !.hi = r.end,
                               !.start = r.start, !.end = r.end,
                               !.ram = cover.ram \cup Bytes(r)]
    /\ UNCHANGED ranges

\* The do loop begins a pass.  The bound of the inner loop is a local
\* variable without a value, so any part of the table may be gone through.
BeginPass ==
    /\ cover.pc = "pass"
    /\ \E n \in 0..Len(ranges) :
        cover' = [cover EXCEPT !.pc = "node", !.found = FALSE, !.j = 1, !.bound = n,
                               !.full = cover.full /\ n = Len(ranges)]
    /\ UNCHANGED ranges

\* One node's turn: what is left is trimmed at the ends the node covers.
TrimNode ==
    LET nd == ranges[cover.j]
        meets == cover.start < nd.end /\ cover.end > nd.start
        low == meets /\ cover.start >= nd.start
        high == meets /\ cover.end <= nd.end
    IN  /\ cover.pc = "node" /\ cover.j <= cover.bound
        /\ cover' = [cover EXCEPT
                        !.start = IF low THEN nd.end ELSE cover.start,
                        !.end = IF high THEN nd.start ELSE cover.end,
                        !.found = cover.found \/ low \/ high,
                        !.j = cover.j + 1]
        /\ UNCHANGED ranges

\* Mutant: the nodes are gone through once.
EndPassOnce ==
    /\ cover.pc = "node" /\ cover.j > cover.bound
    /\ \/ /\ cover.start >= cover.end
          /\ cover' = [cover EXCEPT !.pc = "entry"]
       \/ /\ cover.start < cover.end
          /\ cover' = [cover EXCEPT !.pc = "returned", !.ret = 0]
    /\ UNCHANGED ranges

\* Again as long as something was trimmed and something is left; an entry of
\* which something stays is not covered.
EndPass ==
    /\ cover.pc = "node" /\ cover.j > cover.bound
    /\ \/ /\ cover.found /\ cover.start < cover.end
          /\ cover' = [cover EXCEPT !.pc = "pass"]
       \/ /\ cover.start >= cover.end
          /\ cover' = [cover EXCEPT !.pc = "entry"]
       \/ /\ ~cover.found /\ cover.start < cover.end
          /\ cover' = [cover EXCEPT !.pc = "returned", !.ret = 0]
    /\ UNCHANGED ranges

\* The memory map is at its end.
ReturnCovered ==
    /\ cover.pc \in {"idle", "entry"}
    /\ cover' = [cover EXCEPT !.pc = "returned", !.ret = 1]
    /\ UNCHANGED ranges

RangesNext ==
    \/ AddRange \/ NextEntry \/ BeginPass \/ TrimNode \/ EndPass \/ ReturnCovered

RangesSpec == RangesInit /\ [][RangesNext]_rangesVars

-----------------------------------------------------------------------------
(* Properties *)

\* RAM counts as covered only if every address of it belongs to a node, in
\* whatever order the nodes come and however they overlap; and if so always,
\* when no pass was cut short by the bound.
CoverAgrees ==
    cover.pc = "returned" =>
        /\ cover.ret = 1 => cover.ram \subseteq AllBytes(ranges)
        /\ cover.ret = 0 /\ cover.full => ~(cover.ram \subseteq AllBytes(ranges))

\* A node keeps exactly its addresses between start and end, and stays a
\* range.
CutAgrees ==
    \A i \in DOMAIN ranges, r \in Ranges :
        LET cut == cutoff_node(ranges[i], r.start, r.end)
        IN  cut \in Ranges /\ Bytes(cut) = Bytes(ranges[i]) \cap Bytes(r)

\* The conflict reported is the first block that shares an address with the
\* range; a range that lies inside a block conflicts with one.
ConflictAgrees ==
    \A r \in {q \in Ranges : q.start < q.end} :
        LET shared == {i \in DOMAIN ranges : Bytes(ranges[i]) \cap Bytes(r) # {}}
            nodeid == [i \in DOMAIN ranges |-> i]
            first == conflicting_memblks(ranges, r)
        IN  /\ IF shared = {} THEN first = 0
               ELSE first \in shared /\ \A i \in shared : first <= i
            /\ (\E i \in DOMAIN ranges : valid_numa_range(ranges, nodeid, r, i))
                    => first # 0

\* The functions on ranges agree with what they mean for sets of addresses,
\* whatever ranges the table holds and in whatever order: RAM is covered only
\* if every byte is (lines 495 to 515), a node is cut to the memory there is
\* (252 to 261), a conflict is an overlap (235 to 240).  The table is complete
\* when nodes_cover_memory is called.
RangesAgree == CoverAgrees /\ (cover.pc = "idle" => CutAgrees /\ ConflictAgrees)
=============================================================================
