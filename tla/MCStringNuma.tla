---------------------------- MODULE MCStringNuma ----------------------------
(***************************************************************************)
(* The string functions and the NUMA tables for TLC.  The two share        *)
(* nothing: a behaviour calls string functions, or works on the table of   *)
(* nodes, or fills a table of ranges, so that their states add up.         *)
(***************************************************************************)
EXTENDS MiniOsString, NumaMap, NumaRanges

allVars == <<mem, call, ret, pxm2node, nodes_found, acpi_numa, ranges, cover>>

StringsIdle == call = NoCall /\ ret = 0 /\ \A a \in Addresses : mem[a] = 0
MapIdle == nodes_found = 0 /\ acpi_numa = 0
RangesIdle == ranges = <<>> /\ cover.pc = "idle"

MCInit == Init /\ MapInit /\ RangesInit

\* A string function has returned a value other than 0 (every memory is an
\* initial one, so calls after it add nothing), the table of nodes is full
\* and the SRAT rejected, or nodes_cover_memory has returned.
Done ==
    /\ \/ call = NoCall /\ ret # 0
       \/ nodes_found = MaxFound /\ acpi_numa < 0
       \/ cover.pc = "returned"
    /\ UNCHANGED allVars

MCNext ==
    \/ /\ MapIdle /\ RangesIdle /\ (call # NoCall \/ ret = 0)
       /\ Next /\ UNCHANGED <<mapVars, rangesVars>>
    \/ StringsIdle /\ RangesIdle /\ MapNext /\ UNCHANGED <<vars, rangesVars>>
    \/ StringsIdle /\ MapIdle /\ RangesNext /\ UNCHANGED <<vars, mapVars>>
    \/ Done

MCSpec == MCInit /\ [][MCNext]_allVars
=============================================================================
