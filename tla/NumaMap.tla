------------------------------ MODULE NumaMap ------------------------------
(***************************************************************************)
(* The table that gives every proximity domain of the firmware a node      *)
(* (src/srat_verified.c).  The size checks of the three affinity handlers  *)
(* compare the size of the header field with that of the whole entry, so   *)
(* every entry of the SRAT is rejected; domains enter the table when a CPU *)
(* is hot-added.                                                           *)
(***************************************************************************)
EXTENDS Integers

CONSTANTS
    MAX_NUMNODES,    \* number of nodes
    TableSize,       \* sizeof(pxm2node), the bound of the loops
    Domains,         \* proximity domains of the firmware
    MaxFound         \* bound on nodes_found

ASSUME MaxNumnodesAssumption == MAX_NUMNODES \in Nat \ {0}
ASSUME TableAssumption == TableSize \in Nat /\ TableSize >= MAX_NUMNODES
ASSUME DomainsAssumption == Domains \subseteq Nat
ASSUME MaxFoundAssumption == MaxFound \in Nat

VARIABLES
    pxm2node,        \* slot -> domain and node
    nodes_found,     \* nodes handed out
    acpi_numa        \* 0, or -1 once the SRAT is not used

mapVars == <<pxm2node, nodes_found, acpi_numa>>

Slots == 0..(TableSize - 1)
NUMA_NO_NODE == 0

MapTypeOK ==
    /\ pxm2node \in [Slots -> [pxm : Domains \cup {0}, node : 0..(MAX_NUMNODES - 1)]]
    /\ nodes_found \in 0..MaxFound
    /\ acpi_numa \in {-1, 0}

\* The slot at which a loop over the table stops, -1 if it runs to the end.
FirstSlot(S) ==
    IF S = {} THEN -1 ELSE CHOOSE i \in S : \A j \in S : i <= j

-----------------------------------------------------------------------------
(* Lookups *)

node_found(i, p) == pxm2node[i].pxm = p /\ pxm2node[i].node # NUMA_NO_NODE

\* The slot with the domain's own number is tried first.
pxm_to_node(p) ==
    LET i == FirstSlot({j \in Slots : node_found(j, p)})
    IN  IF p \in Slots /\ node_found(p, p) THEN pxm2node[p].node
        ELSE IF i = -1 THEN NUMA_NO_NODE ELSE pxm2node[i].node

node_to_pxm(n) ==
    LET i == FirstSlot({j \in Slots : pxm2node[j].node = n})
    IN  IF n \in Slots /\ pxm2node[n].node = n THEN pxm2node[n].pxm
        ELSE IF i = -1 THEN 0 ELSE pxm2node[i].pxm

-----------------------------------------------------------------------------
(* Operations *)

MapInit ==
    /\ pxm2node = [i \in Slots |-> [pxm |-> 0, node |-> NUMA_NO_NODE]]
    /\ nodes_found = 0
    /\ acpi_numa = 0

\* Mutant: the domain's own slot is taken from whoever has it.
OwnSlotAlways(p) ==
    IF p \in Slots THEN p
    ELSE FirstSlot({i \in Slots : pxm2node[i].node = NUMA_NO_NODE})

\* The slot for a new domain: its own if that is free, else the first free.
FreeSlot(p) ==
    IF p \in Slots /\ pxm2node[p].node = NUMA_NO_NODE THEN p
    ELSE FirstSlot({i \in Slots : pxm2node[i].node = NUMA_NO_NODE})

\* Mutant: a node is counted only if it found the domain's own slot free.
TakeNodeUncounted(i, p) ==
    /\ nodes_found' = IF i = p THEN nodes_found + 1 ELSE nodes_found
    /\ pxm2node' = IF nodes_found >= MAX_NUMNODES THEN pxm2node
                   ELSE [pxm2node EXCEPT ![i] =
                            [pxm |-> p, node |-> nodes_found]]

\* The label finish: the next number is used up even if it is too large.
TakeNode(i, p) ==
    /\ nodes_found' = nodes_found + 1
    /\ pxm2node' = IF nodes_found >= MAX_NUMNODES THEN pxm2node
                   ELSE [pxm2node EXCEPT ![i] =
                            [pxm |-> p, node |-> nodes_found]]

\* A domain found at its own slot has its node already; one kept elsewhere
\* is not looked for.
setup_node(p) ==
    /\ nodes_found < MaxFound
    /\ IF (p \in Slots /\ node_found(p, p)) \/ FreeSlot(p) = -1
       THEN UNCHANGED <<pxm2node, nodes_found>>
       ELSE TakeNode(FreeSlot(p), p)
    /\ UNCHANGED acpi_numa

\* Every domain loses its node; the numbers handed out are not reused.
bad_srat ==
    /\ acpi_numa' = -1
    /\ pxm2node' = [i \in Slots |-> [pxm2node[i] EXCEPT !.node = NUMA_NO_NODE]]
    /\ UNCHANGED nodes_found

\* acpi_numa < 0, or NUMA is off altogether.
srat_disabled == acpi_numa < 0

\* An entry of the SRAT: processor, x2APIC or memory affinity.
affinity_init == ~srat_disabled /\ bad_srat

\* A CPU is hot-added in domain p.
HotAdd == \E p \in Domains : setup_node(p)

MapNext == HotAdd \/ affinity_init

MapSpec == MapInit /\ [][MapNext]_mapVars

-----------------------------------------------------------------------------
(* Properties *)

\* Whatever order domains come in, and whether or not the SRAT is rejected
\* in between, node_to_pxm leads from a node back to the domain it was given
\* to (lines 198 to 205 and 642 to 646).
RoundTrip ==
    \A i \in Slots : pxm2node[i].node # NUMA_NO_NODE =>
        node_to_pxm(pxm2node[i].node) = pxm2node[i].pxm

\* Until the SRAT is rejected a domain keeps the node pxm_to_node reports,
\* although a domain that was kept in a foreign slot is given further ones
\* (lines 152 to 158 and 181 to 189).
LookupStable ==
    [][acpi_numa' = acpi_numa =>
        \A p \in Domains : pxm_to_node(p) # NUMA_NO_NODE =>
            pxm_to_node(p)' = pxm_to_node(p)]_mapVars
=============================================================================
