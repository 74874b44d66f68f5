-------------------------------- MODULE Fpu --------------------------------
(***************************************************************************)
(* The FPU and extended state of vCPUs (src/i387_verified.c, and set_xcr0  *)
(* of src/xstate_verified.c).  The registers of a physical CPU are shared  *)
(* by the vCPUs that run there one after another.  They are saved when a   *)
(* vCPU leaves and loaded when it first uses them: CR0.TS is set, so the   *)
(* first use traps.                                                        *)
(*                                                                         *)
(* xsave and xrstor are empty in the source; they are modelled as the      *)
(* instructions their names stand for.  Scheduling, the guests and the     *)
(* hypervisor's own use of the FPU are external.                           *)
(***************************************************************************)
EXTENDS Naturals

CONSTANTS
    Pcpus, Vcpus, NoVcpu,
    Components,      \* state components, the bits of xcr0
    XcrAccum,        \* v->xcr0_accum, which the source only reads
    Nonlazy,         \* vCPUs with nonlazy_xstate_used, which it only reads
    Data, Reset      \* contents of a component; Reset is the initial one

\* The masks 1, 0, 1 and 1, as sets of bits.
XSTATE_FP_SSE == {0}
XSTATE_LAZY == {}
XSTATE_NONLAZY == {0}
XSTATE_ALL == {0}

ASSUME ComponentsAssumption ==
    Components \subseteq Nat /\ 0 \in Components /\ XcrAccum \subseteq Components
ASSUME VcpuAssumption == NoVcpu \notin Vcpus /\ Nonlazy \subseteq Vcpus
ASSUME DataAssumption == Reset \in Data

VARIABLES
    cur,              \* the vCPU on each physical CPU
    ts,               \* its CR0.TS
    xen,              \* the hypervisor uses its FPU
    regs,             \* its registers
    xsave_area,       \* the save area of each vCPU
    fpu_initialised,
    fpu_dirtied,
    alive,            \* vCPUs whose save area is allocated
    event             \* history: the last access of a vCPU with nonlazy state,
                      \* or the last such vCPU that is new

cpuVars == <<cur, ts, xen, regs>>
vcpuVars == <<xsave_area, fpu_initialised, fpu_dirtied, alive>>
fpuVars == <<cpuVars, vcpuVars, event>>

Contents == [Components -> Data]

FpuTypeOK ==
    /\ cur \in [Pcpus -> Vcpus \cup {NoVcpu}]
    /\ ts \in [Pcpus -> BOOLEAN]
    /\ xen \in [Pcpus -> BOOLEAN]
    /\ regs \in [Pcpus -> Contents]
    /\ xsave_area \in [Vcpus -> Contents]
    /\ fpu_initialised \in [Vcpus -> BOOLEAN]
    /\ fpu_dirtied \in [Vcpus -> BOOLEAN]
    /\ alive \in SUBSET Vcpus

FpuInit ==
    /\ cur = [p \in Pcpus |-> NoVcpu]
    /\ ts = [p \in Pcpus |-> TRUE]
    /\ xen = [p \in Pcpus |-> FALSE]
    /\ regs \in [Pcpus -> Contents]
    /\ xsave_area = [v \in Vcpus |-> [c \in Components |-> Reset]]
    /\ fpu_initialised = [v \in Vcpus |-> FALSE]
    /\ fpu_dirtied = [v \in Vcpus |-> FALSE]
    /\ alive = Vcpus
    /\ event = <<>>

-----------------------------------------------------------------------------
(* Saving and restoring *)

\* XCR0 after an attempt to set it: no features at all are refused.
set_xcr0(xfeatures, xcr0) == IF xfeatures # {} THEN xfeatures ELSE xcr0

\* to, with the components of a mask taken from from.
Merge(to, from, mask) ==
    [c \in Components |-> IF c \in mask THEN from[c] ELSE to[c]]

\* Mutant: nonlazy state is left out of the mask.
MaskLazyOnly(v) == IF fpu_dirtied[v] THEN XSTATE_LAZY ELSE XSTATE_ALL

\* xstate_all is always true: without lazy state in the registers, all of
\* them are saved.
vcpu_xsave_mask(v) ==
    IF fpu_dirtied[v]
    THEN IF v \in Nonlazy THEN XSTATE_ALL ELSE XSTATE_LAZY
    ELSE XSTATE_ALL

\* The components the instructions transfer: those of the mask that XCR0
\* has at that moment.
fpu_xsave(v) ==
    vcpu_xsave_mask(v) \cap set_xcr0(XcrAccum \cup XSTATE_FP_SSE, XSTATE_FP_SSE)
fpu_xrstor(mask) == mask \cap set_xcr0(XSTATE_FP_SSE, XSTATE_FP_SSE)

\* What saving may transfer: cpu_has_xsave is a ghost variable without a
\* value there, so the registers may be saved by fxsave as well.
Saved(v) == {fpu_xsave(v), XSTATE_FP_SSE}

\* Mutant: the vCPU still counts as having dirty registers.
SaveLeavesDirty(p, v, m) ==
    /\ xsave_area' = [xsave_area EXCEPT ![v] = Merge(@, regs[p], m)]
    /\ UNCHANGED fpu_dirtied

\* The registers that are in use are saved, and are no longer in use.
SaveRegs(p, v, m) ==
    /\ xsave_area' = [xsave_area EXCEPT ![v] = Merge(@, regs[p], m)]
    /\ fpu_dirtied' = [fpu_dirtied EXCEPT ![v] = FALSE]

_vcpu_save_fpu_needed(v) == fpu_dirtied[v] \/ v \in Nonlazy

_vcpu_save_fpu(p, v) ==
    IF _vcpu_save_fpu_needed(v)
    THEN \E m \in Saved(v) : SaveRegs(p, v, m)
    ELSE UNCHANGED <<xsave_area, fpu_dirtied>>

\* Mutant: TS is left as it is.
vcpu_save_fpu_no_stts(p, v) ==
    /\ _vcpu_save_fpu(p, v)
    /\ ts' = [ts EXCEPT ![p] = @ /\ ~_vcpu_save_fpu_needed(v)]

vcpu_save_fpu(p, v) ==
    /\ _vcpu_save_fpu(p, v)
    /\ ts' = [ts EXCEPT ![p] = TRUE]

\* TS is cleared, by _vcpu_save_fpu if there is something to be saved.
save_fpu_enable(p, v) ==
    /\ _vcpu_save_fpu(p, v)
    /\ ts' = [ts EXCEPT ![p] = FALSE]

\* The trap at the first use.  A guest may have set TS by itself; its
\* registers are still there then.
vcpu_restore_fpu_lazy(p, v) ==
    /\ ts' = [ts EXCEPT ![p] = FALSE]
    /\ IF fpu_dirtied[v]
       THEN UNCHANGED <<regs, fpu_initialised, fpu_dirtied>>
       ELSE /\ regs' = [regs EXCEPT ![p] =
                    Merge(@, xsave_area[v], fpu_xrstor(XSTATE_LAZY))]
            /\ fpu_initialised' = [fpu_initialised EXCEPT ![v] = TRUE]
            /\ fpu_dirtied' = [fpu_dirtied EXCEPT ![v] = TRUE]

-----------------------------------------------------------------------------
(* The environment *)

\* A vCPU with nonlazy state has its registers loaded when it enters the
\* guest: vcpu_xsave_mask saves them all even if it does not use the FPU.
Loaded(v, r) ==
    IF v \in Nonlazy THEN Merge(r, xsave_area[v], XSTATE_ALL \cup XSTATE_FP_SSE)
    ELSE r

SwitchIn(p, v) ==
    /\ cur[p] = NoVcpu
    /\ v \in alive /\ \A q \in Pcpus : cur[q] # v
    /\ cur' = [cur EXCEPT ![p] = v]
    /\ regs' = [regs EXCEPT ![p] = Loaded(v, @)]
    /\ UNCHANGED <<ts, xen, vcpuVars, event>>

Running(p) == cur[p] # NoVcpu /\ ~xen[p]

SwitchOut(p) ==
    /\ Running(p)
    /\ vcpu_save_fpu(p, cur[p])
    /\ cur' = [cur EXCEPT ![p] = NoVcpu]
    /\ UNCHANGED <<xen, regs, fpu_initialised, alive, event>>

\* The hypervisor uses the FPU for itself, and sets TS afterwards.
XenEnter(p) ==
    /\ Running(p)
    /\ save_fpu_enable(p, cur[p])
    /\ xen' = [xen EXCEPT ![p] = TRUE]
    /\ UNCHANGED <<cur, regs, fpu_initialised, alive, event>>

XenLeave(p) ==
    /\ xen[p]
    /\ xen' = [xen EXCEPT ![p] = FALSE]
    /\ ts' = [ts EXCEPT ![p] = TRUE]
    /\ \E r \in Contents : regs' = [regs EXCEPT ![p] = Loaded(cur[p], r)]
    /\ UNCHANGED <<cur, vcpuVars, event>>

GuestTrap(p) ==
    /\ Running(p) /\ ts[p]
    /\ vcpu_restore_fpu_lazy(p, cur[p])
    /\ UNCHANGED <<cur, xen, xsave_area, alive, event>>

Observe(v, e) == event' = IF v \in Nonlazy THEN e ELSE event

\* XCR0 leaves a guest the FP and SSE registers.
GuestWrite(p, c, x) ==
    /\ Running(p) /\ ~ts[p]
    /\ regs' = [regs EXCEPT ![p][c] = x]
    /\ Observe(cur[p], <<"write", cur[p], c, x>>)
    /\ UNCHANGED <<cur, ts, xen, vcpuVars>>

GuestRead(p, c) ==
    /\ Running(p) /\ ~ts[p]
    /\ Observe(cur[p], <<"read", cur[p], c, regs[p][c]>>)
    /\ UNCHANGED <<cpuVars, vcpuVars>>

\* A paravirtualised guest sets its CR0.TS.
GuestSetTs(p) ==
    /\ Running(p)
    /\ ts' = [ts EXCEPT ![p] = TRUE]
    /\ UNCHANGED <<cur, xen, regs, vcpuVars, event>>

vcpu_destroy_fpu(v) ==
    /\ v \in alive /\ \A p \in Pcpus : cur[p] # v
    /\ alive' = alive \ {v}
    /\ UNCHANGED <<cpuVars, xsave_area, fpu_initialised, fpu_dirtied, event>>

\* A new vCPU takes the place of one that is gone.
CreateVcpu(v) ==
    /\ v \notin alive
    /\ alive' = alive \cup {v}
    /\ xsave_area' = [xsave_area EXCEPT ![v] = [c \in Components |-> Reset]]
    /\ fpu_initialised' = [fpu_initialised EXCEPT ![v] = FALSE]
    /\ fpu_dirtied' = [fpu_dirtied EXCEPT ![v] = FALSE]
    /\ Observe(v, <<"create", v>>)
    /\ UNCHANGED cpuVars

GuestStep(p) ==
    \/ GuestTrap(p)
    \/ GuestSetTs(p)
    \/ \E c \in XSTATE_FP_SSE :
          GuestRead(p, c) \/ \E x \in Data : GuestWrite(p, c, x)

FpuNext ==
    \/ \E p \in Pcpus :
        \/ SwitchOut(p) \/ XenEnter(p) \/ XenLeave(p) \/ GuestStep(p)
        \/ \E v \in Vcpus : SwitchIn(p, v)
    \/ \E v \in Vcpus : vcpu_destroy_fpu(v) \/ CreateVcpu(v)

FpuSpec == FpuInit /\ [][FpuNext]_fpuVars

-----------------------------------------------------------------------------
(* Properties *)

\* A guest can use registers without a trap only while they are its own: with
\* TS clear outside the hypervisor, the vCPU on a CPU has been restored there,
\* over any number of switches, traps, uses of the FPU by Xen and changes of
\* TS by guests (lines 161-183, 224-270).
UsableMeansRestored ==
    \A p \in Pcpus :
        Running(p) /\ ~ts[p] => fpu_dirtied[cur[p]] /\ fpu_initialised[cur[p]]

\* A vCPU counts as dirty only while its registers are in a CPU, where nobody
\* else has used them since: it is never restored too little because of a
\* flag left behind by a switch, a use of the FPU by Xen, or a vCPU that is
\* gone (lines 170-171, 227-244).
DirtyIsLoaded ==
    \A v \in Vcpus : fpu_dirtied[v] => \E p \in Pcpus : cur[p] = v /\ ~xen[p]

\* A component as a vCPU has it: in the CPU it runs on while it is dirty, else
\* in its save area.
Where(v) == CHOOSE p \in Pcpus : cur[p] = v
Content(v, c) ==
    IF fpu_dirtied[v] /\ \E p \in Pcpus : cur[p] = v
    THEN regs[Where(v)][c]
    ELSE xsave_area[v][c]

File == [v \in Nonlazy |-> [c \in XSTATE_FP_SSE |-> Content(v, c)]]

Files == INSTANCE RegisterFiles
    WITH Vcpus <- Nonlazy, Registers <- XSTATE_FP_SSE, file <- File

\* A vCPU with nonlazy state has registers of its own: it reads what it wrote
\* last, whoever used the CPU in between, and wherever it runs now.  With
\* XSTATE_LAZY 0 the registers of the others are neither saved nor restored.
ImplementsRegisterFiles == Files!Spec

\* ASSERT(mask) of fpu_xsave (line 208): what is to be saved is not nothing.
\* With the registers of a vCPU in use, switching it out would save them now.
SavesSomething ==
    \A p \in Pcpus :
        Running(p) /\ _vcpu_save_fpu_needed(cur[p]) => vcpu_xsave_mask(cur[p]) # {}
=============================================================================
