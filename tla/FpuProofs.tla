------------------------------ MODULE FpuProofs ------------------------------
(***************************************************************************)
(* Proofs about Fpu, for any numbers of physical CPUs and vCPUs, any       *)
(* further components and any contents, with the masks of the source.      *)
(***************************************************************************)
EXTENDS Fpu, TLAPS

\* A vCPU runs in one place, and there it is alive.
OnePlace ==
    /\ \A p, q \in Pcpus : cur[p] = cur[q] /\ cur[p] # NoVcpu => p = q
    /\ \A p \in Pcpus : cur[p] # NoVcpu => cur[p] \in alive

DirtyInitialised == \A v \in Vcpus : fpu_dirtied[v] => fpu_initialised[v]

\* TS is set on a CPU without a vCPU; only a vCPU's CPU is used by Xen.
TsWhenIdle == \A p \in Pcpus : cur[p] = NoVcpu => ts[p] /\ ~xen[p]

\* Registers that are saved without being dirty are the vCPU's own.
NonlazyLoaded ==
    \A p \in Pcpus :
        Running(p) /\ cur[p] \in Nonlazy /\ ~fpu_dirtied[cur[p]]
            => \A c \in XSTATE_FP_SSE : regs[p][c] = xsave_area[cur[p]][c]

IInv ==
    /\ FpuTypeOK
    /\ OnePlace
    /\ DirtyIsLoaded
    /\ DirtyInitialised
    /\ TsWhenIdle
    /\ UsableMeansRestored
    /\ NonlazyLoaded

\* The FP and SSE registers are among the components.
LEMMA MaskFacts == XSTATE_FP_SSE \subseteq Components
  BY ComponentsAssumption DEF XSTATE_FP_SSE

\* Merging takes the components of the mask from its second argument.
LEMMA MergeIs ==
    ASSUME NEW to \in Contents, NEW from \in Contents, NEW mask
    PROVE  /\ Merge(to, from, mask) \in Contents
           /\ \A c \in Components :
                Merge(to, from, mask)[c] = IF c \in mask THEN from[c] ELSE to[c]
  BY DEF Merge, Contents

\* What enters the guest is of the right type and, for a vCPU with nonlazy
\* state, its own.
LEMMA LoadedIs ==
    ASSUME FpuTypeOK, NEW v \in Vcpus, NEW r \in Contents
    PROVE  /\ Loaded(v, r) \in Contents
           /\ v \in Nonlazy
                => \A c \in XSTATE_FP_SSE : Loaded(v, r)[c] = xsave_area[v][c]
  BY MergeIs, MaskFacts DEF Loaded, FpuTypeOK

\* Of a vCPU with nonlazy state the FP and SSE registers are saved, whichever
\* instruction does it.
LEMMA SavedCovers ==
    ASSUME NEW v \in Nonlazy, NEW m \in Saved(v)
    PROVE  XSTATE_FP_SSE \subseteq m
  BY DEF Saved, fpu_xsave, vcpu_xsave_mask, set_xcr0, XSTATE_ALL, XSTATE_FP_SSE

\* What _vcpu_save_fpu leaves: nothing dirty, and in the save area of a vCPU
\* with nonlazy state what was in the registers, or what the area had.
LEMMA SaveEffect ==
    ASSUME IInv, NEW p \in Pcpus, Running(p), _vcpu_save_fpu(p, cur[p])
    PROVE  /\ xsave_area' \in [Vcpus -> Contents]
           /\ \A w \in Vcpus \ {cur[p]} :
                xsave_area'[w] = xsave_area[w] /\ fpu_dirtied'[w] = fpu_dirtied[w]
           /\ fpu_dirtied' \in [Vcpus -> BOOLEAN]
           /\ fpu_dirtied'[cur[p]] = FALSE
           /\ cur[p] \in Nonlazy => \A c \in XSTATE_FP_SSE :
                xsave_area'[cur[p]][c] =
                    IF fpu_dirtied[cur[p]] THEN regs[p][c] ELSE xsave_area[cur[p]][c]
  <1> DEFINE v == cur[p]
  <1>t. /\ v \in Vcpus
        /\ regs[p] \in Contents
        /\ xsave_area[v] \in Contents
        /\ xsave_area \in [Vcpus -> Contents]
        /\ fpu_dirtied \in [Vcpus -> BOOLEAN]
    BY DEF IInv, FpuTypeOK, Running
  <1>1. CASE _vcpu_save_fpu_needed(v)
    <2>1. PICK m \in Saved(v) : SaveRegs(p, v, m)
      BY <1>1 DEF _vcpu_save_fpu
    <2>2. v \in Nonlazy => XSTATE_FP_SSE \subseteq m
      BY SavedCovers
    <2>3. /\ Merge(xsave_area[v], regs[p], m) \in Contents
          /\ \A c \in Components : Merge(xsave_area[v], regs[p], m)[c] =
                IF c \in m THEN regs[p][c] ELSE xsave_area[v][c]
      BY <1>t, MergeIs
    <2>4. v \in Nonlazy /\ ~fpu_dirtied[v]
            => \A c \in XSTATE_FP_SSE : regs[p][c] = xsave_area[v][c]
      BY DEF IInv, NonlazyLoaded
    <2>5. /\ xsave_area' = [xsave_area EXCEPT ![v] = Merge(xsave_area[v], regs[p], m)]
          /\ fpu_dirtied' = [fpu_dirtied EXCEPT ![v] = FALSE]
      BY <2>1 DEF SaveRegs
    <2> HIDE DEF v
    <2>6. QED BY <1>t, <2>2, <2>3, <2>4, <2>5, MaskFacts DEF v
  <1>2. CASE ~_vcpu_save_fpu_needed(v)
    BY <1>t, <1>2 DEF _vcpu_save_fpu, _vcpu_save_fpu_needed
  <1>3. QED BY <1>1, <1>2

-----------------------------------------------------------------------------
(* The invariant.  One lemma per step that moves registers. *)

USE DEF cpuVars, vcpuVars

LEMMA InitIInv == FpuInit => IInv
  BY VcpuAssumption, DataAssumption
  DEF FpuInit, IInv, FpuTypeOK, Contents, OnePlace, DirtyIsLoaded, DirtyInitialised,
      TsWhenIdle, UsableMeansRestored, NonlazyLoaded, Running

LEMMA SwitchInIInv ==
    ASSUME IInv, NEW p \in Pcpus, NEW v \in Vcpus, SwitchIn(p, v)
    PROVE  IInv'
  <1>1. /\ Loaded(v, regs[p]) \in Contents
        /\ v \in Nonlazy => \A c \in XSTATE_FP_SSE :
                Loaded(v, regs[p])[c] = xsave_area[v][c]
    BY LoadedIs DEF IInv, FpuTypeOK
  <1>2. /\ cur' = [cur EXCEPT ![p] = v]
        /\ regs' = [regs EXCEPT ![p] = Loaded(v, regs[p])]
        /\ UNCHANGED <<ts, xen, xsave_area, fpu_initialised, fpu_dirtied, alive>>
        /\ cur[p] = NoVcpu /\ v \in alive /\ \A q \in Pcpus : cur[q] # v
    BY DEF SwitchIn
  <1>3. FpuTypeOK' BY <1>1, <1>2 DEF IInv, FpuTypeOK
  <1>4. OnePlace' BY <1>2 DEF IInv, FpuTypeOK, OnePlace
  <1>5. DirtyIsLoaded' /\ DirtyInitialised' /\ ~fpu_dirtied[v]
    BY <1>2, VcpuAssumption DEF IInv, FpuTypeOK, DirtyIsLoaded, DirtyInitialised
  <1>6. TsWhenIdle' /\ UsableMeansRestored'
    BY <1>2 DEF IInv, FpuTypeOK, TsWhenIdle, UsableMeansRestored, Running
  <1>7. NonlazyLoaded'
    BY <1>1, <1>2 DEF IInv, FpuTypeOK, NonlazyLoaded, Running
  <1>8. QED BY <1>3, <1>4, <1>5, <1>6, <1>7 DEF IInv

LEMMA SwitchOutIInv ==
    ASSUME IInv, NEW p \in Pcpus, SwitchOut(p)
    PROVE  IInv'
  <1>1. /\ cur' = [cur EXCEPT ![p] = NoVcpu]
        /\ ts' = [ts EXCEPT ![p] = TRUE]
        /\ UNCHANGED <<xen, regs, fpu_initialised, alive>>
        /\ Running(p) /\ _vcpu_save_fpu(p, cur[p])
    BY DEF SwitchOut, vcpu_save_fpu
  <1>2. /\ xsave_area' \in [Vcpus -> Contents]
        /\ \A w \in Vcpus \ {cur[p]} :
                xsave_area'[w] = xsave_area[w] /\ fpu_dirtied'[w] = fpu_dirtied[w]
        /\ fpu_dirtied' \in [Vcpus -> BOOLEAN]
        /\ fpu_dirtied'[cur[p]] = FALSE
    BY <1>1, SaveEffect
  <1>3. FpuTypeOK' BY <1>1, <1>2 DEF IInv, FpuTypeOK
  <1>4. OnePlace' BY <1>1 DEF IInv, FpuTypeOK, OnePlace
  <1>5. DirtyIsLoaded' /\ DirtyInitialised'
    BY <1>1, <1>2 DEF IInv, FpuTypeOK, DirtyIsLoaded, DirtyInitialised
  <1>6. TsWhenIdle' BY <1>1 DEF IInv, FpuTypeOK, TsWhenIdle, Running
  <1>7. UsableMeansRestored' /\ NonlazyLoaded'
    BY <1>1, <1>2
    DEF IInv, FpuTypeOK, UsableMeansRestored, NonlazyLoaded, Running, OnePlace
  <1>8. QED BY <1>3, <1>4, <1>5, <1>6, <1>7 DEF IInv

LEMMA XenEnterIInv ==
    ASSUME IInv, NEW p \in Pcpus, XenEnter(p)
    PROVE  IInv'
  <1>1. /\ xen' = [xen EXCEPT ![p] = TRUE]
        /\ ts' = [ts EXCEPT ![p] = FALSE]
        /\ UNCHANGED <<cur, regs, fpu_initialised, alive>>
        /\ Running(p) /\ _vcpu_save_fpu(p, cur[p])
    BY DEF XenEnter, save_fpu_enable
  <1>2. /\ xsave_area' \in [Vcpus -> Contents]
        /\ \A w \in Vcpus \ {cur[p]} :
                xsave_area'[w] = xsave_area[w] /\ fpu_dirtied'[w] = fpu_dirtied[w]
        /\ fpu_dirtied' \in [Vcpus -> BOOLEAN]
        /\ fpu_dirtied'[cur[p]] = FALSE
    BY <1>1, SaveEffect
  <1>3. FpuTypeOK' BY <1>1, <1>2 DEF IInv, FpuTypeOK
  <1>4. OnePlace' BY <1>1 DEF IInv, FpuTypeOK, OnePlace
  <1>5. DirtyIsLoaded' /\ DirtyInitialised'
    BY <1>1, <1>2 DEF IInv, FpuTypeOK, DirtyIsLoaded, DirtyInitialised
  <1>6. TsWhenIdle' BY <1>1 DEF IInv, FpuTypeOK, TsWhenIdle, Running
  <1>7. UsableMeansRestored' /\ NonlazyLoaded'
    BY <1>1, <1>2
    DEF IInv, FpuTypeOK, UsableMeansRestored, NonlazyLoaded, Running, OnePlace
  <1>8. QED BY <1>3, <1>4, <1>5, <1>6, <1>7 DEF IInv

LEMMA XenLeaveIInv ==
    ASSUME IInv, NEW p \in Pcpus, XenLeave(p)
    PROVE  IInv'
  <1>1. PICK r \in Contents : regs' = [regs EXCEPT ![p] = Loaded(cur[p], r)]
    BY DEF XenLeave
  <1>2. /\ xen[p] /\ xen' = [xen EXCEPT ![p] = FALSE]
        /\ ts' = [ts EXCEPT ![p] = TRUE]
        /\ UNCHANGED <<cur, xsave_area, fpu_initialised, fpu_dirtied, alive>>
        /\ cur[p] \in Vcpus
    BY DEF XenLeave, IInv, FpuTypeOK, TsWhenIdle
  <1>3. /\ Loaded(cur[p], r) \in Contents
        /\ cur[p] \in Nonlazy => \A c \in XSTATE_FP_SSE :
                Loaded(cur[p], r)[c] = xsave_area[cur[p]][c]
    BY <1>2, LoadedIs DEF IInv
  <1>4. FpuTypeOK' BY <1>1, <1>2, <1>3 DEF IInv, FpuTypeOK
  <1>5. OnePlace' BY <1>2 DEF IInv, FpuTypeOK, OnePlace
  <1>6. DirtyIsLoaded' /\ DirtyInitialised'
    BY <1>2 DEF IInv, FpuTypeOK, DirtyIsLoaded, DirtyInitialised
  <1>7. TsWhenIdle' /\ UsableMeansRestored'
    BY <1>2 DEF IInv, FpuTypeOK, TsWhenIdle, UsableMeansRestored, Running
  <1>8. NonlazyLoaded'
    BY <1>1, <1>2, <1>3 DEF IInv, FpuTypeOK, NonlazyLoaded, Running
  <1>9. QED BY <1>4, <1>5, <1>6, <1>7, <1>8 DEF IInv

LEMMA GuestTrapIInv ==
    ASSUME IInv, NEW p \in Pcpus, GuestTrap(p)
    PROVE  IInv'
  <1> DEFINE v == cur[p]
             r == Merge(regs[p], xsave_area[v], fpu_xrstor(XSTATE_LAZY))
  <1>1. /\ v \in Vcpus /\ Running(p)
        /\ ts' = [ts EXCEPT ![p] = FALSE]
        /\ UNCHANGED <<cur, xen, xsave_area, alive>>
        /\ v # NoVcpu /\ ~xen[p]
    BY DEF GuestTrap, vcpu_restore_fpu_lazy, IInv, FpuTypeOK, Running
  <1>2. CASE fpu_dirtied[v]
    <2>1. UNCHANGED <<regs, fpu_initialised, fpu_dirtied>>
      BY <1>2 DEF GuestTrap, vcpu_restore_fpu_lazy
    <2>2. QED
      BY <1>1, <1>2, <2>1
      DEF IInv, FpuTypeOK, OnePlace, DirtyIsLoaded, DirtyInitialised, TsWhenIdle,
          UsableMeansRestored, NonlazyLoaded, Running
  <1>3. CASE ~fpu_dirtied[v]
    <2>1. /\ regs' = [regs EXCEPT ![p] = r]
          /\ fpu_initialised' = [fpu_initialised EXCEPT ![v] = TRUE]
          /\ fpu_dirtied' = [fpu_dirtied EXCEPT ![v] = TRUE]
      BY <1>3 DEF GuestTrap, vcpu_restore_fpu_lazy
    <2>2. r \in Contents
      BY <1>1, MergeIs DEF IInv, FpuTypeOK
    <2> HIDE DEF r
    <2>3. FpuTypeOK' BY <1>1, <2>1, <2>2 DEF IInv, FpuTypeOK
    <2>4. OnePlace' /\ TsWhenIdle'
      BY <1>1 DEF IInv, FpuTypeOK, OnePlace, TsWhenIdle
    <2>5. DirtyIsLoaded' /\ DirtyInitialised'
      BY <1>1, <2>1 DEF IInv, FpuTypeOK, DirtyIsLoaded, DirtyInitialised
    <2>6. UsableMeansRestored'
      BY <1>1, <2>1 DEF IInv, FpuTypeOK, UsableMeansRestored, Running
    <2>7. NonlazyLoaded'
      BY <1>1, <2>1, <2>2 DEF IInv, FpuTypeOK, NonlazyLoaded, Running
    <2>8. QED BY <2>3, <2>4, <2>5, <2>6, <2>7 DEF IInv
  <1>4. QED BY <1>2, <1>3

LEMMA GuestWriteIInv ==
    ASSUME IInv, NEW p \in Pcpus, NEW c \in XSTATE_FP_SSE, NEW x \in Data,
           GuestWrite(p, c, x)
    PROVE  IInv'
  <1>1. /\ regs' = [regs EXCEPT ![p] = [regs[p] EXCEPT ![c] = x]]
        /\ UNCHANGED <<cur, ts, xen, xsave_area, fpu_initialised, fpu_dirtied, alive>>
        /\ fpu_dirtied[cur[p]]
    BY DEF GuestWrite, IInv, UsableMeansRestored
  <1>2. [regs[p] EXCEPT ![c] = x] \in Contents
    BY MaskFacts DEF IInv, FpuTypeOK, Contents
  <1>3. FpuTypeOK' BY <1>1, <1>2 DEF IInv, FpuTypeOK
  <1>4. NonlazyLoaded'
    BY <1>1 DEF IInv, FpuTypeOK, NonlazyLoaded, Running
  <1>5. QED
    BY <1>1, <1>3, <1>4
    DEF IInv, OnePlace, DirtyIsLoaded, DirtyInitialised, TsWhenIdle,
        UsableMeansRestored, Running

LEMMA GuestSetTsIInv ==
    ASSUME IInv, NEW p \in Pcpus, GuestSetTs(p)
    PROVE  IInv'
  BY DEF GuestSetTs, IInv, FpuTypeOK, OnePlace, DirtyIsLoaded, DirtyInitialised,
         TsWhenIdle, UsableMeansRestored, NonlazyLoaded, Running

LEMMA VcpuIInv ==
    ASSUME IInv, NEW v \in Vcpus, vcpu_destroy_fpu(v) \/ CreateVcpu(v)
    PROVE  IInv'
  <1>1. CASE vcpu_destroy_fpu(v)
    BY <1>1, VcpuAssumption
    DEF vcpu_destroy_fpu, IInv, FpuTypeOK, OnePlace, DirtyIsLoaded, DirtyInitialised,
        TsWhenIdle, UsableMeansRestored, NonlazyLoaded, Running
  <1>2. CASE CreateVcpu(v)
    <2>1. /\ UNCHANGED <<cur, ts, xen, regs>>
          /\ alive' = alive \cup {v}
          /\ xsave_area' = [xsave_area EXCEPT ![v] = [c \in Components |-> Reset]]
          /\ fpu_initialised' = [fpu_initialised EXCEPT ![v] = FALSE]
          /\ fpu_dirtied' = [fpu_dirtied EXCEPT ![v] = FALSE]
          /\ \A p \in Pcpus : cur[p] # v
      BY <1>2, VcpuAssumption DEF CreateVcpu, IInv, OnePlace
    <2>2. [c \in Components |-> Reset] \in Contents
      BY DataAssumption DEF Contents
    <2>3. FpuTypeOK' BY <2>1, <2>2 DEF IInv, FpuTypeOK
    <2>4. NonlazyLoaded'
      BY <2>1 DEF IInv, FpuTypeOK, NonlazyLoaded, Running
    <2>5. QED
      BY <2>1, <2>3, <2>4
      DEF IInv, FpuTypeOK, OnePlace, DirtyIsLoaded, DirtyInitialised, TsWhenIdle,
          UsableMeansRestored, Running
  <1>3. QED BY <1>1, <1>2

LEMMA NextIInv ==
    ASSUME IInv, [FpuNext]_fpuVars
    PROVE  IInv'
  <1>1. CASE UNCHANGED fpuVars
    BY <1>1
    DEF fpuVars, IInv, FpuTypeOK, OnePlace, DirtyIsLoaded, DirtyInitialised, TsWhenIdle,
        UsableMeansRestored, NonlazyLoaded, Running
  <1>2. ASSUME NEW p \in Pcpus, NEW c \in XSTATE_FP_SSE, GuestRead(p, c)
        PROVE  IInv'
    BY <1>2
    DEF GuestRead, IInv, FpuTypeOK, OnePlace, DirtyIsLoaded, DirtyInitialised,
        TsWhenIdle, UsableMeansRestored, NonlazyLoaded, Running
  <1>3. QED
    BY <1>1, <1>2, SwitchInIInv, SwitchOutIInv, XenEnterIInv, XenLeaveIInv,
       GuestTrapIInv, GuestWriteIInv, GuestSetTsIInv, VcpuIInv
    DEF FpuNext, GuestStep

\* The types of the state, and: a guest can use registers without a trap only
\* after the trap at the first use marked them as its own.
THEOREM RestoredWhenUsable ==
    FpuSpec => [](FpuTypeOK /\ UsableMeansRestored)
  <1>1. IInv => FpuTypeOK /\ UsableMeansRestored BY DEF IInv
  <1>2. IInv /\ [FpuNext]_fpuVars => IInv' BY NextIInv
  <1>3. QED BY <1>1, <1>2, InitIInv, PTL DEF FpuSpec

\* A vCPU counts as dirty only while its registers are in the CPU it runs on.
THEOREM DirtyWhereLoaded == FpuSpec => []DirtyIsLoaded
  <1>1. IInv => DirtyIsLoaded BY DEF IInv
  <1>2. IInv /\ [FpuNext]_fpuVars => IInv' BY NextIInv
  <1>3. QED BY <1>1, <1>2, InitIInv, PTL DEF FpuSpec

-----------------------------------------------------------------------------
(* Refinement: what a vCPU with nonlazy state has in its registers changes  *)
(* only when it writes them itself, or is new.                              *)

\* Where a vCPU runs that runs in one place only, in any assignment of vCPUs.
LEMMA WhereIs ==
    ASSUME NEW on, NEW p \in Pcpus, \A q \in Pcpus : on[q] = on[p] => q = p
    PROVE  (CHOOSE q \in Pcpus : on[q] = on[p]) = p
  OBVIOUS

\* The contents, without CHOOSE.
LEMMA ContentIs ==
    ASSUME IInv, NEW v \in Vcpus, NEW c
    PROVE  /\ ~fpu_dirtied[v] => Content(v, c) = xsave_area[v][c]
           /\ \A p \in Pcpus :
                cur[p] = v /\ fpu_dirtied[v] => Content(v, c) = regs[p][c]
  <1>1. ~fpu_dirtied[v] => Content(v, c) = xsave_area[v][c]
    BY DEF Content
  <1>2. ASSUME NEW p \in Pcpus, cur[p] = v, fpu_dirtied[v]
        PROVE  Content(v, c) = regs[p][c]
    <2>1. \A q \in Pcpus : cur[q] = cur[p] => q = p
      BY <1>2, VcpuAssumption DEF IInv, OnePlace
    <2>2. Where(v) = p
      BY <1>2, <2>1, WhereIs DEF Where
    <2>3. QED BY <1>2, <2>2 DEF Content
  <1>3. QED BY <1>1, <1>2

\* The same in the next state.
LEMMA ContentIsNext ==
    ASSUME IInv', NEW v \in Vcpus, NEW c
    PROVE  /\ ~fpu_dirtied'[v] => Content(v, c)' = xsave_area'[v][c]
           /\ \A p \in Pcpus :
                cur'[p] = v /\ fpu_dirtied'[v] => Content(v, c)' = regs'[p][c]
  <1>1. ~fpu_dirtied'[v] => Content(v, c)' = xsave_area'[v][c]
    BY DEF Content
  <1>2. ASSUME NEW p \in Pcpus, cur'[p] = v, fpu_dirtied'[v]
        PROVE  Content(v, c)' = regs'[p][c]
    <2>1. \A q \in Pcpus : cur'[q] = cur'[p] => q = p
      BY <1>2, VcpuAssumption DEF IInv, OnePlace
    <2>2. Where(v)' = p
      BY <1>2, <2>1, WhereIs DEF Where
    <2>3. QED BY <1>2, <2>2 DEF Content
  <1>3. QED BY <1>1, <1>2

\* A vCPU keeps its contents in a step that leaves its dirty registers, or its
\* save area, as they are.
LEMMA ContentKept ==
    ASSUME IInv, IInv', NEW v \in Vcpus, NEW c,
           fpu_dirtied'[v] = fpu_dirtied[v],
           ~fpu_dirtied[v] => xsave_area'[v][c] = xsave_area[v][c],
           \A p \in Pcpus : fpu_dirtied[v] /\ cur[p] = v
                => cur'[p] = v /\ regs'[p][c] = regs[p][c]
    PROVE  Content(v, c)' = Content(v, c)
  <1>1. CASE ~fpu_dirtied[v] BY <1>1, ContentIs, ContentIsNext
  <1>2. CASE fpu_dirtied[v]
    <2>1. PICK p \in Pcpus : cur[p] = v BY <1>2 DEF IInv, DirtyIsLoaded
    <2>2. cur'[p] = v /\ regs'[p][c] = regs[p][c] BY <1>2, <2>1
    <2>3. Content(v, c) = regs[p][c] BY <1>2, <2>1, ContentIs
    <2>4. fpu_dirtied'[v] BY <1>2
    <2>5. Content(v, c)' = regs'[p][c] BY <2>2, <2>4, ContentIsNext
    <2>6. QED BY <2>2, <2>3, <2>5
  <1>3. QED BY <1>1, <1>2

\* Saving moves the contents of the vCPU from the registers to the area.
LEMMA SaveKeeps ==
    ASSUME IInv, IInv', NEW p \in Pcpus, Running(p), _vcpu_save_fpu(p, cur[p]),
           UNCHANGED regs, \A q \in Pcpus \ {p} : cur'[q] = cur[q],
           NEW v \in Nonlazy, NEW c \in XSTATE_FP_SSE
    PROVE  Content(v, c)' = Content(v, c)
  <1>1. /\ \A w \in Vcpus \ {cur[p]} :
                xsave_area'[w] = xsave_area[w] /\ fpu_dirtied'[w] = fpu_dirtied[w]
        /\ fpu_dirtied'[cur[p]] = FALSE
        /\ cur[p] \in Nonlazy => xsave_area'[cur[p]][c] =
                IF fpu_dirtied[cur[p]] THEN regs[p][c] ELSE xsave_area[cur[p]][c]
    BY SaveEffect
  <1>2. CASE v = cur[p]
    BY <1>1, <1>2, VcpuAssumption, ContentIs, ContentIsNext DEF IInv, FpuTypeOK
  <1>3. CASE v # cur[p]
    BY <1>1, <1>3, VcpuAssumption, ContentKept
  <1>4. QED BY <1>2, <1>3

\* The steps after which every vCPU has what it had.
LEMMA StutterSteps ==
    ASSUME IInv, IInv', NEW p \in Pcpus,
           \/ \E v \in Vcpus : SwitchIn(p, v)
           \/ SwitchOut(p) \/ XenEnter(p) \/ XenLeave(p)
           \/ GuestTrap(p) \/ GuestSetTs(p)
    PROVE  UNCHANGED <<File, event>>
  <1>1. SUFFICES ASSUME NEW v \in Nonlazy, NEW c \in XSTATE_FP_SSE
                 PROVE  Content(v, c)' = Content(v, c)
    BY DEF File, SwitchIn, SwitchOut, XenEnter, XenLeave, GuestTrap, GuestSetTs
  <1>v. v \in Vcpus BY VcpuAssumption
  <1>2. ASSUME NEW w \in Vcpus, SwitchIn(p, w) PROVE Content(v, c)' = Content(v, c)
    BY <1>2, <1>v, ContentKept, VcpuAssumption DEF SwitchIn, IInv, FpuTypeOK
  <1>3. CASE SwitchOut(p)
    <2>1. /\ Running(p) /\ _vcpu_save_fpu(p, cur[p]) /\ UNCHANGED regs
          /\ \A q \in Pcpus \ {p} : cur'[q] = cur[q]
      BY <1>3 DEF SwitchOut, vcpu_save_fpu, IInv, FpuTypeOK
    <2>2. QED BY <2>1, SaveKeeps
  <1>4. CASE XenEnter(p)
    <2>1. /\ Running(p) /\ _vcpu_save_fpu(p, cur[p]) /\ UNCHANGED regs
          /\ \A q \in Pcpus \ {p} : cur'[q] = cur[q]
      BY <1>4 DEF XenEnter, save_fpu_enable, IInv, FpuTypeOK
    <2>2. QED BY <2>1, SaveKeeps
  <1>5. CASE XenLeave(p)
    <2>1. fpu_dirtied[v] => cur[p] # v
      BY <1>5, VcpuAssumption DEF XenLeave, IInv, DirtyIsLoaded, OnePlace
    <2>2. \A q \in Pcpus \ {p} : regs'[q] = regs[q]
      BY <1>5 DEF XenLeave, IInv, FpuTypeOK
    <2>3. QED BY <1>5, <1>v, <2>1, <2>2, ContentKept DEF XenLeave
  <1>6. CASE GuestTrap(p)
    <2> DEFINE r == Merge(regs[p], xsave_area[cur[p]], fpu_xrstor(XSTATE_LAZY))
    <2>1. CASE fpu_dirtied[cur[p]]
      BY <1>6, <1>v, <2>1, ContentKept DEF GuestTrap, vcpu_restore_fpu_lazy
    <2>2. CASE ~fpu_dirtied[cur[p]]
      <3>1. /\ cur[p] \in Vcpus
            /\ regs' = [regs EXCEPT ![p] = r]
            /\ fpu_dirtied' = [fpu_dirtied EXCEPT ![cur[p]] = TRUE]
            /\ UNCHANGED <<cur, xsave_area>>
        BY <1>6, <2>2 DEF GuestTrap, vcpu_restore_fpu_lazy, Running, IInv, FpuTypeOK
      <3>2. r[c] = regs[p][c]
        BY <3>1, MergeIs, MaskFacts DEF fpu_xrstor, XSTATE_LAZY, IInv, FpuTypeOK
      <3> HIDE DEF r
      <3>3. CASE v = cur[p]
        <4>1. regs[p][c] = xsave_area[v][c]
          BY <1>6, <2>2, <3>3 DEF GuestTrap, IInv, NonlazyLoaded
        <4>2. QED BY <1>v, <2>2, <3>1, <3>2, <3>3, <4>1, ContentIs, ContentIsNext
                  DEF IInv, FpuTypeOK
      <3>4. CASE v # cur[p]
        BY <1>v, <3>1, <3>4, ContentKept DEF IInv, FpuTypeOK
      <3>5. QED BY <3>3, <3>4
    <2>3. QED BY <2>1, <2>2
  <1>7. CASE GuestSetTs(p) BY <1>7, <1>v, ContentKept DEF GuestSetTs
  <1>8. QED BY <1>2, <1>3, <1>4, <1>5, <1>6, <1>7

\* Reading gives the vCPU its own contents.
LEMMA ReadStep ==
    ASSUME IInv, IInv', NEW p \in Pcpus, NEW c \in XSTATE_FP_SSE, GuestRead(p, c)
    PROVE  [Files!Next]_<<File, event>>
  <1>1. /\ cur[p] \in Vcpus /\ fpu_dirtied[cur[p]]
        /\ cur[p] \in Nonlazy => event' = <<"read", cur[p], c, regs[p][c]>>
        /\ cur[p] \notin Nonlazy => event' = event
    BY DEF GuestRead, Observe, Running, IInv, FpuTypeOK, UsableMeansRestored
  <1>2. UNCHANGED File
    <2>1. \A v \in Nonlazy, d \in XSTATE_FP_SSE : Content(v, d)' = Content(v, d)
      BY VcpuAssumption, ContentKept DEF GuestRead
    <2>2. QED BY <2>1 DEF File
  <1>3. CASE cur[p] \in Nonlazy
    <2>1. regs[p][c] = File[cur[p]][c]
      BY <1>1, <1>3, ContentIs DEF File
    <2>2. Files!Read(cur[p], c)
      BY <1>1, <1>2, <1>3, <2>1 DEF Files!Read
    <2>3. QED BY <1>3, <2>2 DEF Files!Next
  <1>4. CASE cur[p] \notin Nonlazy
    BY <1>1, <1>2, <1>4
  <1>5. QED BY <1>3, <1>4

\* Writing changes the contents of the vCPU and of no other.
LEMMA WriteStep ==
    ASSUME IInv, IInv', NEW p \in Pcpus, NEW c \in XSTATE_FP_SSE, NEW x \in Data,
           GuestWrite(p, c, x)
    PROVE  [Files!Next]_<<File, event>>
  <1> DEFINE v == cur[p]
  <1>1. /\ v \in Vcpus /\ fpu_dirtied[v]
        /\ regs' = [regs EXCEPT ![p] = [regs[p] EXCEPT ![c] = x]]
        /\ v \in Nonlazy => event' = <<"write", v, c, x>>
        /\ v \notin Nonlazy => event' = event
        /\ UNCHANGED <<cur, fpu_dirtied, xsave_area>>
    BY DEF GuestWrite, Observe, Running, IInv, FpuTypeOK, UsableMeansRestored
  <1>2. \A w \in Nonlazy, d \in XSTATE_FP_SSE :
            Content(w, d)' = IF w = v /\ d = c THEN x ELSE Content(w, d)
    <2>1. SUFFICES ASSUME NEW w \in Nonlazy, NEW d \in XSTATE_FP_SSE
                   PROVE  Content(w, d)' = IF w = v /\ d = c THEN x ELSE Content(w, d)
      OBVIOUS
    <2>2. w \in Vcpus BY VcpuAssumption
    <2>3. CASE w = v
      <3>1. Content(w, d) = regs[p][d] /\ Content(w, d)' = regs'[p][d]
        BY <1>1, <2>3, ContentIs, ContentIsNext
      <3>2. regs'[p][d] = IF d = c THEN x ELSE regs[p][d]
        BY <1>1, MaskFacts DEF IInv, FpuTypeOK, Contents
      <3>3. QED BY <2>3, <3>1, <3>2
    <2>4. CASE w # v
      BY <1>1, <2>2, <2>4, ContentKept DEF IInv, FpuTypeOK
    <2>5. QED BY <2>3, <2>4
  <1>3. CASE v \in Nonlazy
    <2>1. File' = [File EXCEPT ![v] = [File[v] EXCEPT ![c] = x]]
      BY <1>2, <1>3 DEF File
    <2>2. Files!Write(v, c, x)
      BY <1>1, <1>3, <2>1 DEF Files!Write
    <2>3. QED BY <1>3, <2>2 DEF Files!Next
  <1>4. CASE v \notin Nonlazy
    <2>1. UNCHANGED File BY <1>2, <1>4 DEF File
    <2>2. QED BY <1>1, <1>4, <2>1
  <1>5. QED BY <1>3, <1>4

\* A vCPU that goes leaves the others alone; a new one starts from Reset.
LEMMA VcpuStep ==
    ASSUME IInv, IInv', NEW v \in Vcpus, vcpu_destroy_fpu(v) \/ CreateVcpu(v)
    PROVE  [Files!Next]_<<File, event>>
  <1>1. CASE vcpu_destroy_fpu(v)
    <2>1. \A w \in Nonlazy, c \in XSTATE_FP_SSE : Content(w, c)' = Content(w, c)
      BY <1>1, VcpuAssumption, ContentKept DEF vcpu_destroy_fpu
    <2>2. QED BY <1>1, <2>1 DEF File, vcpu_destroy_fpu
  <1>2. CASE CreateVcpu(v)
    <2>1. /\ fpu_dirtied' = [fpu_dirtied EXCEPT ![v] = FALSE]
          /\ xsave_area' = [xsave_area EXCEPT ![v] = [c \in Components |-> Reset]]
          /\ v \in Nonlazy => event' = <<"create", v>>
          /\ v \notin Nonlazy => event' = event
          /\ UNCHANGED <<cur, regs>>
      BY <1>2 DEF CreateVcpu, Observe
    <2>2. ASSUME NEW w \in Nonlazy, NEW c \in XSTATE_FP_SSE
          PROVE  Content(w, c)' = IF w = v THEN Reset ELSE Content(w, c)
      <3>1. w \in Vcpus BY VcpuAssumption
      <3>2. CASE w = v
        <4>1. fpu_dirtied'[w] = FALSE /\ xsave_area'[w][c] = Reset
          BY <2>1, <3>2, MaskFacts DEF IInv, FpuTypeOK
        <4>2. QED BY <3>1, <3>2, <4>1, ContentIsNext
      <3>3. CASE w # v
        BY <2>1, <3>1, <3>3, ContentKept DEF IInv, FpuTypeOK
      <3>4. QED BY <3>2, <3>3
    <2>3. CASE v \in Nonlazy
      <3>1. File' = [File EXCEPT ![v] = [c \in XSTATE_FP_SSE |-> Reset]]
        BY <2>2, <2>3 DEF File
      <3>2. Files!Create(v) BY <2>1, <2>3, <3>1 DEF Files!Create
      <3>3. QED BY <2>3, <3>2 DEF Files!Next
    <2>4. CASE v \notin Nonlazy
      <3>1. UNCHANGED File BY <2>2, <2>4 DEF File
      <3>2. QED BY <2>1, <2>4, <3>1
    <2>5. QED BY <2>3, <2>4
  <1>3. QED BY <1>1, <1>2

\* A vCPU with nonlazy state has registers of its own: over all switches,
\* traps and uses of the FPU by Xen, it reads what it wrote last.
THEOREM FpuRefines == FpuSpec => ImplementsRegisterFiles
  <1>1. FpuInit => Files!Init
    <2>1. ASSUME FpuInit, NEW v \in Nonlazy, NEW c \in XSTATE_FP_SSE
          PROVE  Content(v, c) = Reset
      BY <2>1, VcpuAssumption, MaskFacts DEF FpuInit, Content
    <2>2. QED BY <2>1 DEF FpuInit, Files!Init, File
  <1>2. IInv /\ IInv' /\ [FpuNext]_fpuVars => [Files!Next]_<<File, event>>
    <2>1. SUFFICES ASSUME IInv, IInv', [FpuNext]_fpuVars
                   PROVE  [Files!Next]_<<File, event>>
      OBVIOUS
    <2>2. CASE UNCHANGED fpuVars
      BY <2>2 DEF fpuVars, File, Content, Where
    <2>3. QED
      BY <2>1, <2>2, StutterSteps, ReadStep, WriteStep, VcpuStep DEF FpuNext, GuestStep
  <1>3. IInv /\ [FpuNext]_fpuVars => IInv' BY NextIInv
  <1>4. QED BY <1>1, <1>2, <1>3, InitIInv, PTL DEF FpuSpec, ImplementsRegisterFiles, Files!Spec
=============================================================================
