---------------------------- MODULE PercpuProofs ----------------------------
(***************************************************************************)
(* Proofs about Percpu for any number of CPUs, any heap and any number of  *)
(* queued callbacks.                                                       *)
(*                                                                         *)
(* Every callback that is queued is about the CPU noted last.  A CPU in    *)
(* use is never that one, unless it came back while the callback was       *)
(* queued: that is what keeps its area.                                    *)
(***************************************************************************)
EXTENDS Percpu, TLAPS

\* No callback is about the boot CPU.
NotBoot == ~ Named(0)

\* CPU 0 keeps the static area, and no other CPU has it.
BootKeeps ==
    /\ state[0] = "online"
    /\ \A c \in Cpus : __per_cpu_offset[c] = BootArea <=> c = 0

\* No two CPUs have the same area.
Distinct ==
    \A c, d \in Cpus :
        c # d /\ __per_cpu_offset[c] = __per_cpu_offset[d]
            => __per_cpu_offset[c] = NoArea

\* A CPU in use has an area, and no callback is about it.
AreaSafe ==
    \A c \in Cpus \ ({0} \cup overlapped) :
        NeedsArea(c) => __per_cpu_offset[c] # NoArea /\ ~ Named(c)

IInv ==
    /\ PercpuTypeOK
    /\ NotBoot
    /\ BootKeeps
    /\ Distinct
    /\ AreaSafe
    /\ NoLeak

-----------------------------------------------------------------------------
\* The boot state satisfies the invariant.
LEMMA InitIInv == PercpuInit => IInv
  <1> SUFFICES ASSUME PercpuInit PROVE IInv
    OBVIOUS
  <1> USE CpusAssumption, AreaAssumption, ParkAssumption, QueuedAssumption
  <1>1. 0 \in Cpus
    BY DEF Cpus
  <1>2. PercpuTypeOK
    <2>1. park_offline_cpus \in BOOLEAN
      BY Zenon DEF PercpuInit
    <2>2. queued \in 0..MaxQueued
      BY DEF PercpuInit
    <2> QED BY <1>1, <2>1, <2>2 DEF PercpuInit, PercpuTypeOK
  <1>3. NotBoot /\ BootKeeps /\ Distinct
    BY <1>1 DEF PercpuInit, NotBoot, Named, BootKeeps, Distinct
  <1>4. AreaSafe
    BY <1>1 DEF PercpuInit, AreaSafe, NeedsArea, Named
  <1>5. NoLeak
    BY DEF PercpuInit, NoLeak
  <1> QED BY <1>2, <1>3, <1>4, <1>5 DEF IInv

\* A notification that frees is for a CPU that is not in use afterwards, and
\* takes the callbacks that are queued away from any other.
LEMMA CallbackIInv ==
  ASSUME IInv, NEW c \in Cpus,
         Cancel(c) \/ Dead(c) \/ Remove(c)
  PROVE  IInv'
  <1> USE CpusAssumption, AreaAssumption, QueuedAssumption
  <1> USE DEF IInv, PercpuTypeOK, NotBoot, BootKeeps, Distinct, AreaSafe,
              NoLeak, NeedsArea, Named, Cpus
  <1>1. /\ c # 0
        /\ UNCHANGED <<__per_cpu_offset, heap, park_offline_cpus>>
    BY DEF Cancel, Dead, Remove, Moves, cpu_percpu_callback
  <1>2. \/ UNCHANGED <<f, queued, overlapped>>
        \/ /\ f' = c /\ queued' = queued + 1 /\ queued < MaxQueued
           /\ overlapped' = (overlapped \cup {d \in Cpus : Named(d)}) \ {c}
    BY <1>1 DEF Cancel, Dead, Remove, cpu_percpu_callback, free_percpu_area
  <1>3. /\ state' = [state EXCEPT ![c] = state'[c]]
        /\ state'[c] \in {"offline", "down"}
        /\ NeedsArea(c)' => NeedsArea(c) /\ UNCHANGED <<f, queued, overlapped>>
    <2>1. CASE Cancel(c) \/ Dead(c)
      <3>1. /\ state[c] \in {"prepared", "online"}
            /\ state' = [state EXCEPT ![c] = "down"]
        BY <2>1 DEF Cancel, Dead, Moves
      <3>2. park_offline_cpus => UNCHANGED <<f, queued, overlapped>>
        BY <2>1 DEF Cancel, Dead, cpu_percpu_callback, FreeWhen
      <3> QED BY <1>1, <3>1, <3>2
    <2>2. CASE Remove(c)
      <3>1. state' = [state EXCEPT ![c] = "offline"]
        BY <2>2 DEF Remove, Moves
      <3> QED BY <1>1, <3>1
    <2> QED BY <2>1, <2>2
  <1>4. PercpuTypeOK' /\ NotBoot'
    BY <1>1, <1>2, <1>3
  <1>5. BootKeeps' /\ Distinct' /\ NoLeak'
    BY <1>1, <1>3
  <1>6. ASSUME NEW d \in Cpus, d # 0, d \notin overlapped', NeedsArea(d)'
        PROVE  __per_cpu_offset'[d] # NoArea /\ ~ Named(d)'
    <2>1. CASE d = c
      BY <1>1, <1>3, <1>6, <2>1
    <2>2. CASE d # c
      <3>1. NeedsArea(d) /\ d \notin overlapped
        BY <1>1, <1>2, <1>3, <1>6, <2>2
      <3> QED BY <1>1, <1>2, <1>6, <2>2, <3>1
    <2> QED BY <2>1, <2>2
  <1>7. AreaSafe'
    BY <1>6
  <1> QED BY <1>4, <1>5, <1>7

\* Preparing a CPU gives it the area it has, or one that no CPU has.
LEMMA PrepareIInv ==
  ASSUME IInv, NEW c \in Cpus,
         Prepare(c) \/ PrepareFails(c) \/ Online(c)
  PROVE  IInv'
  <1> USE CpusAssumption, AreaAssumption, QueuedAssumption
  <1> USE DEF IInv, PercpuTypeOK, NotBoot, BootKeeps, Distinct, AreaSafe,
              NoLeak, NeedsArea, Named, Cpus
  <1>1. /\ c # 0
        /\ UNCHANGED <<f, queued, park_offline_cpus>>
    BY DEF Prepare, PrepareFails, Online, Moves
  <1>2. CASE Prepare(c)
    <2>1. /\ state' = [state EXCEPT ![c] = "prepared"]
          /\ overlapped' =
                IF Named(c) THEN overlapped \cup {c} ELSE overlapped \ {c}
      BY <1>2 DEF Prepare, Moves
    <2>2. CASE __per_cpu_offset[c] # NoArea
      <3>1. UNCHANGED <<__per_cpu_offset, heap>>
        BY <1>2, <2>2 DEF Prepare, init_percpu_area
      <3> QED BY <1>1, <2>1, <2>2, <3>1
    <2>3. CASE __per_cpu_offset[c] = NoArea
      <3>1. PICK a \in Areas \ heap :
               /\ heap' = heap \cup {a}
               /\ __per_cpu_offset' = [__per_cpu_offset EXCEPT ![c] = a]
        BY <1>2, <2>3 DEF Prepare, init_percpu_area
      <3>2. \A d \in Cpus : __per_cpu_offset[d] # a
        BY <3>1
      <3>3. NoLeak'
        BY <2>3, <3>1
      <3>4. PercpuTypeOK' /\ NotBoot'
        BY <1>1, <2>1, <3>1
      <3>5. BootKeeps' /\ Distinct'
        BY <1>1, <2>1, <3>1, <3>2
      <3>6. AreaSafe'
        BY <1>1, <2>1, <3>1
      <3> QED BY <3>3, <3>4, <3>5, <3>6
    <2> QED BY <2>2, <2>3
  <1>3. CASE PrepareFails(c)
    BY <1>1, <1>3 DEF PrepareFails, InitFails, Moves
  <1>4. CASE Online(c)
    BY <1>1, <1>4 DEF Online, Moves
  <1> QED BY <1>2, <1>3, <1>4

\* The callback returns the area of the CPU noted, if there still is one.
LEMMA FreeIInv == IInv /\ _free_percpu_area => IInv'
  <1> SUFFICES ASSUME IInv, _free_percpu_area PROVE IInv'
    OBVIOUS
  <1> USE CpusAssumption, AreaAssumption, QueuedAssumption
  <1> USE DEF IInv, PercpuTypeOK, NotBoot, BootKeeps, Distinct, AreaSafe,
              NoLeak, NeedsArea, Named, Cpus
  <1>1. /\ queued > 0 /\ queued' = queued - 1
        /\ heap' = heap \ {__per_cpu_offset[f]}
        /\ __per_cpu_offset' = [__per_cpu_offset EXCEPT ![f] = NoArea]
        /\ UNCHANGED <<f, park_offline_cpus, state, overlapped>>
    BY DEF _free_percpu_area
  <1>2. f # 0
    BY <1>1
  <1>3. NoLeak'
    BY <1>1, <1>2
  <1>4. PercpuTypeOK' /\ NotBoot'
    BY <1>1, <1>2
  <1>5. BootKeeps' /\ Distinct'
    BY <1>1, <1>2
  <1>6. AreaSafe'
    BY <1>1, <1>2
  <1> QED BY <1>3, <1>4, <1>5, <1>6

\* The invariant holds in every reachable state.
LEMMA Invariance == PercpuSpec => []IInv
  <1>1. IInv /\ [PercpuNext]_percpuVars => IInv'
    <2> SUFFICES ASSUME IInv, [PercpuNext]_percpuVars PROVE IInv'
      OBVIOUS
    <2>1. CASE UNCHANGED percpuVars
      BY <2>1 DEF percpuVars, IInv, PercpuTypeOK, NotBoot, Named, BootKeeps,
                  Distinct, AreaSafe, NoLeak, NeedsArea
    <2> QED BY <2>1, CallbackIInv, PrepareIInv, FreeIInv DEF PercpuNext
  <1> QED
    BY <1>1, InitIInv, PTL DEF PercpuSpec

\* The variables of percpu.c keep their types, whatever callbacks are queued:
\* an offset is an area, the static one or INVALID_PERCPU_AREA.
THEOREM TypeCorrect == PercpuSpec => []PercpuTypeOK
  BY Invariance, PTL DEF IInv

\* A running or parked CPU has an allocated area of its own, whatever frees
\* of other CPUs are queued (cpu_percpu_callback, _free_percpu_area); the
\* CPUs left out are those that came back while a callback was queued for
\* them.
THEOREM AreasStay == PercpuSpec => []RunningHasArea
  <1>1. IInv => RunningHasArea
    BY AreaAssumption
    DEF IInv, PercpuTypeOK, BootKeeps, Distinct, AreaSafe, NoLeak,
        RunningHasArea, Cpus
  <1> QED
    BY <1>1, Invariance, PTL

\* No area is leaked: what the heap has given out, some CPU points to, in
\* whatever order CPUs come, go and are freed (init_percpu_area,
\* _free_percpu_area).
THEOREM AreasAccounted == PercpuSpec => []NoLeak
  BY Invariance, PTL DEF IInv
=============================================================================
