------------------------------- MODULE Percpu -------------------------------
(***************************************************************************)
(* The per-CPU data areas of Xen (src/percpu_verified.c): allocated when a *)
(* CPU is prepared, freed through an RCU callback when it goes away.       *)
(*                                                                         *)
(* The callback finds the CPU it is about in one free_info structure that  *)
(* all CPUs share, and nothing in the source waits for it: a CPU may come  *)
(* back, and another may go, while it is queued.                           *)
(*                                                                         *)
(* External: the hotplug core, which notifies one event at a time;         *)
(* call_rcu, which runs a callback some time after it was queued, once for *)
(* each time; the Xen heap, which takes back an area it has given out and  *)
(* nothing else.                                                           *)
(***************************************************************************)
EXTENDS Integers

CONSTANTS
    NR_CPUS,
    Areas,      \* the blocks the Xen heap can give out
    NoArea,     \* INVALID_PERCPU_AREA
    ParkModes,  \* values of park_offline_cpus (1 in the source)
    BootArea,   \* the linker's per-CPU section, which CPU 0 uses
    MaxQueued   \* bound: callbacks that are queued at once

ASSUME CpusAssumption == NR_CPUS \in Nat \ {0}

ASSUME AreaAssumption ==
    /\ NoArea \notin Areas
    /\ BootArea \notin Areas
    /\ NoArea # BootArea

ASSUME ParkAssumption == ParkModes \subseteq BOOLEAN

ASSUME QueuedAssumption == MaxQueued \in Nat

VARIABLES
    __per_cpu_offset,   \* the area of each CPU
    heap,       \* the areas in use
    f,          \* free_info: the CPU noted last, for all callbacks
    queued,     \* callbacks handed to call_rcu and not run yet
    park_offline_cpus,
    state,      \* hotplug state of each CPU
    overlapped  \* history: CPUs whose free met, before its callback ran,
                \* the free of another CPU or the return of the CPU itself

percpuVars ==
    <<__per_cpu_offset, heap, f, queued, park_offline_cpus, state, overlapped>>

Cpus == 0 .. NR_CPUS - 1

PercpuTypeOK ==
    /\ __per_cpu_offset \in [Cpus -> Areas \cup {NoArea, BootArea}]
    /\ heap \subseteq Areas
    /\ f \in Cpus
    /\ queued \in 0..MaxQueued
    /\ park_offline_cpus \in BOOLEAN
    /\ state \in [Cpus -> {"offline", "prepared", "online", "down"}]
    /\ overlapped \subseteq Cpus

\* After percpu_init_areas: only the boot CPU has an area, the static one.
PercpuInit ==
    /\ __per_cpu_offset = [c \in Cpus |-> IF c = 0 THEN BootArea ELSE NoArea]
    /\ heap = {}
    /\ f = 0
    /\ queued = 0
    /\ park_offline_cpus \in ParkModes
    /\ state = [c \in Cpus |-> IF c = 0 THEN "online" ELSE "offline"]
    /\ overlapped = {}

-----------------------------------------------------------------------------
(* The functions of percpu.c *)

\* Mutant: an area the CPU still has is not looked for.
AlwaysAllocates(c) ==
    \E a \in Areas \ heap :
        /\ heap' = heap \cup {a}
        /\ __per_cpu_offset' = [__per_cpu_offset EXCEPT ![c] = a]

\* init_percpu_area, returning 0: the area the CPU still has, or a new one.
init_percpu_area(c) ==
    \/ /\ __per_cpu_offset[c] # NoArea
       /\ UNCHANGED <<__per_cpu_offset, heap>>
    \/ /\ __per_cpu_offset[c] = NoArea
       /\ \E a \in Areas \ heap :
             /\ heap' = heap \cup {a}
             /\ __per_cpu_offset' = [__per_cpu_offset EXCEPT ![c] = a]

\* init_percpu_area, returning -1: the heap has no pages.
InitFails(c) == __per_cpu_offset[c] = NoArea

\* The CPU a queued callback is about.
Named(c) == queued > 0 /\ f = c

\* free_percpu_area: note the CPU, queue the callback.  Callbacks that are
\* queued already are about this CPU now.
free_percpu_area(c) ==
    /\ f' = c
    /\ queued < MaxQueued /\ queued' = queued + 1
    /\ overlapped' = (overlapped \cup {d \in Cpus : Named(d)}) \ {c}

\* _free_percpu_area, run by RCU: frees the area of the CPU noted in free_info.
_free_percpu_area ==
    /\ queued > 0
    /\ queued' = queued - 1
    /\ heap' = heap \ {__per_cpu_offset[f]}
    /\ __per_cpu_offset' = [__per_cpu_offset EXCEPT ![f] = NoArea]
    /\ UNCHANGED <<f, park_offline_cpus, state, overlapped>>

\* Mutant: the two cases are exchanged.
FreeWhenSwapped(event) ==
    \/ event \in {"UP_CANCELED", "DEAD"} /\ park_offline_cpus
    \/ event = "REMOVE" /\ ~ park_offline_cpus

\* Mutant: a parked CPU's area is not freed when the CPU is removed.
FreeWhenNotParked(event) ==
    event \in {"UP_CANCELED", "DEAD"} /\ ~ park_offline_cpus

\* The events on which cpu_percpu_callback frees.
FreeWhen(event) ==
    \/ event \in {"UP_CANCELED", "DEAD"} /\ ~ park_offline_cpus
    \/ event = "REMOVE" /\ park_offline_cpus

cpu_percpu_callback(event, c) ==
    /\ \/ FreeWhen(event) /\ free_percpu_area(c)
       \/ ~ FreeWhen(event) /\ UNCHANGED <<f, queued, overlapped>>
    /\ UNCHANGED <<__per_cpu_offset, heap, park_offline_cpus>>

-----------------------------------------------------------------------------
(* The hotplug core: CPU 0 stays; a CPU that was prepared once is "down"     *)
(* afterwards, and "offline" again when it has been removed.                 *)

Moves(c, from, to) ==
    /\ c # 0
    /\ state[c] \in from
    /\ state' = [state EXCEPT ![c] = to]

\* CPU_UP_PREPARE, accepted and refused.
Prepare(c) ==
    /\ \A d \in Cpus : state[d] # "prepared"
    /\ Moves(c, {"offline", "down"}, "prepared")
    /\ init_percpu_area(c)
    /\ overlapped' = IF Named(c) THEN overlapped \cup {c} ELSE overlapped \ {c}
    /\ UNCHANGED <<f, queued, park_offline_cpus>>

PrepareFails(c) ==
    /\ \A d \in Cpus : state[d] # "prepared"
    /\ Moves(c, {"offline", "down"}, "offline")
    /\ InitFails(c)
    /\ UNCHANGED <<__per_cpu_offset, heap, f, queued, park_offline_cpus, overlapped>>

Online(c) ==
    /\ Moves(c, {"prepared"}, "online")
    /\ UNCHANGED <<__per_cpu_offset, heap, f, queued, park_offline_cpus, overlapped>>

Cancel(c) == Moves(c, {"prepared"}, "down") /\ cpu_percpu_callback("UP_CANCELED", c)
Dead(c) == Moves(c, {"online"}, "down") /\ cpu_percpu_callback("DEAD", c)
Remove(c) == Moves(c, {"down"}, "offline") /\ cpu_percpu_callback("REMOVE", c)

PercpuNext ==
    \/ \E c \in Cpus :
          \/ Prepare(c) \/ PrepareFails(c) \/ Online(c)
          \/ Cancel(c) \/ Dead(c) \/ Remove(c)
    \/ _free_percpu_area

PercpuSpec == PercpuInit /\ [][PercpuNext]_percpuVars

-----------------------------------------------------------------------------
(* Properties *)

NeedsArea(c) ==
    \/ state[c] \in {"prepared", "online"}
    \/ state[c] = "down" /\ park_offline_cpus

\* A CPU that runs, or is parked, has an area of its own that is not free,
\* whatever frees of other CPUs are queued; only a CPU that came back while
\* a callback was queued for it may lose the area it kept (lines 49, 92).
RunningHasArea ==
    \A c \in Cpus \ ({0} \cup overlapped) :
        NeedsArea(c) =>
            /\ __per_cpu_offset[c] \in heap
            /\ \A d \in Cpus \ {c} : __per_cpu_offset[d] # __per_cpu_offset[c]

\* No area is lost: what the heap has given out, some CPU points to, also
\* when a callback runs for a CPU another one has freed (lines 49-60, 89-93).
NoLeak == heap = {__per_cpu_offset[c] : c \in Cpus} \ {NoArea, BootArea}

\* The area of a CPU that was removed is reclaimed, unless the CPU comes back
\* or another one is freed before the callback runs (lines 97, 128-136).
Reclaimed ==
    \A c \in Cpus :
        state[c] = "offline" ~>
            __per_cpu_offset[c] = NoArea \/ state[c] # "offline" \/ c \in overlapped
=============================================================================
