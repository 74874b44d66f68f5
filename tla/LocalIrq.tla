------------------------------ MODULE LocalIrq ------------------------------
(***************************************************************************)
(* The interrupt flag of the one CPU Mini-OS runs on, as lock.c uses it.   *)
(* local_irq_save and local_irq_restore are not in the repository          *)
(* (lock_verified.c declares empty stand-ins), so this module is external: *)
(* saving stores the flag in the caller's local and masks interrupts,      *)
(* restoring puts the stored value back.  A thread that runs with          *)
(* interrupts masked cannot be preempted; while nobody does, any thread    *)
(* may take the next step.                                                 *)
(***************************************************************************)
CONSTANTS
    Threads,
    NoThread    \* stands for NULL, and for "interrupts are not masked"

ASSUME NoThreadAssumption == NoThread \notin Threads

VARIABLES
    irqOff,     \* the thread running with interrupts masked, or NoThread
    flags       \* the callers' locals: were interrupts masked at the save?

irqVars == <<irqOff, flags>>

IrqTypeOK ==
    /\ irqOff \in Threads \cup {NoThread}
    /\ flags \in [Threads -> BOOLEAN]

IrqInit ==
    /\ irqOff = NoThread
    /\ flags = [t \in Threads |-> FALSE]

\* Thread t can be the one that executes now.
CanRun(t) == irqOff \in {t, NoThread}

local_irq_save(t) ==
    /\ flags' = [flags EXCEPT ![t] = (irqOff = t)]
    /\ irqOff' = t

local_irq_restore(t) ==
    /\ irqOff' = IF flags[t] THEN t ELSE NoThread
    /\ UNCHANGED flags
=============================================================================
