----------------------------- MODULE PlainLock -----------------------------
(***************************************************************************)
(* The non-recursive lock of Mini-OS (src/lock_verified.c, functions       *)
(* ___lock_init, ___lock_acquire, ___lock_try_acquire, ___lock_release),   *)
(* one action per statement that reads or writes shared state.             *)
(*                                                                         *)
(* A thread is at "out" or "in" when it runs no lock function and does not *)
(* or does have the lock; the other control points are inside a function.  *)
(* wake_up is left out: no function of this version sleeps on the wait     *)
(* queue, so it has nobody to wake.                                        *)
(***************************************************************************)
EXTENDS LocalIrq, Integers

VARIABLES
    busy,       \* lock->busy
    pc,         \* control point of each thread
    caller      \* history: had the caller masked interrupts before the call?

vars == <<irqOff, flags, busy, pc, caller>>

AcqPcs == {"acq_save", "acq_test", "acq_retry", "acq_set", "acq_restore"}
TryPcs == {"try_save", "try_test", "try_set", "try_won", "try_lost"}
RelPcs == {"rel_save", "rel_clear", "rel_restore"}
Pcs    == {"out", "in"} \cup AcqPcs \cup TryPcs \cup RelPcs

TypeOK ==
    /\ IrqTypeOK
    /\ busy \in {0, 1}
    /\ pc \in [Threads -> Pcs]
    /\ caller \in [Threads -> BOOLEAN]

\* The state ___lock_init leaves behind, before any thread uses the lock.
Init ==
    /\ IrqInit
    /\ busy = 0
    /\ pc = [t \in Threads |-> "out"]
    /\ caller = [t \in Threads |-> FALSE]

-----------------------------------------------------------------------------
(* Steps of a lock function *)

Goto(t, from, to) ==
    /\ CanRun(t)
    /\ pc[t] = from
    /\ pc' = [pc EXCEPT ![t] = to]

\* Mutant: the test is made with interrupts still on.
AcqSaveNot(t) ==
    /\ Goto(t, "acq_save", "acq_test")
    /\ flags' = [flags EXCEPT ![t] = (irqOff = t)]
    /\ UNCHANGED <<irqOff, busy, caller>>

AcqSave(t) ==
    /\ Goto(t, "acq_save", "acq_test")
    /\ local_irq_save(t)
    /\ UNCHANGED <<busy, caller>>

AcqTest(t) ==
    /\ \/ busy = 0 /\ Goto(t, "acq_test", "acq_set")
       \/ busy # 0 /\ Goto(t, "acq_test", "acq_retry")
    /\ UNCHANGED <<irqVars, busy, caller>>

AcqRetry(t) ==
    /\ Goto(t, "acq_retry", "acq_save")
    /\ local_irq_restore(t)
    /\ UNCHANGED <<busy, caller>>

AcqSet(t) ==
    /\ Goto(t, "acq_set", "acq_restore")
    /\ busy' = 1
    /\ UNCHANGED <<irqVars, caller>>

AcqRestore(t) ==
    /\ Goto(t, "acq_restore", "in")
    /\ local_irq_restore(t)
    /\ UNCHANGED <<busy, caller>>

\* Mutant: the save happens after the test.
TrySaveNot(t) ==
    /\ Goto(t, "try_save", "try_test")
    /\ flags' = [flags EXCEPT ![t] = (irqOff = t)]
    /\ UNCHANGED <<irqOff, busy, caller>>

TrySave(t) ==
    /\ Goto(t, "try_save", "try_test")
    /\ local_irq_save(t)
    /\ UNCHANGED <<busy, caller>>

\* Mutant: a busy lock is waited for, with interrupts masked.
TryTestWaits(t) ==
    /\ \/ busy = 0 /\ Goto(t, "try_test", "try_set")
       \/ busy # 0 /\ Goto(t, "try_test", "try_test")
    /\ UNCHANGED <<irqVars, busy, caller>>

TryTest(t) ==
    /\ \/ busy = 0 /\ Goto(t, "try_test", "try_set")
       \/ busy # 0 /\ Goto(t, "try_test", "try_lost")
    /\ UNCHANGED <<irqVars, busy, caller>>

TrySet(t) ==
    /\ Goto(t, "try_set", "try_won")
    /\ busy' = 1
    /\ UNCHANGED <<irqVars, caller>>

\* Mutant: interrupts are simply enabled at the end.
TryRestoreEnables(t) ==
    /\ Goto(t, "try_won", "in") \/ Goto(t, "try_lost", "out")
    /\ irqOff' = NoThread
    /\ UNCHANGED <<flags, busy, caller>>

TryRestore(t) ==
    /\ Goto(t, "try_won", "in") \/ Goto(t, "try_lost", "out")
    /\ local_irq_restore(t)
    /\ UNCHANGED <<busy, caller>>

RelSave(t) ==
    /\ Goto(t, "rel_save", "rel_clear")
    /\ local_irq_save(t)
    /\ UNCHANGED <<busy, caller>>

\* Mutant: busy is not cleared.
RelClearNot(t) ==
    /\ Goto(t, "rel_clear", "rel_restore")
    /\ UNCHANGED <<irqVars, busy, caller>>

RelClear(t) ==
    /\ Goto(t, "rel_clear", "rel_restore")
    /\ busy' = 0
    /\ UNCHANGED <<irqVars, caller>>

RelRestore(t) ==
    /\ Goto(t, "rel_restore", "out")
    /\ local_irq_restore(t)
    /\ UNCHANGED <<busy, caller>>

Step(t) ==
    \/ AcqSave(t) \/ AcqTest(t) \/ AcqRetry(t) \/ AcqSet(t) \/ AcqRestore(t)
    \/ TrySave(t) \/ TryTest(t) \/ TrySet(t) \/ TryRestore(t)
    \/ RelSave(t) \/ RelClear(t) \/ RelRestore(t)

-----------------------------------------------------------------------------
(* The callers, which are not in the repository.  ___lock_acquire spins     *)
(* until another thread runs, so it is only called with interrupts on; the  *)
(* other two may be called either way.  Only the thread that has the lock   *)
(* releases it.                                                             *)

Call(t, from, to) ==
    /\ Goto(t, from, to)
    /\ caller' = [caller EXCEPT ![t] = (irqOff = t)]
    /\ UNCHANGED <<irqVars, busy>>

CallAcquire(t) == irqOff # t /\ Call(t, "out", "acq_save")
CallTryAcquire(t) == Call(t, "out", "try_save")
CallRelease(t) == Call(t, "in", "rel_save")

Mask(t) ==
    /\ pc[t] \in {"out", "in"}
    /\ irqOff = NoThread
    /\ irqOff' = t
    /\ UNCHANGED <<flags, busy, pc, caller>>

Unmask(t) ==
    /\ pc[t] \in {"out", "in"}
    /\ irqOff = t
    /\ irqOff' = NoThread
    /\ UNCHANGED <<flags, busy, pc, caller>>

Next ==
    \E t \in Threads :
        \/ Step(t)
        \/ CallAcquire(t) \/ CallTryAcquire(t) \/ CallRelease(t)
        \/ Mask(t) \/ Unmask(t)

(***************************************************************************)
(* A thread that is able to run again and again is scheduled (strong       *)
(* fairness: others mask interrupts in between).  Callers give the lock    *)
(* back and do not keep interrupts masked for ever.                        *)
(***************************************************************************)
Fairness ==
    \A t \in Threads :
        SF_vars(Step(t)) /\ SF_vars(CallRelease(t)) /\ SF_vars(Unmask(t))

Spec == Init /\ [][Next]_vars

FairSpec == Spec /\ Fairness

-----------------------------------------------------------------------------
(* Properties *)

\* The lock is taken where busy is set and given back where it is cleared.
Holds(t) ==
    pc[t] \in {"in", "acq_restore", "try_won", "rel_save", "rel_clear"}

\* Acquire and try_acquire never let two threads in: between the test of
\* lock->busy and its assignment no other thread gets to run.
MutualExclusion ==
    \A t, u \in Threads : Holds(t) /\ Holds(u) => t = u

\* A function returns with the interrupt flag as its caller left it, whatever
\* path it took (loop, success, failure).
IrqRestored ==
    [][\A t \in Threads :
          pc[t] \notin {"out", "in"} /\ pc'[t] \in {"out", "in"}
              => (irqOff' = t <=> caller[t])]_vars

\* Try_acquire "does not block but returns immediately" and release returns,
\* also while other threads hold the lock or mask interrupts.
NonBlocking ==
    \A t \in Threads : pc[t] \in TryPcs \cup RelPcs ~> pc[t] \in {"out", "in"}

\* A free lock that some thread spins on in ___lock_acquire is taken.
Progress ==
    (\E t \in Threads : pc[t] \in AcqPcs) ~> (\E t \in Threads : Holds(t))
=============================================================================
