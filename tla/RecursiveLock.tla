--------------------------- MODULE RecursiveLock ---------------------------
(***************************************************************************)
(* The recursive lock of Mini-OS (src/lock_verified.c, functions           *)
(* ___lock_init_recursive, ___lock_acquire_recursive,                      *)
(* ___lock_try_acquire_recursive, ___lock_release_recursive), one action   *)
(* per access to the shared lock.  lock->count is counted up and down with *)
(* interrupts on, as a load and a store: only the owner may touch it.      *)
(***************************************************************************)
EXTENDS LocalIrq, Integers

CONSTANTS
    MaxDepth,   \* how deep the callers nest (the code assumes < INT_MAX)
    InitCounts  \* what lock->count may hold when the lock is initialised

ASSUME DepthAssumption == MaxDepth \in Nat

ASSUME CountAssumption == InitCounts \subseteq Nat

VARIABLES
    owner,      \* lock->owner; NoThread is NULL
    count,      \* lock->count
    pc,         \* control point of each thread
    reg,        \* the value of count a thread has loaded
    caller,     \* history: had the caller masked interrupts before the call?
    held        \* what the callers know: acquisitions granted, less releases

vars == <<irqOff, flags, owner, count, pc, reg, caller, held>>

AcqPcs == {"acq_check", "acq_save", "acq_test", "acq_retry", "acq_own",
           "acq_restore", "acq_load", "acq_store"}
TryPcs == {"try_save", "try_test", "try_own", "try_load", "try_store",
           "try_won", "try_lost"}
RelPcs == {"rel_check", "rel_load", "rel_store", "rel_save", "rel_clear",
           "rel_restore"}
Pcs    == {"idle", "bug"} \cup AcqPcs \cup TryPcs \cup RelPcs

TypeOK ==
    /\ IrqTypeOK
    /\ owner \in Threads \cup {NoThread}
    /\ count \in Nat
    /\ pc \in [Threads -> Pcs]
    /\ reg \in [Threads -> Nat]
    /\ caller \in [Threads -> BOOLEAN]
    /\ held \in [Threads -> Nat]

\* ___lock_init_recursive sets the owner and the wait queue; lock->count
\* keeps whatever the memory of the lock held.
Init ==
    /\ IrqInit
    /\ owner = NoThread
    /\ count \in InitCounts
    /\ pc = [t \in Threads |-> "idle"]
    /\ reg = [t \in Threads |-> 0]
    /\ caller = [t \in Threads |-> FALSE]
    /\ held = [t \in Threads |-> 0]

-----------------------------------------------------------------------------
(* Steps of a lock function *)

Goto(t, from, to) ==
    /\ CanRun(t)
    /\ pc[t] = from
    /\ pc' = [pc EXCEPT ![t] = to]

Load(t) ==
    /\ reg' = [reg EXCEPT ![t] = count]
    /\ UNCHANGED <<irqVars, owner, count, caller, held>>

\* An outermost release counts as done for the caller once it has returned.
Granted(t) == held' = [held EXCEPT ![t] = @ + 1]
Returned(t) == held' = [held EXCEPT ![t] = @ - 1]

\* Mutant: any owner will do.
AcqCheckOwned(t) ==
    /\ \/ owner # NoThread /\ Goto(t, "acq_check", "acq_load")
       \/ owner = NoThread /\ Goto(t, "acq_check", "acq_save")
    /\ UNCHANGED <<irqVars, owner, count, reg, caller, held>>

AcqCheck(t) ==
    /\ \/ owner = t /\ Goto(t, "acq_check", "acq_load")
       \/ owner # t /\ Goto(t, "acq_check", "acq_save")
    /\ UNCHANGED <<irqVars, owner, count, reg, caller, held>>

\* Mutant: the owner is tested with interrupts still on.
AcqSaveNot(t) ==
    /\ Goto(t, "acq_save", "acq_test")
    /\ flags' = [flags EXCEPT ![t] = (irqOff = t)]
    /\ UNCHANGED <<irqOff, owner, count, reg, caller, held>>

AcqSave(t) ==
    /\ Goto(t, "acq_save", "acq_test")
    /\ local_irq_save(t)
    /\ UNCHANGED <<owner, count, reg, caller, held>>

AcqTest(t) ==
    /\ \/ owner = NoThread /\ Goto(t, "acq_test", "acq_own")
       \/ owner # NoThread /\ Goto(t, "acq_test", "acq_retry")
    /\ UNCHANGED <<irqVars, owner, count, reg, caller, held>>

AcqRetry(t) ==
    /\ Goto(t, "acq_retry", "acq_save")
    /\ local_irq_restore(t)
    /\ UNCHANGED <<owner, count, reg, caller, held>>

AcqOwn(t) ==
    /\ Goto(t, "acq_own", "acq_restore")
    /\ owner' = t
    /\ UNCHANGED <<irqVars, count, reg, caller, held>>

AcqRestore(t) ==
    /\ Goto(t, "acq_restore", "acq_load")
    /\ local_irq_restore(t)
    /\ UNCHANGED <<owner, count, reg, caller, held>>

AcqLoad(t) == Goto(t, "acq_load", "acq_store") /\ Load(t)

AcqStore(t) ==
    /\ Goto(t, "acq_store", "idle")
    /\ count' = reg[t] + 1
    /\ Granted(t)
    /\ UNCHANGED <<irqVars, owner, reg, caller>>

TrySave(t) ==
    /\ Goto(t, "try_save", "try_test")
    /\ local_irq_save(t)
    /\ UNCHANGED <<owner, count, reg, caller, held>>

TryTest(t) ==
    /\ \/ owner = NoThread /\ Goto(t, "try_test", "try_own")
       \/ owner # NoThread /\ Goto(t, "try_test", "try_lost")
    /\ UNCHANGED <<irqVars, owner, count, reg, caller, held>>

TryOwn(t) ==
    /\ Goto(t, "try_own", "try_load")
    /\ owner' = t
    /\ UNCHANGED <<irqVars, count, reg, caller, held>>

TryLoad(t) == Goto(t, "try_load", "try_store") /\ Load(t)

TryStore(t) ==
    /\ Goto(t, "try_store", "try_won")
    /\ count' = reg[t] + 1
    /\ UNCHANGED <<irqVars, owner, reg, caller, held>>

TryRestore(t) ==
    /\ \/ Goto(t, "try_won", "idle") /\ Granted(t)
       \/ Goto(t, "try_lost", "idle") /\ UNCHANGED held
    /\ local_irq_restore(t)
    /\ UNCHANGED <<owner, count, reg, caller>>

\* BUG_ON(lock->owner != get_current()) stops the thread for good.
RelCheck(t) ==
    /\ \/ owner = t /\ Goto(t, "rel_check", "rel_load")
       \/ owner # t /\ Goto(t, "rel_check", "bug")
    /\ UNCHANGED <<irqVars, owner, count, reg, caller, held>>

RelLoad(t) == Goto(t, "rel_load", "rel_store") /\ Load(t)

\* Mutant: the owner is given up at every release, not only the outermost.
RelStoreAlwaysFrees(t) ==
    /\ Goto(t, "rel_store", "rel_save")
    /\ count' = reg[t] - 1
    /\ UNCHANGED <<irqVars, owner, reg, caller, held>>

RelStore(t) ==
    /\ count' = reg[t] - 1
    /\ \/ reg[t] # 1 /\ Goto(t, "rel_store", "idle") /\ Returned(t)
       \/ reg[t] = 1 /\ Goto(t, "rel_store", "rel_save") /\ UNCHANGED held
    /\ UNCHANGED <<irqVars, owner, reg, caller>>

RelSave(t) ==
    /\ Goto(t, "rel_save", "rel_clear")
    /\ local_irq_save(t)
    /\ UNCHANGED <<owner, count, reg, caller, held>>

\* Mutant: the owner stays set after the last release.
RelClearNot(t) ==
    /\ Goto(t, "rel_clear", "rel_restore")
    /\ UNCHANGED <<irqVars, owner, count, reg, caller, held>>

RelClear(t) ==
    /\ Goto(t, "rel_clear", "rel_restore")
    /\ owner' = NoThread
    /\ UNCHANGED <<irqVars, count, reg, caller, held>>

\* Mutant: interrupts are simply enabled at the end.
RelRestoreEnables(t) ==
    /\ Goto(t, "rel_restore", "idle")
    /\ Returned(t)
    /\ irqOff' = NoThread
    /\ UNCHANGED <<flags, owner, count, reg, caller>>

RelRestore(t) ==
    /\ Goto(t, "rel_restore", "idle")
    /\ Returned(t)
    /\ local_irq_restore(t)
    /\ UNCHANGED <<owner, count, reg, caller>>

Step(t) ==
    \/ AcqCheck(t) \/ AcqSave(t) \/ AcqTest(t) \/ AcqRetry(t) \/ AcqOwn(t)
    \/ AcqRestore(t) \/ AcqLoad(t) \/ AcqStore(t)
    \/ TrySave(t) \/ TryTest(t) \/ TryOwn(t) \/ TryLoad(t) \/ TryStore(t)
    \/ TryRestore(t)
    \/ RelCheck(t) \/ RelLoad(t) \/ RelStore(t) \/ RelSave(t) \/ RelClear(t)
    \/ RelRestore(t)

-----------------------------------------------------------------------------
(* The callers, which are not in the repository: they release what they     *)
(* were granted, nest at most MaxDepth deep, and never spin with interrupts *)
(* masked (a nested acquisition does not spin).                             *)

Call(t, to) ==
    /\ Goto(t, "idle", to)
    /\ caller' = [caller EXCEPT ![t] = (irqOff = t)]
    /\ UNCHANGED <<irqVars, owner, count, reg, held>>

CallAcquire(t) ==
    /\ irqOff # t \/ held[t] > 0
    /\ held[t] < MaxDepth
    /\ Call(t, "acq_check")

CallTryAcquire(t) == held[t] < MaxDepth /\ Call(t, "try_save")

CallRelease(t) == held[t] > 0 /\ Call(t, "rel_check")

Mask(t) ==
    /\ pc[t] = "idle"
    /\ irqOff = NoThread
    /\ irqOff' = t
    /\ UNCHANGED <<flags, owner, count, pc, reg, caller, held>>

Unmask(t) ==
    /\ pc[t] = "idle"
    /\ irqOff = t
    /\ irqOff' = NoThread
    /\ UNCHANGED <<flags, owner, count, pc, reg, caller, held>>

Next ==
    \E t \in Threads :
        \/ Step(t)
        \/ CallAcquire(t) \/ CallTryAcquire(t) \/ CallRelease(t)
        \/ Mask(t) \/ Unmask(t)

Spec == Init /\ [][Next]_vars

\* As in PlainLock.
Fairness ==
    \A t \in Threads :
        SF_vars(Step(t)) /\ SF_vars(CallRelease(t)) /\ SF_vars(Unmask(t))

FairSpec == Spec /\ Fairness

-----------------------------------------------------------------------------
(* Properties *)

\* A thread that was granted the lock owns it until its last release clears
\* the owner: nobody else is granted it meanwhile, and the BUG_ON of the
\* release never fires.
OwnerHolds ==
    /\ \A t \in Threads :
          held[t] > 0 /\ pc[t] # "rel_restore" => owner = t
    /\ \A t \in Threads : pc[t] # "bug"

\* The lock is free once it was released as often as it was acquired: the
\* owner is cleared by the release that brings count back to zero.
FreeWhenReleased ==
    (\A t \in Threads : pc[t] = "idle" /\ held[t] = 0) => owner = NoThread

\* With every function returned, count is the nesting depth of the owner: no
\* update made with interrupts on is lost.
CountIsDepth ==
    (\A t \in Threads : pc[t] = "idle")
        => count = IF owner = NoThread THEN 0 ELSE held[owner]

\* A function returns with the interrupt flag as its caller left it.
IrqRestored ==
    [][\A t \in Threads :
          pc[t] # "idle" /\ pc'[t] = "idle" => (irqOff' = t <=> caller[t])]_vars

\* While a thread wants the lock, somebody gets it.
Progress ==
    (\E t \in Threads : pc[t] \in AcqPcs) ~> (\E t \in Threads : held[t] > 0)

\* The lock implements a recursive mutual exclusion: it is entered where the
\* count goes up and left where it goes down; the last release leaves it when
\* the owner is cleared.
depth == [t \in Threads |->
            IF owner # t THEN 0
            ELSE IF pc[t] \in {"rel_save", "rel_clear"} THEN 1 ELSE count]

Abstract == INSTANCE Mutex WITH depth <- depth

ImplementsMutex == Abstract!Spec
=============================================================================
