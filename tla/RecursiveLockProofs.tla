------------------------ MODULE RecursiveLockProofs ------------------------
(***************************************************************************)
(* Proofs about RecursiveLock for any set of threads and any nesting       *)
(* depth, provided the lock's count was zero when it was initialised       *)
(* (which ___lock_init_recursive leaves to its caller).                    *)
(*                                                                         *)
(* The invariant ties the owner to the control points at which a thread    *)
(* may touch count, so that a loaded value is still current when the       *)
(* incremented or decremented one is stored.                               *)
(***************************************************************************)
EXTENDS RecursiveLock, TLAPS

MaskedPcs ==
    {"acq_test", "acq_retry", "acq_own", "acq_restore", "try_test", "try_own",
     "try_load", "try_store", "try_won", "try_lost", "rel_clear",
     "rel_restore"}

\* An acquisition that made its thread the owner and is not granted yet.
NewOwnerPcs ==
    {"acq_restore", "acq_load", "acq_store", "try_load", "try_store", "try_won"}

OwnerPcs ==
    NewOwnerPcs \cup {"rel_load", "rel_store", "rel_save", "rel_clear"}

\* Between a save and its restore the thread keeps the CPU.
SectionMasked == \A t \in Threads : pc[t] \in MaskedPcs => irqOff = t

\* The lock is free where a thread takes it, and after a thread freed it until
\* that thread unmasks interrupts.
StillFree ==
    \A t \in Threads :
        pc[t] \in {"acq_own", "try_own", "rel_restore"} => owner = NoThread

\* A thread about to change count is the owner, and the owner is a thread that
\* holds the lock or is about to be granted it.
OwnerAtWork ==
    \A t \in Threads :
        /\ pc[t] \in OwnerPcs => owner = t
        /\ owner = t => held[t] > 0 \/ pc[t] \in NewOwnerPcs

\* What the callers were granted at each control point.
HeldAt ==
    \A t \in Threads :
        /\ pc[t] \in {"acq_save", "acq_test", "acq_retry", "acq_own",
                      "acq_restore", "try_own", "try_load", "try_store",
                      "try_won"} => held[t] = 0
        /\ pc[t] \in {"rel_check", "rel_load", "rel_store"} => held[t] > 0
        /\ pc[t] \in {"rel_save", "rel_clear", "rel_restore"} => held[t] = 1

\* The acquisitions of t that count stands for.
Counted(t) ==
    IF pc[t] = "try_won" THEN 1
    ELSE IF pc[t] \in {"rel_save", "rel_clear"} THEN 0
    ELSE held[t]

\* Count is exact, and a loaded value is still the current one.
CountExact ==
    /\ owner = NoThread => count = 0
    /\ \A t \in Threads : owner = t => count = Counted(t)
    /\ \A t \in Threads :
          pc[t] \in {"acq_store", "try_store", "rel_store"} => reg[t] = count

\* The saved flag is the caller's.
FlagsAreCallers ==
    \A t \in Threads :
        /\ pc[t] \in MaskedPcs => flags[t] = caller[t]
        /\ pc[t] \notin MaskedPcs \cup {"idle"} => (irqOff = t <=> caller[t])

IInv ==
    /\ TypeOK
    /\ SectionMasked
    /\ StillFree
    /\ OwnerAtWork
    /\ HeldAt
    /\ OwnerHolds
    /\ CountExact
    /\ FlagsAreCallers

-----------------------------------------------------------------------------
\* A lock whose count was zeroed satisfies the invariant when initialised.
LEMMA InitIInv == InitCounts = {0} /\ Init => IInv
  BY NoThreadAssumption
  DEF Init, IrqInit, IInv, TypeOK, IrqTypeOK, SectionMasked, StillFree,
      OwnerAtWork, HeldAt, OwnerHolds, CountExact, FlagsAreCallers, Counted,
      Pcs, MaskedPcs, NewOwnerPcs, OwnerPcs

\* A caller that enters a lock function changes its own control point only,
\* and remembers its interrupt flag.
LEMMA CallIInv ==
  ASSUME IInv, NEW t \in Threads, NEW to \in {"acq_check", "try_save", "rel_check"},
         Call(t, to), to = "rel_check" => held[t] > 0
  PROVE  IInv'
  <1>1. /\ pc[t] = "idle" /\ pc'[t] = to
        /\ \A u \in Threads : u # t => pc'[u] = pc[u]
    BY DEF IInv, TypeOK, Call, Goto
  <1>2. caller'[t] = (irqOff = t) /\ \A u \in Threads : u # t => caller'[u] = caller[u]
    BY DEF IInv, TypeOK, Call
  <1>3. UNCHANGED <<irqOff, flags, owner, count, reg, held>>
    BY DEF Call, irqVars
  <1>4. TypeOK'
    <2>1. pc' \in [Threads -> Pcs]
      BY DEF IInv, TypeOK, Call, Goto, Pcs, AcqPcs, TryPcs, RelPcs
    <2>2. caller' \in [Threads -> BOOLEAN]
      BY DEF IInv, TypeOK, Call
    <2> QED
      BY <1>3, <2>1, <2>2 DEF IInv, TypeOK, IrqTypeOK
  <1>5. SectionMasked' /\ StillFree'
    BY <1>1, <1>3 DEF IInv, SectionMasked, StillFree, MaskedPcs
  <1>6. OwnerAtWork'
    BY <1>1, <1>3 DEF IInv, OwnerAtWork, OwnerPcs, NewOwnerPcs
  <1>7. HeldAt'
    BY <1>1, <1>3 DEF IInv, HeldAt
  <1>8. OwnerHolds'
    BY <1>1, <1>3 DEF IInv, OwnerHolds
  <1>9. CountExact'
    BY <1>1, <1>3 DEF IInv, CountExact, Counted
  <1>10. FlagsAreCallers'
    BY <1>1, <1>2, <1>3 DEF IInv, FlagsAreCallers, MaskedPcs
  <1> QED
    BY <1>4, <1>5, <1>6, <1>7, <1>8, <1>9, <1>10 DEF IInv

\* Every step of a lock function and of a caller preserves the invariant.
LEMMA NextIInv == IInv /\ [Next]_vars => IInv'
  <1> SUFFICES ASSUME IInv, [Next]_vars PROVE IInv'
    OBVIOUS
  <1>2. ASSUME NEW t \in Threads, CallAcquire(t) PROVE IInv'
    BY <1>2, CallIInv DEF CallAcquire
  <1>3. ASSUME NEW t \in Threads, CallTryAcquire(t) PROVE IInv'
    BY <1>3, CallIInv DEF CallTryAcquire
  <1>4. ASSUME NEW t \in Threads, CallRelease(t) PROVE IInv'
    BY <1>4, CallIInv DEF CallRelease
  <1> USE NoThreadAssumption
  <1> USE DEF IInv, TypeOK, IrqTypeOK, SectionMasked, StillFree, OwnerAtWork,
              HeldAt, OwnerHolds, CountExact, FlagsAreCallers, Counted, Pcs,
              AcqPcs, TryPcs, RelPcs, MaskedPcs, NewOwnerPcs, OwnerPcs,
              irqVars, Goto, CanRun, local_irq_save, local_irq_restore,
              Granted, Returned, Load
  <1>1. ASSUME NEW t \in Threads, Step(t) PROVE IInv'
    <2>1. CASE AcqCheck(t)    BY <2>1 DEF AcqCheck
    <2>2. CASE AcqSave(t)     BY <2>2 DEF AcqSave
    <2>3. CASE AcqTest(t)     BY <2>3 DEF AcqTest
    <2>4. CASE AcqRetry(t)    BY <2>4 DEF AcqRetry
    <2>5. CASE AcqOwn(t)      BY <2>5 DEF AcqOwn
    <2>6. CASE AcqRestore(t)  BY <2>6 DEF AcqRestore
    <2>7. CASE AcqLoad(t)     BY <2>7 DEF AcqLoad
    <2>8. CASE AcqStore(t)    BY <2>8 DEF AcqStore
    <2>9. CASE TrySave(t)     BY <2>9 DEF TrySave
    <2>10. CASE TryTest(t)    BY <2>10 DEF TryTest
    <2>11. CASE TryOwn(t)     BY <2>11 DEF TryOwn
    <2>12. CASE TryLoad(t)    BY <2>12 DEF TryLoad
    <2>13. CASE TryStore(t)   BY <2>13 DEF TryStore
    <2>14. CASE TryRestore(t) BY <2>14 DEF TryRestore
    <2>15. CASE RelCheck(t)   BY <2>15 DEF RelCheck
    <2>16. CASE RelLoad(t)    BY <2>16 DEF RelLoad
    <2>17. CASE RelStore(t)   BY <2>17 DEF RelStore
    <2>18. CASE RelSave(t)    BY <2>18 DEF RelSave
    <2>19. CASE RelClear(t)   BY <2>19 DEF RelClear
    <2>20. CASE RelRestore(t) BY <2>20 DEF RelRestore
    <2> QED BY <1>1, <2>1, <2>2, <2>3, <2>4, <2>5, <2>6, <2>7, <2>8, <2>9,
               <2>10, <2>11, <2>12, <2>13, <2>14, <2>15, <2>16, <2>17, <2>18,
               <2>19, <2>20 DEF Step
  <1>5. ASSUME NEW t \in Threads, Mask(t) PROVE IInv'
    BY <1>5 DEF Mask
  <1>6. ASSUME NEW t \in Threads, Unmask(t) PROVE IInv'
    BY <1>6 DEF Unmask
  <1>7. CASE UNCHANGED vars
    BY <1>7 DEF vars
  <1> QED
    BY <1>1, <1>2, <1>3, <1>4, <1>5, <1>6, <1>7 DEF Next

\* The invariant holds in every reachable state.
THEOREM Invariance == InitCounts = {0} /\ Spec => []IInv
  BY InitIInv, NextIInv, PTL DEF Spec

\* The variables of the recursive lock keep their types: from a zeroed count
\* on, --count never goes below zero.
THEOREM TypeCorrect == InitCounts = {0} /\ Spec => []TypeOK
  BY Invariance, PTL DEF IInv

\* Whoever was granted the lock owns it, and no release trips the BUG_ON.
THEOREM LockOwned == InitCounts = {0} /\ Spec => []OwnerHolds
  BY Invariance, PTL DEF IInv

\* Count is the owner's nesting depth whenever no lock function is running.
THEOREM LockCounts == InitCounts = {0} /\ Spec => []CountIsDepth
  <1>1. IInv => CountIsDepth
    BY DEF IInv, TypeOK, CountExact, Counted, CountIsDepth
  <1> QED
    BY <1>1, Invariance, PTL

\* A lock released as often as it was acquired is free.
THEOREM LockFreed == InitCounts = {0} /\ Spec => []FreeWhenReleased
  <1>1. IInv => FreeWhenReleased
    BY DEF IInv, TypeOK, OwnerAtWork, NewOwnerPcs, FreeWhenReleased
  <1> QED
    BY <1>1, Invariance, PTL

-----------------------------------------------------------------------------
\* A step that leaves a lock function leaves the interrupt flag as it was when
\* the function was called; the nested paths never touched it.
LEMMA ReturnRestoresIrq ==
  ASSUME IInv, [Next]_vars, NEW t \in Threads, pc[t] # "idle", pc'[t] = "idle"
  PROVE  irqOff' = t <=> caller[t]
  <1> USE NoThreadAssumption
  <1> USE DEF IInv, TypeOK, IrqTypeOK, FlagsAreCallers, MaskedPcs, irqVars,
              Goto, CanRun, local_irq_save, local_irq_restore, Load
  <1>1. ASSUME NEW u \in Threads, Step(u) PROVE irqOff' = t <=> caller[t]
    <2>1. \/ AcqStore(t) \/ RelStore(t)
          \/ TryRestore(t) \/ RelRestore(t)
      BY <1>1 DEF Step, AcqCheck, AcqSave, AcqTest, AcqRetry, AcqOwn,
           AcqRestore, AcqLoad, AcqStore, TrySave, TryTest, TryOwn, TryLoad,
           TryStore, TryRestore, RelCheck, RelLoad, RelStore, RelSave,
           RelClear, RelRestore
    <2>2. CASE AcqStore(t) \/ RelStore(t)
      BY <2>2 DEF AcqStore, RelStore
    <2>3. CASE TryRestore(t) \/ RelRestore(t)
      BY <2>3 DEF TryRestore, RelRestore
    <2> QED BY <2>1, <2>2, <2>3
  <1>2. ASSUME NEW u \in Threads,
               CallAcquire(u) \/ CallTryAcquire(u) \/ CallRelease(u)
                 \/ Mask(u) \/ Unmask(u)
        PROVE FALSE
    BY <1>2 DEF CallAcquire, CallTryAcquire, CallRelease, Call, Mask, Unmask
  <1>3. ~ UNCHANGED vars
    BY DEF vars
  <1> QED
    BY <1>1, <1>2, <1>3 DEF Next

\* Every return of a recursive lock function restores the caller's flag.
THEOREM LockRestoresIrq == InitCounts = {0} /\ Spec => IrqRestored
  <1>1. IInv /\ [Next]_vars
          => [\A t \in Threads : pc[t] # "idle" /\ pc'[t] = "idle"
                    => (irqOff' = t <=> caller[t])]_vars
    BY ReturnRestoresIrq
  <1> QED
    BY <1>1, Invariance, PTL DEF Spec, IrqRestored

-----------------------------------------------------------------------------
\* Refinement: storing an incremented count enters the abstract lock, storing
\* a decremented one that is not zero leaves it, and so does clearing the owner
\* at the end of the outermost release; all else stutters.
LEMMA StepImplements == IInv /\ [Next]_vars => [Abstract!Next]_depth
  <1> SUFFICES ASSUME IInv, [Next]_vars PROVE [Abstract!Next]_depth
    OBVIOUS
  <1> USE NoThreadAssumption
  <1> USE DEF IInv, TypeOK, IrqTypeOK, StillFree, OwnerAtWork, HeldAt,
              CountExact, Counted, NewOwnerPcs, OwnerPcs, Goto, CanRun,
              irqVars, Granted, Returned, Load
  <1>1. ASSUME NEW t \in Threads, AcqStore(t) \/ TryStore(t)
        PROVE  Abstract!Enter(t)
    <2>1. /\ owner = t /\ owner' = t
          /\ count' = count + 1
          /\ pc[t] \notin {"rel_save", "rel_clear"}
          /\ pc'[t] \notin {"rel_save", "rel_clear"}
      BY <1>1 DEF AcqStore, TryStore
    <2>2. /\ depth = [u \in Threads |-> IF u = t THEN count ELSE 0]
          /\ depth' = [u \in Threads |-> IF u = t THEN count + 1 ELSE 0]
      BY <2>1 DEF depth
    <2> QED BY <2>2 DEF Abstract!Enter
  <1>2. ASSUME NEW t \in Threads, RelStore(t), reg[t] # 1
        PROVE  Abstract!Leave(t)
    <2>1. /\ owner = t /\ owner' = t
          /\ count > 0 /\ count' = count - 1
          /\ pc[t] = "rel_store" /\ pc'[t] = "idle"
      BY <1>2 DEF RelStore
    <2>2. /\ depth = [u \in Threads |-> IF u = t THEN count ELSE 0]
          /\ depth' = [u \in Threads |-> IF u = t THEN count - 1 ELSE 0]
      BY <2>1 DEF depth
    <2> QED BY <2>1, <2>2 DEF Abstract!Leave
  <1>3. ASSUME NEW t \in Threads, RelStore(t), reg[t] = 1
        PROVE  UNCHANGED depth
    BY <1>3 DEF RelStore, depth
  <1>4. ASSUME NEW t \in Threads, RelClear(t)
        PROVE  Abstract!Leave(t)
    <2>1. /\ depth = [u \in Threads |-> IF u = t THEN 1 ELSE 0]
          /\ depth' = [u \in Threads |-> 0]
      BY <1>4 DEF RelClear, depth
    <2> QED BY <2>1 DEF Abstract!Leave
  <1>5. ASSUME NEW t \in Threads, AcqOwn(t) \/ TryOwn(t)
        PROVE  UNCHANGED depth
    <2>1. /\ owner = NoThread /\ owner' = t
          /\ count = 0 /\ count' = 0
          /\ pc'[t] \notin {"rel_save", "rel_clear"}
      BY <1>5 DEF AcqOwn, TryOwn
    <2>2. /\ depth = [u \in Threads |-> 0]
          /\ depth' = [u \in Threads |-> 0]
      BY <2>1 DEF depth
    <2> QED BY <2>2
  <1>6. ASSUME NEW t \in Threads,
               AcqCheck(t) \/ AcqSave(t) \/ AcqTest(t) \/ AcqRetry(t)
                 \/ AcqRestore(t) \/ AcqLoad(t) \/ TrySave(t) \/ TryTest(t)
                 \/ TryLoad(t) \/ TryRestore(t) \/ RelCheck(t) \/ RelLoad(t)
                 \/ RelSave(t) \/ RelRestore(t)
        PROVE  UNCHANGED depth
    <2>1. UNCHANGED <<owner, count>>
      BY <1>6 DEF AcqCheck, AcqSave, AcqTest, AcqRetry, AcqRestore, AcqLoad,
           TrySave, TryTest, TryLoad, TryRestore, RelCheck, RelLoad, RelSave,
           RelRestore
    <2>2. ASSUME NEW u \in Threads
          PROVE  pc'[u] \in {"rel_save", "rel_clear"}
                   <=> pc[u] \in {"rel_save", "rel_clear"}
      BY <1>6 DEF AcqCheck, AcqSave, AcqTest, AcqRetry, AcqRestore, AcqLoad,
           TrySave, TryTest, TryLoad, TryRestore, RelCheck, RelLoad, RelSave,
           RelRestore
    <2> QED BY <2>1, <2>2 DEF depth
  <1>7. ASSUME NEW t \in Threads,
               CallAcquire(t) \/ CallTryAcquire(t) \/ CallRelease(t)
                 \/ Mask(t) \/ Unmask(t)
        PROVE  UNCHANGED depth
    BY <1>7 DEF CallAcquire, CallTryAcquire, CallRelease, Call, Mask, Unmask,
                depth
  <1>8. CASE UNCHANGED vars
    BY <1>8 DEF vars, depth
  <1> QED
    BY <1>1, <1>2, <1>3, <1>4, <1>5, <1>6, <1>7, <1>8
    DEF Next, Step, Abstract!Next

\* The recursive lock is an implementation of recursive mutual exclusion.
THEOREM LockRefines == InitCounts = {0} /\ Spec => ImplementsMutex
  <1>1. Init => Abstract!Init
    BY NoThreadAssumption DEF Init, Abstract!Init, depth
  <1> QED
    BY <1>1, StepImplements, Invariance, PTL
    DEF Spec, ImplementsMutex, Abstract!Spec
=============================================================================
