-------------------------- MODULE PlainLockProofs --------------------------
(***************************************************************************)
(* Proofs about PlainLock for any set of threads.                          *)
(*                                                                         *)
(* Mutual exclusion is not inductive: it needs that a thread which found   *)
(* the lock free still runs with interrupts masked when it sets busy, so   *)
(* that nobody can have set it meanwhile.                                  *)
(***************************************************************************)
EXTENDS PlainLock, TLAPS

MaskedPcs ==
    {"acq_test", "acq_retry", "acq_set", "acq_restore", "try_test",
     "try_set", "try_won", "try_lost", "rel_clear", "rel_restore"}

\* Between a save and its restore the thread keeps the CPU.
SectionMasked == \A t \in Threads : pc[t] \in MaskedPcs => irqOff = t

\* A thread that saw the lock free will find it free when it takes it.
StillFree == \A t \in Threads : pc[t] \in {"acq_set", "try_set"} => busy = 0

BusyIffHeld == busy = 1 <=> \E t \in Threads : Holds(t)

\* The saved flag is the caller's, also after turns of the retry loop.
FlagsAreCallers ==
    \A t \in Threads :
        /\ pc[t] \in MaskedPcs => flags[t] = caller[t]
        /\ pc[t] \in {"acq_save", "try_save", "rel_save"}
               => (irqOff = t <=> caller[t])

IInv ==
    /\ TypeOK
    /\ SectionMasked
    /\ StillFree
    /\ BusyIffHeld
    /\ MutualExclusion
    /\ FlagsAreCallers

-----------------------------------------------------------------------------
\* The initial state satisfies the inductive invariant.
LEMMA InitIInv == Init => IInv
  BY NoThreadAssumption
  DEF Init, IrqInit, IInv, TypeOK, IrqTypeOK, SectionMasked, StillFree,
      BusyIffHeld, MutualExclusion, FlagsAreCallers, Holds, Pcs, MaskedPcs

\* Every step of a lock function and of a caller preserves the invariant.
LEMMA NextIInv == IInv /\ [Next]_vars => IInv'
  <1> SUFFICES ASSUME IInv, [Next]_vars PROVE IInv'
    OBVIOUS
  <1> USE NoThreadAssumption
  <1> USE DEF IInv, TypeOK, IrqTypeOK, SectionMasked, StillFree, BusyIffHeld,
              MutualExclusion, FlagsAreCallers, Holds, Pcs, AcqPcs, TryPcs,
              RelPcs, MaskedPcs, irqVars, Goto, CanRun, local_irq_save,
              local_irq_restore
  <1>1. ASSUME NEW t \in Threads, Step(t) PROVE IInv'
    <2>1. CASE AcqSave(t)     BY <2>1 DEF AcqSave
    <2>2. CASE AcqTest(t)     BY <2>2 DEF AcqTest
    <2>3. CASE AcqRetry(t)    BY <2>3 DEF AcqRetry
    <2>4. CASE AcqSet(t)      BY <2>4 DEF AcqSet
    <2>5. CASE AcqRestore(t)  BY <2>5 DEF AcqRestore
    <2>6. CASE TrySave(t)     BY <2>6 DEF TrySave
    <2>7. CASE TryTest(t)     BY <2>7 DEF TryTest
    <2>8. CASE TrySet(t)      BY <2>8 DEF TrySet
    <2>9. CASE TryRestore(t)  BY <2>9 DEF TryRestore
    <2>10. CASE RelSave(t)    BY <2>10 DEF RelSave
    <2>11. CASE RelClear(t)   BY <2>11 DEF RelClear
    <2>12. CASE RelRestore(t) BY <2>12 DEF RelRestore
    <2> QED BY <1>1, <2>1, <2>2, <2>3, <2>4, <2>5, <2>6, <2>7, <2>8, <2>9,
               <2>10, <2>11, <2>12 DEF Step
  <1>2. ASSUME NEW t \in Threads, CallAcquire(t) PROVE IInv'
    BY <1>2 DEF CallAcquire, Call
  <1>3. ASSUME NEW t \in Threads, CallTryAcquire(t) PROVE IInv'
    BY <1>3 DEF CallTryAcquire, Call
  <1>4. ASSUME NEW t \in Threads, CallRelease(t) PROVE IInv'
    BY <1>4 DEF CallRelease, Call
  <1>5. ASSUME NEW t \in Threads, Mask(t) PROVE IInv'
    BY <1>5 DEF Mask
  <1>6. ASSUME NEW t \in Threads, Unmask(t) PROVE IInv'
    BY <1>6 DEF Unmask
  <1>7. CASE UNCHANGED vars
    BY <1>7 DEF vars
  <1> QED
    BY <1>1, <1>2, <1>3, <1>4, <1>5, <1>6, <1>7 DEF Next

\* The invariant holds in every reachable state, for any set of threads.
THEOREM Invariance == Spec => []IInv
  BY InitIInv, NextIInv, PTL DEF Spec

\* The variables of lock.c's plain lock keep their types: busy is 0 or 1, and
\* a saved interrupt flag is a flag.
THEOREM TypeCorrect == Spec => []TypeOK
  BY Invariance, PTL DEF IInv

\* No two threads are ever between an acquisition and its release.
THEOREM LockExcludes == Spec => []MutualExclusion
  BY Invariance, PTL DEF IInv

-----------------------------------------------------------------------------
\* A step that leaves a lock function leaves the interrupt flag as it was when
\* the function was called.
LEMMA ReturnRestoresIrq ==
  ASSUME IInv, [Next]_vars, NEW t \in Threads,
         pc[t] \notin {"out", "in"}, pc'[t] \in {"out", "in"}
  PROVE  irqOff' = t <=> caller[t]
  <1> USE NoThreadAssumption
  <1> USE DEF IInv, TypeOK, IrqTypeOK, FlagsAreCallers, MaskedPcs, irqVars,
              Goto, CanRun, local_irq_save, local_irq_restore
  <1>1. ASSUME NEW u \in Threads, Step(u) PROVE irqOff' = t <=> caller[t]
    <2>1. u = t
      BY <1>1 DEF Step, AcqSave, AcqTest, AcqRetry, AcqSet, AcqRestore,
                  TrySave, TryTest, TrySet, TryRestore, RelSave, RelClear,
                  RelRestore
    <2>2. AcqRestore(t) \/ TryRestore(t) \/ RelRestore(t)
      BY <1>1, <2>1 DEF Step, AcqSave, AcqTest, AcqRetry, AcqSet, AcqRestore,
                  TrySave, TryTest, TrySet, TryRestore, RelSave, RelClear,
                  RelRestore
    <2>3. /\ pc[t] \in MaskedPcs
          /\ irqOff' = IF flags[t] THEN t ELSE NoThread
      BY <2>2 DEF AcqRestore, TryRestore, RelRestore
    <2> QED BY <2>3
  <1>2. ASSUME NEW u \in Threads,
               CallAcquire(u) \/ CallTryAcquire(u) \/ CallRelease(u)
                 \/ Mask(u) \/ Unmask(u)
        PROVE FALSE
    BY <1>2 DEF CallAcquire, CallTryAcquire, CallRelease, Call, Mask, Unmask
  <1>3. ~ UNCHANGED vars
    BY DEF vars
  <1> QED
    BY <1>1, <1>2, <1>3 DEF Next

\* Every return of acquire, try_acquire and release restores the caller's
\* interrupt flag.
THEOREM LockRestoresIrq == Spec => IrqRestored
  <1>1. IInv /\ [Next]_vars
          => [\A t \in Threads :
                pc[t] \notin {"out", "in"} /\ pc'[t] \in {"out", "in"}
                    => (irqOff' = t <=> caller[t])]_vars
    BY ReturnRestoresIrq
  <1> QED
    BY <1>1, Invariance, PTL DEF Spec, IrqRestored
=============================================================================
