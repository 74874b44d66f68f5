------------------------------ MODULE MCLocks ------------------------------
(***************************************************************************)
(* The two locks of Mini-OS for TLC.  Each behaviour is one of one lock    *)
(* and its callers; the other lock stays as it is initialised.             *)
(***************************************************************************)
EXTENDS RecursiveLock

CONSTANT PlainThreads    \* the threads that use the plain lock

VARIABLES part, plainIrqOff, plainFlags, busy, plainPc, plainCaller

Plain == INSTANCE PlainLock
    WITH Threads <- PlainThreads, irqOff <- plainIrqOff, flags <- plainFlags,
         pc <- plainPc, caller <- plainCaller

plainVars == <<plainIrqOff, plainFlags, busy, plainPc, plainCaller>>
allVars == <<part, vars, plainVars>>

MCInit == part \in {"plain", "recursive"} /\ Plain!Init /\ Init

IsPlain(A) == part = "plain" /\ A /\ UNCHANGED <<part, vars>>
IsRecursive(A) == part = "recursive" /\ A /\ UNCHANGED <<part, plainVars>>

MCNext == IsPlain(Plain!Next) \/ IsRecursive(Next)

\* The fairness of both modules.  No behaviour has steps of both locks, so
\* that one condition says it for either.
MCFairness ==
    \A t \in PlainThreads \cup Threads :
        /\ SF_allVars(\/ t \in PlainThreads /\ IsPlain(Plain!Step(t))
                      \/ t \in Threads /\ IsRecursive(Step(t)))
        /\ SF_allVars(\/ t \in PlainThreads /\ IsPlain(Plain!CallRelease(t))
                      \/ t \in Threads /\ IsRecursive(CallRelease(t)))
        /\ SF_allVars(\/ t \in PlainThreads /\ IsPlain(Plain!Unmask(t))
                      \/ t \in Threads /\ IsRecursive(Unmask(t)))

MCSpec == MCInit /\ [][MCNext]_allVars /\ MCFairness

-----------------------------------------------------------------------------
(* The properties of the plain lock, as PlainLock states them *)

\* Acquire and try_acquire never let two threads in.
MutualExclusion == Plain!MutualExclusion

\* The plain lock's functions return with interrupts as their caller had them.
PlainIrqRestored == Plain!IrqRestored

\* Try_acquire and release return.
NonBlocking == Plain!NonBlocking

\* A free lock that some thread spins on in ___lock_acquire is taken.
PlainProgress == Plain!Progress
=============================================================================
