\* The plain lock: three threads, one inside, one spinning, one trying.
\* The recursive lock: two threads that nest twice; its memory was zeroed
\* before its init.
CONSTANTS
    PlainThreads = {t1, t2, t3}
    Threads = {t1, t2}
    NoThread = NoThread
    MaxDepth = 2
    InitCounts = {0}
SPECIFICATION MCSpec
INVARIANTS
    MutualExclusion
    OwnerHolds
    CountIsDepth
PROPERTIES
    PlainIrqRestored
    NonBlocking
    PlainProgress
    IrqRestored
    Progress
    ImplementsMutex
