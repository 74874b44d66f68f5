\* The lock lives in memory that was not zeroed before ___lock_init_recursive.
CONSTANTS
    Threads = {t1, t2}
    NoThread = NoThread
    MaxDepth = 2
    InitCounts = {0, 1}
SPECIFICATION Spec
INVARIANT
    FreeWhenReleased
