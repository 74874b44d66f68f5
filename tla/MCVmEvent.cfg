\* Two vCPUs with two events under way, memory that malloc returns zeroed or
\* not; segments of 1 byte, 4 KiB, 1 MiB, a page more, and 2 GiB; domctls of
\* every kind, on a platform that cannot report descriptor access.
CONSTANTS
    N = 2
    Regs = {"cr3", "msr"}
    Fresh <- MCFresh
    AnswerFlags <- MCAnswerFlags
    MaxEvents = 2
    Limits = {0, 4095, 4096, 1048575, 1052671, 2147483647}
    Crs = {"cr0", "cr3", "cr4"}
    Msrs = {"low", "other"}
    Masks = {0, 1}
    DescSupported = FALSE
SPECIFICATION MCSpec
INVARIANTS
    NoNullDereference
    NoLeak
    WritesAsAnswered
    
    SegmentPacked
    PausesBalanced
    SettledWhileRunning
PROPERTIES
    AnswerStands
