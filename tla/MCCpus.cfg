\* Intel: containers of up to three units: three updates may be read, and the
\* offset may rise, stay or fall.
\* AMD: seven-bit integers; lengths that are too short, just long enough,
\* longer, and that overflow to 0 and to 7 when the header is added; files
\* of nothing, less than a header, up to three patches.
\* Areas: the boot CPU and two more that share a heap with room for both and
\* for one area that is still to be freed; up to three callbacks at once.
\* FPU: two physical CPUs, two vCPUs, one of them with nonlazy state; the
\* component of XSTATE_FP_SSE and another one.
CONSTANTS
    Headers <- MCHeaders
    Platforms = {"p", "q"}
    Revs = {1, 2, 3}
    MaxSize = 3
    DefaultData = 1
    Width = 7
    Lengths = {0, 23, 24, 56, 120, 127}
    Lefts = {0, 7, 8, 31, 32, 40, 64, 96, 104}
    NR_CPUS = 3
    Areas = {a1, a2, a3}
    NoArea = NoArea
    ParkModes = {TRUE, FALSE}
    BootArea = BootArea
    MaxQueued = 3
    Pcpus = {p1, p2}
    Vcpus = {v1, v2}
    NoVcpu = NoVcpu
    Components = {0, 1}
    XcrAccum = {1}
    Nonlazy = {v1}
    Data = {0, 1}
    Reset = 0

SPECIFICATION MCSpec

INVARIANTS
    AppliesFitting
    RunningHasArea
    NoLeak
    UsableMeansRestored
    DirtyIsLoaded
PROPERTIES
    ScanEnds
    FastForward
    Reclaimed
    ImplementsRegisterFiles
