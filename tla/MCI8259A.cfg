\* Two CPUs; two lines on the master (one of them the spurious line 7) and one
\* reserved line on the slave; one suspend.
CONSTANTS
    CPUs = {c1, c2}
    NoCpu = NoCpu
    Irqs = {5, 7, 8}
    MaxSuspends = 1
SYMMETRY CpuSymmetry
SPECIFICATION Spec
INVARIANTS
    EnabledReachesHardware
    RightRegister
    GenuineIsReal
    DisabledStaysMasked
PROPERTIES
    WritesMatchCache
    ResumeRestoresTrigger
