\* One physical CPU with one vCPU, without nonlazy state.
CONSTANTS
    Pcpus = {p1}
    Vcpus = {v1}
    NoVcpu = NoVcpu
    Components = {0, 1}
    XcrAccum = {1}
    Nonlazy = {}
    Data = {0, 1}
    Reset = 0
SPECIFICATION FpuSpec
INVARIANT
    SavesSomething
