\* As in MCVmEvent.cfg: a structure that malloc returns has a register to be
\* written in it.
CONSTANTS
    N = 2
    Regs = {"cr3", "msr"}
    Fresh <- MCFresh
    AnswerFlags <- MCAnswerFlags
    MaxEvents = 2
    Limits = {0, 4095, 4096, 1048575, 1052671, 2147483647}
    Crs = {"cr0", "cr3", "cr4"}
    Msrs = {"low", "other"}
    Masks = {0, 1}
    DescSupported = FALSE
SPECIFICATION MCSpec
INVARIANT
    WritesTrapped
