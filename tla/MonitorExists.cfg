\* Requests of every kind, on a platform that can report descriptor access.
CONSTANTS
    Crs = {"cr0", "cr3", "cr4"}
    Msrs = {"low", "other"}
    Masks = {0, 1}
    DescSupported = TRUE
SPECIFICATION MonitorSpec
INVARIANTS
    ExistsMeansThere
