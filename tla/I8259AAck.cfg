\* One CPU and one line are enough to see what an acknowledgement leaves behind.
CONSTANTS
    CPUs = {c1}
    NoCpu = NoCpu
    Irqs = {5}
    MaxSuspends = 0
SPECIFICATION Spec
PROPERTY
    AckMasksAndEnds
