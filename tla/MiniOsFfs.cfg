\* One byte of memory; a long long of eight bits.
CONSTANTS
    N = 1
    Chars = {0, 1}
    IntBits = 4
SPECIFICATION Spec
PROPERTY
    CountsTrailingZeros
