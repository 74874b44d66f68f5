\* Two bytes of memory, which may differ by more than a signed char holds.
CONSTANTS
    N = 2
    Chars = {0, 127, 200}
    IntBits = 2
SPECIFICATION Spec
PROPERTY
    OrdersAsCommented
