\* Six bytes of memory hold two strings of two characters.  The bytes 0 and 200,
\* and as signed characters 127 and 200, differ by more than a signed char holds.
\* Of the domains, 1 and 2 have slots of their own that 6 and 7 may take first.
CONSTANTS
    N = 6
    Chars = {0, 127, 200}
    IntBits = 4
    MAX_NUMNODES = 4
    TableSize = 5
    Domains = {0, 1, 2, 6, 7}
    MaxFound = 6
    MaxAddress = 3
    MaxRanges = 3

SPECIFICATION MCSpec

INVARIANTS
    RoundTrip
    RangesAgree

PROPERTIES
    CompareAgrees
    SearchFinds
    CopiesExactly
    LookupStable
