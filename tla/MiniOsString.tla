---------------------------- MODULE MiniOsString ----------------------------
(***************************************************************************)
(* The string library of Mini-OS (src/string_verified.c).  Every function  *)
(* is an operator on a memory of bytes, its loop a recursion that takes    *)
(* one turn per call; a caller makes one call after another on the same    *)
(* memory, with strings that share bytes and copies that overlap as far as *)
(* a forward copy allows.                                                  *)
(***************************************************************************)
EXTENDS Integers, Sequences, FiniteSetsExt

CONSTANTS
    N,        \* bytes of memory
    Chars,    \* byte values the caller stores; 0 is '\0'
    IntBits   \* width of int; long and long long are twice as wide

ASSUME NAssumption == N \in Nat \ {0}
ASSUME CharsAssumption == Chars \subseteq 0..255 /\ 0 \in Chars
ASSUME IntBitsAssumption == IntBits \in Nat \ {0}

VARIABLES
    mem,      \* the memory
    call,     \* the function being called and its arguments
    ret       \* what the last call returned

vars == <<mem, call, ret>>

Addresses == 0..(N - 1)
NULL == -1

\* The values of a signed type of w bits.
Signed(w) == -(2^(w - 1)) .. (2^(w - 1) - 1)

\* Mutant: the difference kept in an unsigned char.
CastUnsigned(w, x) == x % 2^w

\* Conversion to a signed type of w bits.
Cast(w, x) == ((x + 2^(w - 1)) % 2^w) - 2^(w - 1)

-----------------------------------------------------------------------------
(* Comparison.  The difference of two bytes is kept in a signed char. *)

RECURSIVE memcmp(_, _, _, _)
memcmp(m, cs, ct, count) ==
    IF count = 0 THEN 0
    ELSE LET res == Cast(8, m[cs] - m[ct])
         IN  IF res # 0 THEN res ELSE memcmp(m, cs + 1, ct + 1, count - 1)

\* *p, a char.
Char(m, p) == Cast(8, m[p])

RECURSIVE strncmp(_, _, _, _)
strncmp(m, cs, ct, count) ==
    IF count = 0 THEN 0
    ELSE LET res == Cast(8, Char(m, cs) - Char(m, ct))
         IN  IF res # 0 \/ m[cs] = 0
             THEN res ELSE strncmp(m, cs + 1, ct + 1, count - 1)

RECURSIVE strcmp(_, _, _)
strcmp(m, cs, ct) ==
    LET res == Cast(8, Char(m, cs) - Char(m, ct))
    IN  IF res # 0 \/ m[cs] = 0 THEN res ELSE strcmp(m, cs + 1, ct + 1)

-----------------------------------------------------------------------------
(* Length and search *)

RECURSIVE strlen(_, _)
strlen(m, s) == IF m[s] = 0 THEN 0 ELSE 1 + strlen(m, s + 1)

RECURSIVE strnlen(_, _, _)
strnlen(m, s, count) ==
    IF count = 0 \/ m[s] = 0 THEN 0 ELSE 1 + strnlen(m, s + 1, count - 1)

RECURSIVE strchr(_, _, _)
strchr(m, s, c) ==
    IF Char(m, s) = Cast(8, c) THEN s
    ELSE IF m[s] = 0 THEN NULL ELSE strchr(m, s + 1, c)

\* The loop of strrchr; res is the last place found so far.
RECURSIVE LastFrom(_, _, _, _)

\* Mutant: the end of the string is tested before the character.
LastFromEndFirst(m, s, c, res) ==
    IF m[s] = 0 THEN res
    ELSE LastFrom(m, s + 1, c, IF Char(m, s) = Cast(8, c) THEN s ELSE res)

LastFrom(m, s, c, res) ==
    LET found == IF Char(m, s) = Cast(8, c) THEN s ELSE res
    IN  IF m[s] = 0 THEN found ELSE LastFrom(m, s + 1, c, found)

strrchr(m, s, c) == LastFrom(m, s, c, NULL)

\* The loop of strstr; l1 is what is left of the first string.
RECURSIVE SubstringFrom(_, _, _, _, _)
SubstringFrom(m, s1, s2, l1, l2) ==
    IF l1 < l2 THEN NULL
    ELSE IF memcmp(m, s1, s2, l2) = 0
         THEN s1 ELSE SubstringFrom(m, s1 + 1, s2, l1 - 1, l2)

strstr(m, s1, s2) ==
    LET l2 == strlen(m, s2)
    IN  IF l2 = 0 THEN s1
        ELSE SubstringFrom(m, s1, s2, strlen(m, s1), l2)

-----------------------------------------------------------------------------
(* Copying: the memory afterwards.  All loops go from low to high. *)

RECURSIVE memcpy(_, _, _, _)
memcpy(m, dest, src, count) ==
    IF count = 0 THEN m
    ELSE memcpy([m EXCEPT ![dest] = m[src]], dest + 1, src + 1, count - 1)

RECURSIVE memset(_, _, _, _)
memset(m, s, c, count) ==
    IF count = 0 THEN m
    ELSE memset([m EXCEPT ![s] = c % 256], s + 1, c, count - 1)

RECURSIVE strcpy(_, _, _)
strcpy(m, dest, src) ==
    LET copied == [m EXCEPT ![dest] = m[src]]
    IN  IF copied[dest] = 0
        THEN copied ELSE strcpy(copied, dest + 1, src + 1)

RECURSIVE strncpy(_, _, _, _)

\* Mutant: the terminator is not copied.
StrncpyNoNul(m, dest, src, count) ==
    IF count = 0 \/ m[src] = 0 THEN m
    ELSE strncpy([m EXCEPT ![dest] = m[src]], dest + 1, src + 1, count - 1)

strncpy(m, dest, src, count) ==
    LET copied == [m EXCEPT ![dest] = m[src]]
    IN  IF count = 0 THEN m
        ELSE IF copied[dest] = 0
             THEN copied ELSE strncpy(copied, dest + 1, src + 1, count - 1)

strcat(m, dest, src) == strcpy(m, dest + strlen(m, dest), src)

-----------------------------------------------------------------------------
(* Bits *)

\* The loop of ffs, at bit c.
RECURSIVE BitFrom(_, _)
BitFrom(i, c) ==
    IF i % 2 = 1 THEN c
    ELSE IF i \div 2 = 0 THEN 0 ELSE BitFrom(i \div 2, c + 1)

ffs(i) == BitFrom(i, 1)

\* Two turns: the lower int, then the upper one.
__ffsti2(lli) ==
    LET low == ffs(Cast(IntBits, lli))
        high == ffs(Cast(IntBits, lli \div 2^IntBits))
    IN  IF low # 0 THEN low ELSE IF high # 0 THEN high + IntBits ELSE 0

-----------------------------------------------------------------------------
(* Callers (external).  They hand over strings that end inside the memory, *)
(* room for what is written, and no source that is overwritten before it   *)
(* is read.                                                                *)

Terminated(m, s) == \E q \in s..(N - 1) : m[q] = 0

Strings(m) == {s \in Addresses : Terminated(m, s)}

\* A forward copy of n bytes reads each byte before it overwrites it.
ForwardSafe(dest, src, n) == dest <= src \/ src + n <= dest

Arguments(m, fn) ==
    CASE fn \in {"memcmp", "memcpy"} ->
            {c \in Addresses \X Addresses \X (0..N) :
                /\ c[1] + c[3] <= N /\ c[2] + c[3] <= N
                /\ fn = "memcpy" => ForwardSafe(c[1], c[2], c[3])}
      [] fn = "memset" ->
            {c \in Addresses \X Chars \X (0..N) : c[1] + c[3] <= N}
      [] fn \in {"strcmp", "strstr"} -> Strings(m) \X Strings(m) \X {0}
      [] fn = "strncmp" -> Strings(m) \X Strings(m) \X (0..N)
      [] fn = "strlen" -> Strings(m) \X {0} \X {0}
      [] fn = "strnlen" ->
            {c \in Addresses \X {0} \X (0..N) :
                c[1] + c[3] <= N \/ c[1] \in Strings(m)}
      [] fn \in {"strchr", "strrchr"} -> Strings(m) \X Chars \X {0}
      [] fn = "strcpy" ->
            {c \in Addresses \X Strings(m) \X {0} :
                LET n == strlen(m, c[2]) + 1
                IN  c[1] + n <= N /\ ForwardSafe(c[1], c[2], n)}
      [] fn = "strncpy" ->
            {c \in Addresses \X Strings(m) \X (0..N) :
                LET n == Min({strlen(m, c[2]) + 1, c[3]})
                IN  c[1] + n <= N /\ ForwardSafe(c[1], c[2], n)}
      [] fn = "strcat" ->
            {c \in Strings(m) \X Strings(m) \X {0} :
                LET n == strlen(m, c[2]) + 1
                    end == c[1] + strlen(m, c[1])
                IN  end + n <= N /\ ForwardSafe(end, c[2], n)}
      \* The second argument is the block malloc is about to return.
      [] fn = "strdup" ->
            {c \in Strings(m) \X (Addresses \cup {NULL}) \X {0} :
                LET n == strlen(m, c[1]) + 1
                IN  c[2] # NULL =>
                        /\ c[2] + n <= N
                        /\ c[2] + n <= c[1] \/ c[1] + n <= c[2]}

Reading == {"memcmp", "strcmp", "strncmp", "strlen", "strnlen", "strchr",
            "strrchr", "strstr"}
Writing == {"memcpy", "memset", "strcpy", "strncpy", "strcat", "strdup"}
Bits == {"ffs", "__ffsti2"}
NoCall == <<"none", 0, 0, 0>>

Init ==
    /\ mem \in [Addresses -> Chars]
    /\ call = NoCall
    /\ ret = 0

Call ==
    /\ call = NoCall
    /\ \E fn \in Reading \cup Writing : \E c \in Arguments(mem, fn) :
            call' = <<fn>> \o c
    /\ ret' = 0
    /\ UNCHANGED mem

CallBits ==
    /\ call = NoCall
    /\ \/ \E i \in Signed(IntBits) : call' = <<"ffs", i, 0, 0>>
       \/ \E i \in Signed(2 * IntBits) : call' = <<"__ffsti2", i, 0, 0>>
    /\ ret' = 0
    /\ UNCHANGED mem

\* What a function that only reads returns.
Returned(m, fn, a, b, n) ==
    CASE fn = "memcmp" -> memcmp(m, a, b, n)
      [] fn = "strcmp" -> strcmp(m, a, b)
      [] fn = "strncmp" -> strncmp(m, a, b, n)
      [] fn = "strlen" -> strlen(m, a)
      [] fn = "strnlen" -> strnlen(m, a, n)
      [] fn = "strchr" -> strchr(m, a, b)
      [] fn = "strrchr" -> strrchr(m, a, b)
      [] fn = "strstr" -> strstr(m, a, b)
      [] fn = "ffs" -> ffs(a)
      [] fn = "__ffsti2" -> __ffsti2(a)

\* The memory after a function that writes.  A strdup without memory
\* returns NULL and copies nothing.
Written(m, fn, a, b, n) ==
    CASE fn = "memcpy" -> memcpy(m, a, b, n)
      [] fn = "memset" -> memset(m, a, b, n)
      [] fn = "strcpy" -> strcpy(m, a, b)
      [] fn = "strncpy" -> strncpy(m, a, b, n)
      [] fn = "strcat" -> strcat(m, a, b)
      [] fn = "strdup" ->
            IF b = NULL THEN m ELSE memcpy(m, b, a, strlen(m, a) + 1)

Read ==
    /\ call[1] \in Reading \cup Bits
    /\ ret' = Returned(mem, call[1], call[2], call[3], call[4])
    /\ call' = NoCall
    /\ UNCHANGED mem

\* The copying functions return their destination.
Write ==
    /\ call[1] \in Writing
    /\ mem' = Written(mem, call[1], call[2], call[3], call[4])
    /\ ret' = call[IF call[1] = "strdup" THEN 3 ELSE 2]
    /\ call' = NoCall

Next == Call \/ CallBits \/ Read \/ Write

Spec == Init /\ [][Next]_vars

-----------------------------------------------------------------------------
(* Reference definitions *)

\* The n bytes at p, and the string at p without its terminator.
Block(m, p, n) == [i \in 1..n |-> m[p + i - 1]]
Text(m, p) ==
    Block(m, p, Min({q \in p..(N - 1) : m[q] = 0}) - p)

Prefix(s, n) == SubSeq(s, 1, Min({n, Len(s)}))

\* The memory m with the sequence s stored at p.
Store(m, p, s) ==
    [q \in Addresses |->
        IF q \in p..(p + Len(s) - 1) THEN s[q - p + 1] ELSE m[q]]

\* The n-th byte of a text as an unsigned or a signed char; a text that ends
\* is followed by its terminator.
Byte(s, n, signed) ==
    LET b == IF n > Len(s) THEN 0 ELSE s[n]
    IN  IF signed /\ b >= 128 THEN b - 256 ELSE b

\* The first difference of s and t, 0 for equal ones.
Difference(s, t, signed) ==
    LET differ == {n \in 1..Max({Len(s), Len(t)}) : Byte(s, n, signed) # Byte(t, n, signed)}
    IN  IF differ = {} THEN 0
        ELSE Byte(s, Min(differ), signed) - Byte(t, Min(differ), signed)

Comparing == {"memcmp", "strcmp", "strncmp"}

\* The first difference of what a call compares.
Compared(m, c) ==
    CASE c[1] = "memcmp" -> Difference(Block(m, c[2], c[4]), Block(m, c[3], c[4]), FALSE)
      [] c[1] = "strcmp" -> Difference(Text(m, c[2]), Text(m, c[3]), TRUE)
      [] c[1] = "strncmp" ->
            Difference(Prefix(Text(m, c[2]), c[4]), Prefix(Text(m, c[3]), c[4]), TRUE)

-----------------------------------------------------------------------------
(* Properties *)

\* Comparisons return the first difference, cut down to a signed char (lines
\* 123 and 213): zero exactly for equal contents, be it that they are equal
\* up to a terminator or up to the limit, but with the wrong sign for bytes
\* that are far apart.
CompareAgrees ==
    [][call[1] \in Comparing =>
        LET d == Compared(mem, call)
        IN  /\ ret' \in -128..127
            /\ (ret' - d) % 256 = 0
            /\ ret' = 0 => d = 0]_vars

\* Comparisons return less than zero, zero, or more than zero as the first
\* argument is less than, equal to or greater than the second, as the comments
\* on memcmp, strncmp and strcmp say (lines 90-93, 177-179, 223-225).
OrdersAsCommented ==
    [][call[1] \in Comparing =>
        LET d == Compared(mem, call)
        IN  (ret' < 0 <=> d < 0) /\ (ret' > 0 <=> d > 0)]_vars

\* The positions strchr and strrchr look at, the terminator included, and
\* the places at which a string occurs in another.
Occurs(m, s, c) == {p \in s..(s + Len(Text(m, s))) : m[p] = c}
Contains(m, s, t) ==
    {p \in s..(s + Len(Text(m, s)) - Len(Text(m, t))) :
        Block(m, p, Len(Text(m, t))) = Text(m, t)}

\* Searches return the first (strchr, strstr) or last (strrchr) place, or
\* NULL when there is none, also for the empty string and for '\0'; lengths
\* count the bytes before the terminator, no more than the limit.
SearchFinds ==
    [][LET fn == call[1]  a == call[2]  b == call[3]  n == call[4]
           First(S) == IF S = {} THEN NULL ELSE Min(S)
           Last(S) == IF S = {} THEN NULL ELSE Max(S)
       IN  /\ fn = "strchr" => ret' = First(Occurs(mem, a, b))
           /\ fn = "strrchr" => ret' = Last(Occurs(mem, a, b))
           /\ fn = "strstr" => ret' = First(Contains(mem, a, b))
           /\ fn = "strlen" => ret' = Len(Text(mem, a))
           /\ fn = "strnlen" =>
                ret' = Min({n} \cup
                           {q - a : q \in {p \in a..(N - 1) : mem[p] = 0}})
      ]_vars

\* Copies leave in the destination what the source held before the call,
\* also when the two overlap, and change no byte outside it: no terminator
\* too few, none too many.
CopiesExactly ==
    [][LET fn == call[1]  a == call[2]  b == call[3]  n == call[4]
           String(p) == Text(mem, p) \o <<0>>
       IN  /\ fn = "memcpy" => mem' = Store(mem, a, Block(mem, b, n))
           /\ fn = "memset" => mem' = Store(mem, a, [i \in 1..n |-> b])
           /\ fn = "strcpy" => mem' = Store(mem, a, String(b))
           /\ fn = "strncpy" => mem' = Store(mem, a, Prefix(String(b), n))
           /\ fn = "strcat" =>
                mem' = Store(mem, a, Text(mem, a) \o String(b))
           /\ fn = "strdup" => mem' = IF b = NULL THEN mem
                                      ELSE Store(mem, b, String(a))
      ]_vars

\* __ffsti2, which __ffsdi2, ffsl and ffsll call, returns the number of trailing
\* zero bits of any number but 0, as the comments on the four say (lines 8-9,
\* 47-48, 58-59, 69-70).
CountsTrailingZeros ==
    [][call[1] = "__ffsti2" /\ call[2] # 0 =>
        /\ ret' \in Nat
        /\ call[2] % 2^ret' = 0
        /\ (call[2] \div 2^ret') % 2 = 1]_vars
=============================================================================
