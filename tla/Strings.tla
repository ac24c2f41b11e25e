------------------------------ MODULE Strings ------------------------------
(***************************************************************************)
(* kernel/lib/string.c: every function as the loop it is, one byte a step, *)
(* over a memory of a few bytes.  A call is legal in C: its ranges are     *)
(* inside the memory, strings end, and only memmove() may be given ranges  *)
(* that overlap.                                                           *)
(***************************************************************************)
EXTENDS Integers

CONSTANTS
    Size,       \* bytes of memory
    Bytes,      \* the values in it, 0 to 255
    Ints,       \* what callers pass for a character
    NULL

ASSUME StringsAssumption ==
    /\ Size \in Nat \ {0}
    /\ 0 \in Bytes /\ Bytes \subseteq 0 .. 255
    /\ Ints \subseteq Int /\ \A c \in Ints : c % 256 \in Bytes
    /\ NULL \notin Int

VARIABLES
    mem,
    call,   \* the function that runs, with its arguments
    at,     \* where it is: idle, in its loop, or in the second loop of strncpy()
    i,      \* its loop variable
    ret,    \* what the call returned
    was,    \* history: the memory when it was called
    reads   \* history: the addresses it has read
vars == <<mem, call, at, i, ret, was, reads>>

Addresses == 0 .. Size - 1
Span(a, n) == a .. a + n - 1

\* The string at an address, as far as its terminator, and its length.
Ends(m, a) == {k \in 0 .. Size - 1 - a : m[a + k] = 0}
StrLen(m, a) == CHOOSE k \in Ends(m, a) : \A j \in Ends(m, a) : k <= j

Calls == [fn : {"memcpy", "memmove", "memset", "memcmp", "memchr", "strcpy", "strncpy",
                "strlen", "strcmp", "strncmp"},
          d : Addresses, s : Addresses, n : 0 .. Size, c : Ints]

\* How many bytes at an address a call may look at.
Extent(m, q, a) ==
    CASE q.fn \in {"memcpy", "memmove", "memset", "memcmp", "memchr"} -> q.n
      [] q.fn \in {"strncpy", "strncmp"} ->
            IF Ends(m, a) = {} \/ StrLen(m, a) >= q.n THEN q.n ELSE StrLen(m, a) + 1
      [] OTHER -> StrLen(m, a) + 1

\* How many bytes it stores.
Stored(m, q) ==
    CASE q.fn = "strcpy" -> StrLen(m, q.s) + 1
      [] q.fn \in {"memcpy", "memmove", "memset", "strncpy"} -> q.n
      [] OTHER -> 0

Compares == {"memcmp", "strcmp", "strncmp"}

\* Arguments a function does not have are fixed.
Legal(m, q) ==
    /\ q.fn \in {"memset", "memchr", "strlen"} => q.s = q.d
    /\ q.fn \in {"strcpy", "strlen", "strcmp"} => q.n = 0
    /\ q.fn \notin {"memset", "memchr"} => q.c = 0
    /\ q.fn \in {"strcpy", "strlen", "strcmp"} => Ends(m, q.s) # {}
    /\ q.fn = "strcmp" => Ends(m, q.d) # {}
    /\ q.s + Extent(m, q, q.s) <= Size
    /\ q.d + (IF q.fn \in Compares THEN Extent(m, q, q.d) ELSE Stored(m, q)) <= Size
    /\ q.fn \in {"memcpy", "strcpy", "strncpy"} =>
          Span(q.d, Stored(m, q)) \cap Span(q.s, Extent(m, q, q.s)) = {}

NoCall == [fn |-> "none", d |-> 0, s |-> 0, n |-> 0, c |-> 0]

Init ==
    /\ mem \in [Addresses -> Bytes]
    /\ call = NoCall /\ at = "idle" /\ i = 0 /\ ret = 0
    /\ was = mem /\ reads = {}

-----------------------------------------------------------------------------
(* Steps of a function *)

\* Mutant: the first byte is always moved first.
Bug_Backward(q) == FALSE

\* memmove() to a higher address starts with the last byte.
Backward(q) == q.fn = "memmove" /\ q.d > q.s

Begin(q) ==
    /\ at = "idle" /\ call = NoCall /\ Legal(mem, q)
    /\ call' = q
    /\ at' = "loop"
    /\ i' = IF Backward(q) THEN q.n ELSE 0
    /\ was' = mem /\ reads' = {}
    /\ UNCHANGED <<mem, ret>>

D == call.d + i
S == call.s + i
With(byte) == [mem EXCEPT ![D] = byte]       \* d[i] = byte
Bounded(x, y) == IF i < call.n THEN x ELSE y    \* what only a turn below n does

\* A turn of the loop over i, or what comes after the last one.
Turn(fns, again, read, memory, result) ==
    /\ at = "loop" /\ call.fn \in fns
    /\ reads' = reads \cup read
    /\ mem' = memory
    /\ IF again THEN i' = i + 1 /\ UNCHANGED <<at, ret>> ELSE ret' = result /\ at' = "idle" /\ UNCHANGED i
    /\ UNCHANGED <<call, was>>

CopyForward ==
    LET more == i < call.n /\ ~(call.fn = "memmove" /\ call.d = call.s) IN
    /\ ~Backward(call)
    /\ Turn({"memcpy", "memmove"}, more, IF more THEN {S} ELSE {}, IF more THEN With(mem[S]) ELSE mem, call.d)

CopyBackward ==
    /\ at = "loop" /\ Backward(call)
    /\ IF i > 0
       THEN /\ reads' = reads \cup {S - 1} /\ mem' = [mem EXCEPT ![D - 1] = mem[S - 1]]
            /\ i' = i - 1 /\ UNCHANGED <<at, ret>>
       ELSE ret' = call.d /\ at' = "idle" /\ UNCHANGED <<mem, i, reads>>
    /\ UNCHANGED <<call, was>>

\* (unsigned char)c
Char(c) == c % 256

memset ==
    Turn({"memset"}, i < call.n, {}, Bounded(With(Char(call.c)), mem), call.d)

memcmp ==
    Turn({"memcmp"}, i < call.n /\ mem[D] = mem[S], Bounded({D, S}, {}), mem,
         Bounded(mem[D] - mem[S], 0))

memchr ==
    Turn({"memchr"}, i < call.n /\ mem[D] # Char(call.c), Bounded({D}, {}), mem, Bounded(D, NULL))

strcpy ==
    Turn({"strcpy"}, mem[S] # 0, {S}, With(mem[S]), call.d)

\* Mutant: the byte is looked at before the bound.
Bug_strncpy_copy ==
    /\ at = "loop" /\ call.fn = "strncpy" /\ S \in Addresses
    /\ reads' = reads \cup {S}
    /\ IF mem[S] # 0 /\ i < call.n THEN mem' = With(mem[S]) /\ i' = i + 1 /\ UNCHANGED at
       ELSE at' = "pad" /\ UNCHANGED <<mem, i>>
    /\ UNCHANGED <<call, ret, was>>

\* The first loop of strncpy(): the bound is tested before the byte is read.
strncpy_copy ==
    /\ at = "loop" /\ call.fn = "strncpy"
    /\ reads' = reads \cup Bounded({S}, {})
    /\ IF i < call.n /\ mem[S] # 0 THEN mem' = With(mem[S]) /\ i' = i + 1 /\ UNCHANGED at
       ELSE at' = "pad" /\ UNCHANGED <<mem, i>>
    /\ UNCHANGED <<call, ret, was>>

strncpy_pad ==
    /\ at = "pad"
    /\ IF i < call.n THEN mem' = With(0) /\ i' = i + 1 /\ UNCHANGED <<at, ret>>
       ELSE at' = "idle" /\ ret' = call.d /\ UNCHANGED <<mem, i>>
    /\ UNCHANGED <<call, was, reads>>

strlen ==
    Turn({"strlen"}, mem[D] # 0, {D}, mem, i)

strcmp ==
    Turn({"strcmp"}, mem[D] = mem[S] /\ mem[D] # 0, {D, S}, mem, mem[D] - mem[S])

strncmp ==
    Turn({"strncmp"}, i < call.n /\ mem[D] = mem[S] /\ mem[D] # 0, Bounded({D, S}, {}), mem,
         Bounded(mem[D] - mem[S], 0))

Step ==
    \/ CopyForward \/ CopyBackward \/ memset \/ memcmp \/ memchr
    \/ strcpy \/ strncpy_copy \/ strncpy_pad \/ strlen \/ strcmp \/ strncmp

\* The caller has what it asked for.
Done ==
    /\ at = "idle" /\ call # NoCall
    /\ call' = NoCall /\ i' = 0 /\ ret' = 0
    /\ was' = mem /\ reads' = {}
    /\ UNCHANGED <<mem, at>>

Next == Step \/ Done \/ \E q \in Calls : Begin(q)

Spec == Init /\ [][Next]_vars

-----------------------------------------------------------------------------
(* Properties *)

\* The first of some offsets below n where two byte strings tell apart, or n.
FirstOf(n, K) == IF K = {} THEN n ELSE CHOOSE k \in K : \A j \in K : k <= j

\* Where a comparison of at most n bytes at d and s is decided.
Decided(n, stops) ==
    FirstOf(n, {k \in 0 .. n - 1 :
        /\ {call.d + k, call.s + k} \subseteq Addresses
        /\ was[call.d + k] # was[call.s + k] \/ (stops /\ was[call.d + k] = 0)})

Difference(n, k) == IF k = n THEN 0 ELSE was[call.d + k] - was[call.s + k]

\* What the standard says a call leaves at d, and returns.
Filled(n, byte(_)) == [a \in Addresses |-> IF a \in Span(call.d, n) THEN byte(a - call.d) ELSE was[a]]

Contract ==
    CASE call.fn \in {"memcpy", "memmove"} ->
            mem = Filled(call.n, LAMBDA k : was[call.s + k]) /\ ret = call.d
      [] call.fn = "memset" ->
            mem = Filled(call.n, LAMBDA k : call.c % 256) /\ ret = call.d
      [] call.fn = "strcpy" ->
            /\ mem = Filled(StrLen(was, call.s) + 1, LAMBDA k : was[call.s + k])
            /\ ret = call.d
      [] call.fn = "strncpy" ->
            /\ mem = Filled(call.n, LAMBDA k :
                         IF \E j \in 0 .. k : was[call.s + j] = 0 THEN 0 ELSE was[call.s + k])
            /\ ret = call.d
      [] call.fn = "memcmp" ->
            mem = was /\ ret = Difference(call.n, Decided(call.n, FALSE))
      [] call.fn = "strcmp" ->
            mem = was /\ ret = Difference(Size, Decided(Size, TRUE))
      [] call.fn = "strncmp" ->
            mem = was /\ ret = Difference(call.n, Decided(call.n, TRUE))
      [] call.fn = "memchr" ->
            LET found == {a \in Span(call.d, call.n) : was[a] = call.c % 256} IN
            mem = was /\ (IF found = {} THEN ret = NULL
                          ELSE ret \in found /\ \A a \in found : ret <= a)
      [] call.fn = "strlen" ->
            mem = was /\ ret = StrLen(was, call.d)

\* Whatever the ranges, the bytes and the lengths, a function that returns has done
\* what the C standard says of it: memmove() also when its ranges overlap either
\* way, strncpy() with the padding it owes and no byte more.
CallExact == at = "idle" /\ call # NoCall => Contract

TypeOK ==
    /\ mem \in [Addresses -> Bytes] /\ was \in [Addresses -> Bytes]
    /\ call \in Calls \cup {NoCall}
    /\ at \in {"idle", "loop", "pad"}
    /\ i \in 0 .. Size
    /\ ret \in Int \cup {NULL}
    /\ reads \subseteq Addresses

\* No function looks at a byte past its bound, past a terminator, or outside the
\* range it was given, in this memory or at an address that is not of it.
ReadsInBounds ==
    /\ TypeOK
    /\ call # NoCall =>
          reads \subseteq Span(call.s, Extent(was, call, call.s)) \cup
              (IF call.fn \in Compares THEN Span(call.d, Extent(was, call, call.d)) ELSE {})

=============================================================================
