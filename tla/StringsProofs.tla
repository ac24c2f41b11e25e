--------------------------- MODULE StringsProofs ---------------------------
(***************************************************************************)
(* Theorems about Strings, for any memory and any bytes.  The invariant    *)
(* says for every function what its loop has done after i turns; from it   *)
(* follows what the C standard says of the call when the loop is over.     *)
(***************************************************************************)
EXTENDS Strings, TLAPS, WellFoundedInduction

\* Bytes lo to hi - 1 of what the call copies are at their place, and nothing else changed.
Moved(lo, hi) ==
    \A a \in Addresses :
       mem[a] = IF a \in call.d + lo .. call.d + hi - 1 THEN was[call.s + (a - call.d)] ELSE was[a]

\* The first k bytes of the two ranges are the same; none of the first k at x is 0.
Same(k) == \A j \in 0 .. k - 1 : was[call.d + j] = was[call.s + j]
NoEnd(x, k) == \A j \in 0 .. k - 1 : was[x + j] # 0

Loops ==
    /\ call.fn \in {"memcpy", "memmove"} =>
          i <= call.n /\ (IF Backward(call) THEN Moved(i, call.n) ELSE Moved(0, i))
    /\ call.fn = "memset" =>
          /\ i <= call.n
          /\ \A a \in Addresses : mem[a] = IF a \in Span(call.d, i) THEN Char(call.c) ELSE was[a]
    /\ call.fn = "memcmp" => i <= call.n /\ mem = was /\ Same(i)
    /\ call.fn = "memchr" =>
          i <= call.n /\ mem = was /\ \A j \in 0 .. i - 1 : was[call.d + j] # Char(call.c)
    /\ call.fn = "strcpy" => Moved(0, i) /\ NoEnd(call.s, i)
    /\ call.fn = "strncpy" => i <= call.n /\ Moved(0, i) /\ NoEnd(call.s, i)
    /\ call.fn = "strlen" => mem = was /\ NoEnd(call.d, i)
    /\ call.fn = "strcmp" => mem = was /\ Same(i) /\ NoEnd(call.d, i)
    /\ call.fn = "strncmp" => i <= call.n /\ mem = was /\ Same(i) /\ NoEnd(call.d, i)

\* What strncpy() owes at offset k.
Owed(k) == IF \E j \in 0 .. k : was[call.s + j] = 0 THEN 0 ELSE was[call.s + k]

Pads ==
    /\ call.fn = "strncpy" /\ i <= call.n
    /\ \A a \in Addresses : mem[a] = IF a \in Span(call.d, i) THEN Owed(a - call.d) ELSE was[a]
    /\ i < call.n => \E j \in 0 .. i : was[call.s + j] = 0

\* What a call may look at.
Readable ==
    Span(call.s, Extent(was, call, call.s)) \cup
        (IF call.fn \in Compares THEN Span(call.d, Extent(was, call, call.d)) ELSE {})

IInv ==
    /\ TypeOK
    /\ call = NoCall => at = "idle"
    /\ call # NoCall => call \in Calls /\ Legal(was, call) /\ reads \subseteq Readable
    /\ at = "loop" => Loops
    /\ at = "pad" => Pads
    /\ at = "idle" /\ call # NoCall => Contract

-----------------------------------------------------------------------------
(* Lengths and ranges *)

Memories == [Addresses -> Bytes]

\* A set of naturals with a member has a least one.
LEMMA LeastOffset ==
    ASSUME NEW K, K \subseteq Nat, K # {}
    PROVE  \E x \in K : \A y \in K : x <= y
<1>1. \E x \in K : \A y \in K : ~ (<<y, x>> \in OpToRel(<, Nat))
  BY NatLessThanWellFounded, WFMin
<1>2. PICK x \in K : \A y \in K : ~ (<<y, x>> \in OpToRel(<, Nat))
  BY <1>1
<1>3. \A y \in K : x <= y
  <2> SUFFICES ASSUME NEW y \in K PROVE x <= y
    OBVIOUS
  <2>1. ~(y < x)
    BY <1>2 DEF OpToRel
  <2> QED
    BY <2>1
<1> QED
  BY <1>3

\* A string's length is the place of its first 0.
LEMMA StrLenFacts ==
    ASSUME NEW m, NEW a \in Addresses, Ends(m, a) # {}
    PROVE  /\ StrLen(m, a) \in Nat /\ a + StrLen(m, a) \in Addresses
           /\ m[a + StrLen(m, a)] = 0
           /\ \A k \in Nat : a + k \in Addresses /\ m[a + k] = 0 => StrLen(m, a) <= k
<1>1. Size \in Nat /\ a \in Nat /\ Ends(m, a) \subseteq Nat
  BY StringsAssumption DEF Addresses, Ends
<1>2. \E k \in Ends(m, a) : \A j \in Ends(m, a) : k <= j
  BY <1>1, LeastOffset
<1>3. StrLen(m, a) \in Ends(m, a) /\ \A j \in Ends(m, a) : StrLen(m, a) <= j
  BY <1>2 DEF StrLen
<1>4. \A k \in Nat : a + k \in Addresses /\ m[a + k] = 0 => k \in Ends(m, a)
  BY <1>1 DEF Addresses, Ends
<1> QED
  BY <1>1, <1>3, <1>4 DEF Ends, Addresses

\* The functions that go as far as a terminator, and those that also have a bound.
Strs == {"strcpy", "strlen", "strcmp"}
Counted == {"strncpy", "strncmp"}

\* A call that may look at a string may look at it as far as its terminator.
LEMMA ExtentNat ==
    ASSUME NEW m, NEW q \in Calls, NEW a \in Addresses, q.fn \in Strs => Ends(m, a) # {}
    PROVE  Extent(m, q, a) \in Nat
<1>1. q.n \in Nat /\ q.fn \in {"memcpy", "memmove", "memset", "memcmp", "memchr", "strcpy", "strncpy",
                               "strlen", "strcmp", "strncmp"}
  BY StringsAssumption DEF Calls
<1>2. Ends(m, a) # {} => StrLen(m, a) \in Nat
  BY StrLenFacts
<1> QED
  BY <1>1, <1>2 DEF Extent, Strs

\* An offset before which no terminator was met is one the call may look at.
LEMMA Reach ==
    ASSUME NEW m, NEW q \in Calls, NEW a \in Addresses, q.fn \in Strs => Ends(m, a) # {},
           a + Extent(m, q, a) <= Size, NEW k \in Nat, \A j \in 0 .. k - 1 : m[a + j] # 0,
           q.fn \in Strs \cup Counted, q.fn \in Counted => k < q.n
    PROVE  k < Extent(m, q, a) /\ a + k \in Addresses
<1>1. q.n \in Nat /\ Size \in Nat /\ a \in Nat /\ Extent(m, q, a) \in Nat
  <2>1. Extent(m, q, a) \in Nat
    BY ExtentNat
  <2> QED
    BY <2>1, StringsAssumption DEF Calls, Addresses
<1>2. ASSUME Ends(m, a) # {} PROVE StrLen(m, a) \in Nat /\ k <= StrLen(m, a)
  <2>1. StrLen(m, a) \in Nat /\ m[a + StrLen(m, a)] = 0
    BY <1>2, StrLenFacts
  <2>2. ~(StrLen(m, a) < k)
    <3>1. StrLen(m, a) < k => StrLen(m, a) \in 0 .. k - 1
      BY <2>1
    <3> QED
      BY <2>1, <3>1
  <2> QED
    BY <2>1, <2>2
<1>3. k < Extent(m, q, a)
  <2>1. CASE q.fn \in Strs
    <3>1. Extent(m, q, a) = StrLen(m, a) + 1
      BY <2>1 DEF Extent, Strs
    <3> QED
      BY <1>2, <2>1, <3>1
  <2>2. CASE q.fn \in Counted
    <3>1. Extent(m, q, a) = IF Ends(m, a) = {} \/ StrLen(m, a) >= q.n THEN q.n ELSE StrLen(m, a) + 1
      BY <2>2 DEF Extent, Counted
    <3> QED
      BY <1>2, <2>2, <3>1
  <2> QED
    BY <2>1, <2>2
<1> QED
  BY <1>1, <1>3 DEF Addresses

\* What the program knows of a legal call.
LEMMA LegalFacts ==
    ASSUME NEW m, NEW q \in Calls, Legal(m, q)
    PROVE  /\ q.d \in Addresses /\ q.s \in Addresses /\ q.n \in 0 .. Size /\ q.c \in Ints
           /\ q.fn \in Strs => Ends(m, q.s) # {}
           /\ q.fn = "strcmp" => Ends(m, q.d) # {}
           /\ Extent(m, q, q.s) \in Nat /\ q.s + Extent(m, q, q.s) <= Size
           /\ q.fn \in Compares => Extent(m, q, q.d) \in Nat /\ q.d + Extent(m, q, q.d) <= Size
           /\ q.fn \notin Compares => q.d + Stored(m, q) <= Size
<1>1. q.d \in Addresses /\ q.s \in Addresses /\ q.n \in 0 .. Size /\ q.c \in Ints
  BY DEF Calls
<1>2. /\ q.fn \in Strs => Ends(m, q.s) # {}
      /\ q.fn = "strcmp" => Ends(m, q.d) # {}
      /\ q.s + Extent(m, q, q.s) <= Size
      /\ q.fn \in Compares => q.d + Extent(m, q, q.d) <= Size
      /\ q.fn \notin Compares => q.d + Stored(m, q) <= Size
  BY DEF Legal, Strs
<1>3. Extent(m, q, q.s) \in Nat
  BY <1>1, <1>2, ExtentNat
<1>4. q.fn \in Compares => Extent(m, q, q.d) \in Nat
  BY <1>1, <1>2, ExtentNat DEF Compares, Strs
<1> QED
  BY <1>1, <1>2, <1>3, <1>4

\* What a call may look at is in the memory.
LEMMA ReadableInside == ASSUME call \in Calls, Legal(was, call) PROVE Readable \subseteq Addresses
<1>1. /\ call.d \in Addresses /\ call.s \in Addresses
      /\ Extent(was, call, call.s) \in Nat /\ call.s + Extent(was, call, call.s) <= Size
      /\ call.fn \in Compares =>
            Extent(was, call, call.d) \in Nat /\ call.d + Extent(was, call, call.d) <= Size
  BY LegalFacts
<1>2. \A a \in Addresses, x \in Nat : a + x <= Size => Span(a, x) \subseteq Addresses
  BY StringsAssumption DEF Addresses, Span
<1> QED
  BY <1>1, <1>2 DEF Readable

-----------------------------------------------------------------------------
(* Steps *)

\* What is known while a function runs.
LEMMA Running ==
    ASSUME IInv, call # NoCall
    PROVE  /\ call \in Calls /\ Legal(was, call) /\ reads \subseteq Readable
           /\ mem \in Memories /\ was \in Memories /\ i \in 0 .. Size /\ Size \in Nat
           /\ call.d \in Addresses /\ call.s \in Addresses /\ call.n \in 0 .. Size /\ call.c \in Ints
           /\ ret \in Int \cup {NULL} /\ i \in Nat /\ call.d \in Nat /\ call.s \in Nat /\ call.n \in Nat
BY LegalFacts, StringsAssumption DEF IInv, TypeOK, Memories, Addresses

\* A step of a running function, as far as all of them are alike.
LEMMA Onward ==
    ASSUME IInv, call # NoCall, UNCHANGED <<call, was>>,
           mem' \in Memories, i' \in 0 .. Size, ret' \in Int \cup {NULL}, reads' \subseteq Readable,
           at' \in {"idle", "loop", "pad"},
           at' = "loop" => Loops', at' = "pad" => Pads', at' = "idle" => Contract'
    PROVE  IInv'
<1>1. call \in Calls /\ Legal(was, call) /\ was \in Memories
  BY Running
<1>2. call' \in Calls /\ call' # NoCall /\ Legal(was, call)' /\ was' \in Memories /\ Readable' = Readable
  BY <1>1 DEF Readable
<1>3. Readable \subseteq Addresses
  BY <1>1, ReadableInside
<1>4. TypeOK'
  BY <1>2, <1>3 DEF TypeOK, Memories
<1> QED
  BY <1>2, <1>4 DEF IInv

\* No call is without a name the functions know.
LEMMA Named == \A q \in Calls : q # NoCall
BY DEF Calls, NoCall

\* memcpy(), and memmove() to a lower address, from the first byte on: the byte that is
\* read is still the one that was there, since no store went to it.
LEMMA CopyForwardKeeps == ASSUME IInv, CopyForward PROVE IInv'
<1> DEFINE more == i < call.n /\ ~(call.fn = "memmove" /\ call.d = call.s)
           next == With(mem[S])
<1>1. /\ at = "loop" /\ call.fn \in {"memcpy", "memmove"} /\ ~Backward(call) /\ call # NoCall
      /\ call' = call /\ was' = was /\ reads' = reads \cup (IF more THEN {S} ELSE {})
      /\ mem' = (IF more THEN next ELSE mem)
      /\ more => i' = i + 1 /\ at' = at /\ ret' = ret
      /\ ~more => ret' = call.d /\ at' = "idle" /\ i' = i
  BY DEF CopyForward, Turn, NoCall, IInv
<1>2. /\ call \in Calls /\ Legal(was, call) /\ reads \subseteq Readable
      /\ mem \in Memories /\ was \in Memories /\ i \in 0 .. Size /\ Size \in Nat
      /\ call.d \in Addresses /\ call.s \in Addresses /\ call.n \in 0 .. Size
      /\ ret \in Int \cup {NULL} /\ i \in Nat /\ call.d \in Nat /\ call.s \in Nat /\ call.n \in Nat
  BY <1>1, Running
<1>3. i <= call.n /\ Moved(0, i)
  BY <1>1 DEF IInv, Loops
<1>4. /\ Extent(was, call, call.s) = call.n /\ Stored(was, call) = call.n
      /\ call.s + call.n <= Size /\ call.d + call.n <= Size
      /\ Span(call.s, call.n) \subseteq Readable
      /\ call.fn = "memcpy" => Span(call.d, call.n) \cap Span(call.s, call.n) = {}
  <2>1. Extent(was, call, call.s) = call.n /\ Stored(was, call) = call.n /\ call.fn \notin Compares
    BY <1>1 DEF Extent, Stored, Compares
  <2> QED
    BY <1>2, <2>1, LegalFacts DEF Legal, Readable
<1>5. CASE more
  <2>1. /\ D \in Addresses /\ S \in Addresses /\ S \in Readable /\ D = call.d + i /\ S = call.s + i
    BY <1>2, <1>4, <1>5 DEF D, S, Span, Addresses
  <2>2. mem[S] = was[S]
    <3>1. S \notin call.d .. call.d + i - 1
      <4>1. CASE call.fn = "memcpy"
        <5>1. S \in Span(call.s, call.n) /\ call.d .. call.d + i - 1 \subseteq Span(call.d, call.n)
          BY <1>2, <1>5, <2>1 DEF Span
        <5> QED
          BY <1>4, <4>1, <5>1
      <4>2. CASE call.fn = "memmove"
        BY <1>1, <1>2, <1>5, <2>1, <4>2 DEF Backward
      <4> QED
        BY <1>1, <4>1, <4>2
    <3> QED
      BY <1>2, <1>3, <2>1, <3>1 DEF Moved
  <2>3. mem' = [mem EXCEPT ![D] = was[S]] /\ was[S] \in Bytes
    BY <1>1, <1>2, <1>5, <2>1, <2>2 DEF With, Memories
  <2>4. mem' \in Memories
    BY <1>2, <2>1, <2>3 DEF Memories
  <2>5. Moved(0, i)'
    <3> SUFFICES ASSUME NEW a \in Addresses
                 PROVE  mem'[a] = IF a \in call.d .. call.d + i' - 1
                                  THEN was[call.s + (a - call.d)] ELSE was[a]
      BY <1>1, <1>2 DEF Moved
    <3>1. CASE a = D
      <4>1. a \in call.d .. call.d + i' - 1 /\ call.s + (a - call.d) = S
        BY <1>1, <1>2, <1>5, <2>1, <3>1
      <4> QED
        BY <1>2, <2>1, <2>3, <3>1, <4>1 DEF Memories
    <3>2. CASE a # D
      <4>1. a \in call.d .. call.d + i' - 1 <=> a \in call.d .. call.d + i - 1
        BY <1>1, <1>2, <1>5, <2>1, <3>2 DEF Addresses
      <4>2. mem'[a] = mem[a]
        BY <1>2, <2>3, <3>2 DEF Memories
      <4>3. mem[a] = IF a \in call.d .. call.d + i - 1 THEN was[call.s + (a - call.d)] ELSE was[a]
        BY <1>2, <1>3 DEF Moved
      <4> QED
        BY <4>1, <4>2, <4>3
    <3> QED
      BY <3>1, <3>2
  <2>6. Loops'
    BY <1>1, <1>2, <1>5, <2>5 DEF Loops, Backward
  <2>7. i' \in 0 .. Size /\ ret' = ret /\ at' = "loop"
    BY <1>1, <1>2, <1>5
  <2>8. reads' \subseteq Readable
    BY <1>1, <1>2, <1>5, <2>1
  <2> QED
    BY <1>1, <1>2, <2>4, <2>6, <2>7, <2>8, Onward
<1>6. CASE ~more
  <2>1. mem' = mem /\ at' = "idle" /\ reads' = reads /\ ret' = call.d /\ i' = i
    BY <1>1, <1>6
  <2>2. mem = [a \in Addresses |-> IF a \in Span(call.d, call.n) THEN was[call.s + (a - call.d)] ELSE was[a]]
    <3> SUFFICES ASSUME NEW a \in Addresses
                 PROVE  mem[a] = IF a \in Span(call.d, call.n)
                                 THEN was[call.s + (a - call.d)] ELSE was[a]
      BY <1>2 DEF Memories
    <3>1. mem[a] = IF a \in call.d .. call.d + i - 1 THEN was[call.s + (a - call.d)] ELSE was[a]
      BY <1>2, <1>3 DEF Moved
    <3>2. CASE i = call.n
      BY <3>1, <3>2 DEF Span
    <3>3. CASE call.d = call.s
      <4>1. call.s + (a - call.d) = a
        BY <1>2, <3>3 DEF Addresses
      <4> QED
        BY <3>1, <4>1
    <3> QED
      BY <1>2, <1>3, <1>6, <3>2, <3>3
  <2>3. Contract'
    BY <1>1, <2>1, <2>2 DEF Contract, Filled
  <2> QED
    BY <1>1, <1>2, <2>1, <2>3, Onward
<1> QED
  BY <1>5, <1>6

\* memmove() to a higher address, from the last byte on.
LEMMA CopyBackwardKeeps == ASSUME IInv, CopyBackward PROVE IInv'
<1>1. /\ at = "loop" /\ call.fn = "memmove" /\ call.d > call.s /\ Backward(call) /\ call # NoCall
      /\ call' = call /\ was' = was
      /\ i > 0 => /\ reads' = reads \cup {S - 1} /\ mem' = [mem EXCEPT ![D - 1] = mem[S - 1]]
                  /\ i' = i - 1 /\ at' = at /\ ret' = ret
      /\ ~(i > 0) => ret' = call.d /\ at' = "idle" /\ mem' = mem /\ i' = i /\ reads' = reads
  BY DEF CopyBackward, Backward, NoCall, IInv
<1>2. /\ call \in Calls /\ Legal(was, call) /\ reads \subseteq Readable
      /\ mem \in Memories /\ was \in Memories /\ i \in 0 .. Size /\ Size \in Nat
      /\ call.d \in Addresses /\ call.s \in Addresses /\ call.n \in 0 .. Size
      /\ ret \in Int \cup {NULL} /\ i \in Nat /\ call.d \in Nat /\ call.s \in Nat /\ call.n \in Nat
  BY <1>1, Running
<1>3. i <= call.n /\ Moved(i, call.n)
  BY <1>1 DEF IInv, Loops
<1>4. call.s + call.n <= Size /\ call.d + call.n <= Size /\ Span(call.s, call.n) \subseteq Readable
  <2>1. Extent(was, call, call.s) = call.n /\ Stored(was, call) = call.n /\ call.fn \notin Compares
    BY <1>1 DEF Extent, Stored, Compares
  <2> QED
    BY <1>2, <2>1, LegalFacts DEF Legal, Readable
<1>5. CASE i > 0
  <2> DEFINE to == call.d + i - 1
             from == call.s + i - 1
  <2>1. /\ to \in Addresses /\ from \in Addresses /\ from \in Readable
        /\ D - 1 = to /\ S - 1 = from /\ from < to
    BY <1>1, <1>2, <1>3, <1>4, <1>5 DEF D, S, Span, Addresses
  <2>2. mem[from] = was[from]
    <3>1. from \notin call.d + i .. call.d + call.n - 1
      BY <1>1, <1>2, <1>5
    <3> QED
      BY <1>3, <2>1, <3>1 DEF Moved
  <2>3. mem' = [mem EXCEPT ![to] = was[from]] /\ was[from] \in Bytes
    BY <1>1, <1>2, <1>5, <2>1, <2>2 DEF Memories
  <2>4. mem' \in Memories
    BY <1>2, <2>1, <2>3 DEF Memories
  <2>5. Moved(i, call.n)'
    <3> SUFFICES ASSUME NEW a \in Addresses
                 PROVE  mem'[a] = IF a \in call.d + i' .. call.d + call.n - 1
                                  THEN was[call.s + (a - call.d)] ELSE was[a]
      BY <1>1, <1>2 DEF Moved
    <3>1. CASE a = to
      <4>1. a \in call.d + i' .. call.d + call.n - 1 /\ call.s + (a - call.d) = from
        BY <1>1, <1>2, <1>3, <1>5, <2>1, <3>1
      <4> QED
        BY <1>2, <2>1, <2>3, <3>1, <4>1 DEF Memories
    <3>2. CASE a # to
      <4>1. a \in call.d + i' .. call.d + call.n - 1 <=> a \in call.d + i .. call.d + call.n - 1
        BY <1>1, <1>2, <1>5, <2>1, <3>2 DEF Addresses
      <4>2. mem'[a] = mem[a]
        BY <1>2, <2>3, <3>2 DEF Memories
      <4>3. mem[a] = IF a \in call.d + i .. call.d + call.n - 1
                     THEN was[call.s + (a - call.d)] ELSE was[a]
        BY <1>2, <1>3 DEF Moved
      <4> QED
        BY <4>1, <4>2, <4>3
    <3> QED
      BY <3>1, <3>2
  <2>6. Loops'
    BY <1>1, <1>2, <1>3, <1>5, <2>5 DEF Loops, Backward
  <2>7. i' \in 0 .. Size /\ ret' = ret /\ at' = "loop"
    BY <1>1, <1>2, <1>5
  <2>8. reads' \subseteq Readable
    BY <1>1, <1>2, <1>5, <2>1
  <2> QED
    BY <1>1, <1>2, <2>4, <2>6, <2>7, <2>8, Onward
<1>6. CASE ~(i > 0)
  <2>1. mem' = mem /\ at' = "idle" /\ reads' = reads /\ ret' = call.d /\ i' = i /\ i = 0
    BY <1>1, <1>2, <1>6
  <2>2. mem = [a \in Addresses |-> IF a \in Span(call.d, call.n) THEN was[call.s + (a - call.d)] ELSE was[a]]
    <3> SUFFICES ASSUME NEW a \in Addresses
                 PROVE  mem[a] = IF a \in Span(call.d, call.n)
                                 THEN was[call.s + (a - call.d)] ELSE was[a]
      BY <1>2 DEF Memories
    <3>1. call.d + 0 = call.d
      BY <1>2
    <3> QED
      BY <1>3, <2>1, <3>1 DEF Moved, Span
  <2>3. Contract'
    BY <1>1, <2>1, <2>2 DEF Contract, Filled
  <2> QED
    BY <1>1, <1>2, <2>1, <2>3, Onward
<1> QED
  BY <1>5, <1>6

\* memset() stores what is left of its argument in a byte.
LEMMA MemsetKeeps == ASSUME IInv, memset PROVE IInv'
<1>1. /\ at = "loop" /\ call.fn = "memset" /\ call # NoCall
      /\ call' = call /\ was' = was /\ reads' = reads \cup {}
      /\ mem' = (IF i < call.n THEN [mem EXCEPT ![D] = Char(call.c)] ELSE mem)
      /\ i < call.n => i' = i + 1 /\ at' = at /\ ret' = ret
      /\ ~(i < call.n) => ret' = call.d /\ at' = "idle" /\ i' = i
  BY DEF memset, Turn, NoCall, IInv, Bounded, With
<1>2. /\ call \in Calls /\ Legal(was, call) /\ reads \subseteq Readable
      /\ mem \in Memories /\ was \in Memories /\ i \in 0 .. Size /\ Size \in Nat
      /\ call.d \in Addresses /\ call.s \in Addresses /\ call.n \in 0 .. Size /\ call.c \in Ints
      /\ ret \in Int \cup {NULL} /\ i \in Nat /\ call.d \in Nat /\ call.s \in Nat /\ call.n \in Nat
  BY <1>1, Running
<1>3. /\ i <= call.n
      /\ \A a \in Addresses : mem[a] = IF a \in Span(call.d, i) THEN Char(call.c) ELSE was[a]
  BY <1>1 DEF IInv, Loops
<1>4. call.d + call.n <= Size
  <2>1. Stored(was, call) = call.n /\ call.fn \notin Compares
    BY <1>1 DEF Stored, Compares
  <2> QED
    BY <1>2, <2>1, LegalFacts
<1>5. CASE i < call.n
  <2>1. D \in Addresses /\ D = call.d + i
    BY <1>2, <1>4, <1>5 DEF D, Addresses
  <2>2. mem' = [mem EXCEPT ![D] = Char(call.c)] /\ Char(call.c) \in Bytes
    BY ZenonT(30), <1>1, <1>2, <1>5, StringsAssumption DEF Char
  <2>3. mem' \in Memories
    BY <1>2, <2>1, <2>2 DEF Memories
  <2>4. ASSUME NEW a \in Addresses
        PROVE  mem'[a] = IF a \in Span(call.d, i') THEN Char(call.c) ELSE was[a]
    <3>1. CASE a = D
      <4>1. a \in Span(call.d, i')
        BY <1>1, <1>2, <1>5, <2>1, <3>1 DEF Span
      <4> QED
        BY <1>2, <2>1, <2>2, <3>1, <4>1 DEF Memories
    <3>2. CASE a # D
      <4>1. a \in Span(call.d, i') <=> a \in Span(call.d, i)
        BY <1>1, <1>2, <1>5, <2>1, <3>2 DEF Addresses, Span
      <4> QED
        BY <1>2, <1>3, <2>2, <3>2, <4>1 DEF Memories
    <3> QED
      BY <3>1, <3>2
  <2>5. Loops'
    BY <1>1, <1>2, <1>5, <2>4 DEF Loops
  <2>6. i' \in 0 .. Size /\ ret' = ret /\ at' = "loop" /\ reads' = reads
    BY <1>1, <1>2, <1>5
  <2> QED
    BY <1>1, <1>2, <2>3, <2>5, <2>6, Onward
<1>6. CASE ~(i < call.n)
  <2>1. /\ mem' = mem /\ at' = "idle" /\ reads' = reads /\ ret' = call.d /\ i' = i /\ i = call.n
    BY <1>1, <1>2, <1>3, <1>6
  <2>2. mem = [a \in Addresses |-> IF a \in Span(call.d, call.n) THEN call.c % 256 ELSE was[a]]
    BY <1>2, <1>3, <2>1 DEF Memories, Char
  <2>3. Contract'
    BY ZenonT(30), <1>1, <2>1, <2>2 DEF Contract, Filled
  <2> QED
    BY <1>1, <1>2, <2>1, <2>3, Onward
<1> QED
  BY <1>5, <1>6

-----------------------------------------------------------------------------
(* The functions that only look *)

\* A 0 with none before it is where a string ends.
LEMMA LengthIs ==
    ASSUME NEW m, NEW a \in Addresses, NEW k \in Nat, a + k \in Addresses, m[a + k] = 0,
           \A j \in 0 .. k - 1 : m[a + j] # 0
    PROVE  Ends(m, a) # {} /\ StrLen(m, a) = k
<1>1. Size \in Nat /\ a \in Nat
  BY StringsAssumption DEF Addresses
<1>2. k \in Ends(m, a)
  BY <1>1 DEF Ends, Addresses
<1>3. StrLen(m, a) \in Nat /\ m[a + StrLen(m, a)] = 0 /\ StrLen(m, a) <= k
  BY <1>2, StrLenFacts
<1>4. ~(StrLen(m, a) < k)
  <2>1. StrLen(m, a) < k => StrLen(m, a) \in 0 .. k - 1
    BY <1>3
  <2> QED
    BY <1>3, <2>1
<1> QED
  BY <1>2, <1>3, <1>4

\* The first of some offsets, when it is known.
LEMMA FirstIs ==
    ASSUME NEW n, NEW K, K \subseteq Nat, NEW k \in K, \A j \in K : k <= j
    PROVE  FirstOf(n, K) = k
<1>1. \E x \in K : \A j \in K : x <= j
  OBVIOUS
<1>2. FirstOf(n, K) \in K /\ \A j \in K : FirstOf(n, K) <= j
  BY <1>1 DEF FirstOf
<1>3. FirstOf(n, K) <= k /\ k <= FirstOf(n, K) /\ FirstOf(n, K) \in Nat /\ k \in Nat
  BY <1>2
<1> QED
  BY <1>3

\* Where a comparison is decided: the first offset that tells the ranges apart or ends
\* them both.
LEMMA DecidedAt ==
    ASSUME NEW n \in Nat, NEW stops \in BOOLEAN, NEW k \in 0 .. n - 1,
           call.d + k \in Addresses, call.s + k \in Addresses,
           was[call.d + k] # was[call.s + k] \/ (stops /\ was[call.d + k] = 0),
           \A j \in 0 .. k - 1 : was[call.d + j] = was[call.s + j] /\ (stops => was[call.d + j] # 0)
    PROVE  Decided(n, stops) = k
<1> DEFINE K == {j \in 0 .. n - 1 :
        /\ {call.d + j, call.s + j} \subseteq Addresses
        /\ was[call.d + j] # was[call.s + j] \/ (stops /\ was[call.d + j] = 0)}
<1>1. k \in K /\ K \subseteq Nat
  OBVIOUS
<1>2. ASSUME NEW j \in K PROVE k <= j
  <2>1. j \in 0 .. n - 1 /\ (was[call.d + j] # was[call.s + j] \/ (stops /\ was[call.d + j] = 0))
    OBVIOUS
  <2>2. ~(j < k)
    <3>1. j < k => j \in 0 .. k - 1
      BY <2>1
    <3> QED
      BY <2>1, <3>1
  <2> QED
    BY <2>1, <2>2
<1>3. Decided(n, stops) = FirstOf(n, K)
  BY DEF Decided
<1> HIDE DEF K
<1> QED
  BY <1>1, <1>2, <1>3, FirstIs

\* It is not decided below n when every byte there is the same, and none a terminator.
LEMMA Undecided ==
    ASSUME NEW n \in Nat, NEW stops \in BOOLEAN,
           \A j \in 0 .. n - 1 : was[call.d + j] = was[call.s + j] /\ (stops => was[call.d + j] # 0)
    PROVE  Decided(n, stops) = n
<1>1. {j \in 0 .. n - 1 :
        /\ {call.d + j, call.s + j} \subseteq Addresses
        /\ was[call.d + j] # was[call.s + j] \/ (stops /\ was[call.d + j] = 0)} = {}
  OBVIOUS
<1> QED
  BY <1>1 DEF Decided, FirstOf

\* How many bytes a comparison may take, and what it returns.
Most == IF call.fn = "strcmp" THEN Size ELSE call.n
Stops == call.fn # "memcmp"
Answer == Difference(Most, Decided(Most, Stops))

\* A comparison that returns its answer, and stored nothing, keeps its contract.
LEMMA Compared ==
    ASSUME call.fn \in Compares, UNCHANGED <<call, was>>, mem' = was, ret' = Answer
    PROVE  Contract'
<1>1. call' = call /\ was' = was
  OBVIOUS
<1>2. ret' = Answer'
  BY <1>1 DEF Answer, Difference, Decided, Most, Stops
<1>3. CASE call.fn = "memcmp"
  <2>1. ret' = Difference(call.n, Decided(call.n, FALSE))'
    BY <1>1, <1>2, <1>3 DEF Answer, Most, Stops
  <2> QED
    BY <1>1, <1>3, <2>1 DEF Contract
<1>4. CASE call.fn = "strcmp"
  <2>1. ret' = Difference(Size, Decided(Size, TRUE))'
    BY <1>1, <1>2, <1>4 DEF Answer, Most, Stops
  <2> QED
    BY <1>1, <1>4, <2>1 DEF Contract
<1>5. CASE call.fn = "strncmp"
  <2>1. ret' = Difference(call.n, Decided(call.n, TRUE))'
    BY <1>1, <1>2, <1>5 DEF Answer, Most, Stops
  <2> QED
    BY <1>1, <1>5, <2>1 DEF Contract
<1> QED
  BY <1>3, <1>4, <1>5 DEF Compares

\* A byte is an integer.
LEMMA BytesInt == \A x \in Bytes : x \in Int
<1>1. \A x \in Bytes : x \in 0 .. 255
  BY StringsAssumption
<1> QED
  BY <1>1

\* The answer of a comparison that an offset decides.
LEMMA AnswerAt ==
    ASSUME was \in Memories, Most \in Nat, NEW k \in 0 .. Most - 1,
           call.d + k \in Addresses, call.s + k \in Addresses,
           was[call.d + k] # was[call.s + k] \/ (Stops /\ was[call.d + k] = 0),
           Same(k), Stops => NoEnd(call.d, k)
    PROVE  Answer = was[call.d + k] - was[call.s + k] /\ Answer \in Int
<1>1. Stops \in BOOLEAN
  BY DEF Stops
<1>2. \A j \in 0 .. k - 1 : was[call.d + j] = was[call.s + j] /\ (Stops => was[call.d + j] # 0)
  BY DEF Same, NoEnd
<1>3. Decided(Most, Stops) = k
  BY <1>1, <1>2, DecidedAt
<1>4. was[call.d + k] \in Bytes /\ was[call.s + k] \in Bytes
  BY DEF Memories
<1>5. was[call.d + k] \in Int /\ was[call.s + k] \in Int
  BY <1>4, BytesInt
<1> QED
  BY <1>3, <1>5 DEF Answer, Difference

\* The answer of one that none decides.
LEMMA AnswerNone ==
    ASSUME Most \in Nat, Same(Most), Stops => NoEnd(call.d, Most)
    PROVE  Answer = 0
<1>1. Stops \in BOOLEAN
  BY DEF Stops
<1>2. \A j \in 0 .. Most - 1 : was[call.d + j] = was[call.s + j] /\ (Stops => was[call.d + j] # 0)
  BY DEF Same, NoEnd
<1>3. Decided(Most, Stops) = Most
  BY <1>1, <1>2, Undecided
<1> QED
  BY <1>3 DEF Answer, Difference

\* memcmp() tells the two ranges apart at the first byte that differs.
LEMMA MemcmpKeeps == ASSUME IInv, memcmp PROVE IInv'
<1> DEFINE more == i < call.n /\ mem[D] = mem[S]
<1>1. /\ at = "loop" /\ call.fn = "memcmp" /\ call # NoCall
      /\ call' = call /\ was' = was /\ mem' = mem
      /\ reads' = reads \cup (IF i < call.n THEN {D, S} ELSE {})
      /\ more => i' = i + 1 /\ at' = at /\ ret' = ret
      /\ ~more => at' = "idle" /\ i' = i /\ ret' = (IF i < call.n THEN mem[D] - mem[S] ELSE 0)
  BY DEF memcmp, Turn, NoCall, IInv, Bounded
<1>2. /\ call \in Calls /\ Legal(was, call) /\ reads \subseteq Readable
      /\ mem \in Memories /\ was \in Memories /\ i \in 0 .. Size /\ Size \in Nat
      /\ call.d \in Addresses /\ call.s \in Addresses /\ call.n \in 0 .. Size
      /\ ret \in Int \cup {NULL} /\ i \in Nat /\ call.d \in Nat /\ call.s \in Nat /\ call.n \in Nat
  BY <1>1, Running
<1>3. i <= call.n /\ mem = was /\ Same(i)
  BY <1>1 DEF IInv, Loops
<1>4. /\ call.s + call.n <= Size /\ call.d + call.n <= Size
      /\ Span(call.s, call.n) \subseteq Readable /\ Span(call.d, call.n) \subseteq Readable
  <2>1. Extent(was, call, call.s) = call.n /\ Extent(was, call, call.d) = call.n /\ call.fn \in Compares
    BY <1>1 DEF Extent, Compares
  <2> QED
    BY <1>2, <2>1, LegalFacts DEF Readable
<1>5. ASSUME i < call.n
      PROVE  /\ D \in Addresses /\ S \in Addresses /\ D = call.d + i /\ S = call.s + i
             /\ {D, S} \subseteq Readable
  BY <1>2, <1>4, <1>5 DEF D, S, Span, Addresses
<1>6. reads' \subseteq Readable
  BY <1>1, <1>2, <1>5
<1>7. CASE more
  <2>1. Same(i)'
    BY <1>1, <1>2, <1>3, <1>5, <1>7 DEF Same
  <2>2. Loops'
    BY <1>1, <1>2, <1>3, <1>7, <2>1 DEF Loops
  <2>3. i' \in 0 .. Size /\ ret' = ret /\ at' = "loop"
    BY <1>1, <1>2, <1>7
  <2> QED
    BY <1>1, <1>2, <1>6, <2>2, <2>3, Onward
<1>8. CASE ~more
  <2>1. Most = call.n /\ ~Stops
    BY <1>1 DEF Most, Stops
  <2>2. ret' = Answer /\ ret' \in Int
    <3>1. CASE i < call.n
      <4>1. was[call.d + i] # was[call.s + i] /\ i \in 0 .. Most - 1
        BY <1>2, <1>3, <1>5, <1>8, <2>1, <3>1
      <4>2. Answer = was[call.d + i] - was[call.s + i] /\ Answer \in Int
        BY <1>2, <1>3, <1>5, <2>1, <3>1, <4>1, AnswerAt
      <4> QED
        BY <1>1, <1>3, <1>5, <1>8, <3>1, <4>2
    <3>2. CASE ~(i < call.n)
      <4>1. i = call.n /\ ret' = 0
        BY <1>1, <1>2, <1>3, <1>8, <3>2
      <4>2. Answer = 0
        BY <1>2, <1>3, <2>1, <4>1, AnswerNone
      <4> QED
        BY <4>1, <4>2
    <3> QED
      BY <3>1, <3>2
  <2>3. Contract'
    BY <1>1, <1>3, <2>2, Compared DEF Compares
  <2> QED
    BY <1>1, <1>2, <1>6, <1>8, <2>2, <2>3, Onward
<1> QED
  BY <1>7, <1>8

\* memchr() returns the first byte that is the one it looks for.
LEMMA MemchrKeeps == ASSUME IInv, memchr PROVE IInv'
<1> DEFINE more == i < call.n /\ mem[D] # Char(call.c)
<1>1. /\ at = "loop" /\ call.fn = "memchr" /\ call # NoCall
      /\ call' = call /\ was' = was /\ mem' = mem
      /\ reads' = reads \cup (IF i < call.n THEN {D} ELSE {})
      /\ more => i' = i + 1 /\ at' = at /\ ret' = ret
      /\ ~more => at' = "idle" /\ i' = i /\ ret' = (IF i < call.n THEN D ELSE NULL)
  BY DEF memchr, Turn, NoCall, IInv, Bounded
<1>2. /\ call \in Calls /\ Legal(was, call) /\ reads \subseteq Readable
      /\ mem \in Memories /\ was \in Memories /\ i \in 0 .. Size /\ Size \in Nat
      /\ call.d \in Addresses /\ call.s \in Addresses /\ call.n \in 0 .. Size
      /\ ret \in Int \cup {NULL} /\ i \in Nat /\ call.d \in Nat /\ call.s \in Nat /\ call.n \in Nat
  BY <1>1, Running
<1>3. i <= call.n /\ mem = was /\ \A j \in 0 .. i - 1 : was[call.d + j] # Char(call.c)
  BY <1>1 DEF IInv, Loops
<1>4. call.s = call.d /\ call.d + call.n <= Size /\ Span(call.d, call.n) \subseteq Readable
  <2>1. Extent(was, call, call.s) = call.n /\ call.s = call.d
    BY <1>1, <1>2 DEF Extent, Legal
  <2> QED
    BY <1>2, <2>1, LegalFacts DEF Readable
<1>5. ASSUME i < call.n PROVE D \in Addresses /\ D = call.d + i /\ D \in Readable /\ D \in Span(call.d, call.n)
  BY <1>2, <1>4, <1>5 DEF D, Span, Addresses
<1>6. reads' \subseteq Readable
  BY <1>1, <1>2, <1>5
<1>7. CASE more
  <2>1. \A j \in 0 .. i' - 1 : was[call.d + j] # Char(call.c)
    BY <1>1, <1>2, <1>3, <1>5, <1>7
  <2>2. Loops'
    BY <1>1, <1>2, <1>3, <1>7, <2>1 DEF Loops
  <2>3. i' \in 0 .. Size /\ ret' = ret /\ at' = "loop"
    BY <1>1, <1>2, <1>7
  <2> QED
    BY <1>1, <1>2, <1>6, <2>2, <2>3, Onward
<1>8. CASE ~more
  <2> DEFINE found == {a \in Span(call.d, call.n) : was[a] = call.c % 256}
  <2>1. ASSUME NEW a \in Span(call.d, i) PROVE was[a] # call.c % 256
    <3>1. a - call.d \in 0 .. i - 1 /\ call.d + (a - call.d) = a
      BY <1>2 DEF Span
    <3> QED
      BY <1>3, <3>1 DEF Char
  <2>2. (IF found = {} THEN ret' = NULL ELSE ret' \in found /\ \A a \in found : ret' <= a)
        /\ ret' \in Int \cup {NULL}
    <3>1. CASE i < call.n
      <4>1. ret' = D /\ D \in found /\ D = call.d + i
        BY <1>1, <1>3, <1>5, <1>8, <3>1 DEF Char
      <4>2. ASSUME NEW a \in found PROVE D <= a
        <5>1. a \in Span(call.d, call.n) /\ a \notin Span(call.d, i)
          BY <2>1
        <5> QED
          BY <1>2, <4>1, <5>1 DEF Span
      <4> QED
        BY <1>2, <4>1, <4>2
    <3>2. CASE ~(i < call.n)
      <4>1. i = call.n /\ ret' = NULL
        BY <1>1, <1>2, <1>3, <1>8, <3>2
      <4>2. found = {}
        BY <2>1, <4>1
      <4> QED
        BY <4>1, <4>2
    <3> QED
      BY <3>1, <3>2
  <2>3. call' = call /\ was' = was /\ mem' = was
    BY <1>1, <1>3
  <2>4. found' = found
    BY <2>3 DEF Span
  <2>5. IF found' = {} THEN ret' = NULL ELSE ret' \in found' /\ \A a \in found' : ret' <= a
    BY <2>2, <2>4
  <2>6. call'.fn = "memchr" /\ mem' = was'
    BY <1>1, <2>3
  <2>7. Contract'
    BY <2>5, <2>6 DEF Contract
  <2> QED
    BY <1>1, <1>2, <1>6, <1>8, <2>2, <2>7, Onward
<1> QED
  BY <1>7, <1>8

-----------------------------------------------------------------------------
(* The functions on strings *)

\* A byte of a string is read only where none before it was the terminator.
LEMMA InString ==
    ASSUME call \in Calls, Legal(was, call), call.fn \in Strs \cup Counted, i \in Nat,
           call.fn \in Counted => i < call.n
    PROVE  /\ NoEnd(call.s, i) => S \in Addresses /\ S \in Readable
           /\ NoEnd(call.d, i) /\ call.fn \in {"strcmp", "strncmp"} => D \in Addresses /\ D \in Readable
<1>1. /\ call.d \in Addresses /\ call.s \in Addresses
      /\ call.fn \in Strs => Ends(was, call.s) # {}
      /\ call.fn = "strcmp" => Ends(was, call.d) # {}
      /\ Extent(was, call, call.s) \in Nat /\ call.s + Extent(was, call, call.s) <= Size
      /\ call.fn \in Compares =>
            Extent(was, call, call.d) \in Nat /\ call.d + Extent(was, call, call.d) <= Size
  BY LegalFacts
<1>2. ASSUME NoEnd(call.s, i) PROVE S \in Addresses /\ S \in Readable
  <2>1. i < Extent(was, call, call.s) /\ call.s + i \in Addresses
    BY <1>1, <1>2, Reach DEF NoEnd
  <2>2. S \in Span(call.s, Extent(was, call, call.s))
    BY <1>1, <2>1, StringsAssumption DEF S, Span, Addresses
  <2> QED
    BY <2>1, <2>2 DEF Readable, S
<1>3. ASSUME NoEnd(call.d, i), call.fn \in {"strcmp", "strncmp"} PROVE D \in Addresses /\ D \in Readable
  <2>1. call.fn \in Compares /\ (call.fn \in Strs => call.fn = "strcmp")
    BY <1>3 DEF Compares, Strs
  <2>2. i < Extent(was, call, call.d) /\ call.d + i \in Addresses
    BY <1>1, <1>3, <2>1, Reach DEF NoEnd
  <2>3. D \in Span(call.d, Extent(was, call, call.d))
    BY <1>1, <2>1, <2>2, StringsAssumption DEF D, Span, Addresses
  <2> QED
    BY <2>1, <2>2, <2>3 DEF Readable, D
<1> QED
  BY <1>2, <1>3

\* One offset more at which no string ended.
LEMMA NoEndMore ==
    ASSUME NEW x, NEW k \in Nat, NoEnd(x, k), was[x + k] # 0
    PROVE  NoEnd(x, k + 1)
BY DEF NoEnd

\* One offset more at which the ranges are the same; where one has no end nor has the other.
LEMMA SameMore ==
    ASSUME NEW k \in Nat, Same(k), was[call.d + k] = was[call.s + k]
    PROVE  Same(k + 1)
BY DEF Same

\* Two strings that are the same so far have no end there, or both have.
LEMMA SameEnds == ASSUME NEW k, Same(k), NoEnd(call.d, k) PROVE NoEnd(call.s, k)
BY DEF Same, NoEnd

\* A string that has its first 0 at an offset has that length.
LEMMA EndsHere ==
    ASSUME NEW a \in Addresses, NEW k \in Nat, a + k \in Addresses, was[a + k] = 0, NoEnd(a, k)
    PROVE  Ends(was, a) # {} /\ StrLen(was, a) = k
<1>1. \A j \in 0 .. k - 1 : was[a + j] # 0
  BY DEF NoEnd
<1> QED
  BY <1>1, LengthIs

\* strlen() stops at the terminator.
LEMMA StrlenKeeps == ASSUME IInv, strlen PROVE IInv'
<1>1. /\ at = "loop" /\ call.fn = "strlen" /\ call # NoCall
      /\ call' = call /\ was' = was /\ mem' = mem /\ reads' = reads \cup {D}
      /\ mem[D] # 0 => i' = i + 1 /\ at' = at /\ ret' = ret
      /\ ~(mem[D] # 0) => at' = "idle" /\ i' = i /\ ret' = i
  BY DEF strlen, Turn, NoCall, IInv
<1>2. /\ call \in Calls /\ Legal(was, call) /\ reads \subseteq Readable
      /\ mem \in Memories /\ was \in Memories /\ i \in 0 .. Size /\ Size \in Nat
      /\ call.d \in Addresses /\ ret \in Int \cup {NULL} /\ i \in Nat /\ call.d \in Nat
  BY <1>1, Running
<1>3. mem = was /\ NoEnd(call.d, i) /\ call.s = call.d
  BY <1>1, <1>2 DEF IInv, Loops, Legal
<1>4. D \in Addresses /\ D \in Readable /\ D = call.d + i /\ S = D
  <2>1. S = D /\ D = call.d + i
    BY <1>3 DEF S, D
  <2>2. call.fn \in Strs \cup Counted /\ (call.fn \in Counted => i < call.n)
    BY <1>1 DEF Strs, Counted
  <2>3. S \in Addresses /\ S \in Readable
    BY <1>2, <1>3, <2>2, InString
  <2> QED
    BY <2>1, <2>3
<1>5. reads' \subseteq Readable
  BY <1>1, <1>2, <1>4
<1>6. CASE mem[D] # 0
  <2>1. NoEnd(call.d, i + 1)
    BY <1>2, <1>3, <1>4, <1>6, NoEndMore
  <2>2. NoEnd(call.d, i)'
    BY <1>1, <1>6, <2>1 DEF NoEnd
  <2>3. Loops'
    BY <1>1, <1>3, <2>2 DEF Loops
  <2>4. i' \in 0 .. Size /\ ret' = ret /\ at' = "loop"
    BY <1>1, <1>2, <1>4, <1>6 DEF Addresses
  <2> QED
    BY <1>1, <1>2, <1>5, <2>3, <2>4, Onward
<1>7. CASE ~(mem[D] # 0)
  <2>1. StrLen(was, call.d) = i
    BY <1>2, <1>3, <1>4, <1>7, EndsHere
  <2>2. Contract'
    BY <1>1, <1>3, <1>7, <2>1 DEF Contract
  <2> QED
    BY <1>1, <1>2, <1>5, <1>7, <2>2, Onward
<1> QED
  BY <1>6, <1>7

\* strcmp() is decided where the strings differ or both end.
LEMMA StrcmpKeeps == ASSUME IInv, strcmp PROVE IInv'
<1> DEFINE more == mem[D] = mem[S] /\ mem[D] # 0
<1>1. /\ at = "loop" /\ call.fn = "strcmp" /\ call # NoCall
      /\ call' = call /\ was' = was /\ mem' = mem /\ reads' = reads \cup {D, S}
      /\ more => i' = i + 1 /\ at' = at /\ ret' = ret
      /\ ~more => at' = "idle" /\ i' = i /\ ret' = mem[D] - mem[S]
  BY DEF strcmp, Turn, NoCall, IInv
<1>2. /\ call \in Calls /\ Legal(was, call) /\ reads \subseteq Readable
      /\ mem \in Memories /\ was \in Memories /\ i \in 0 .. Size /\ Size \in Nat
      /\ call.d \in Addresses /\ ret \in Int \cup {NULL} /\ i \in Nat /\ call.d \in Nat
  BY <1>1, Running
<1>3. mem = was /\ NoEnd(call.d, i) /\ Same(i) /\ NoEnd(call.s, i)
  BY <1>1, SameEnds DEF IInv, Loops
<1>4. /\ D \in Addresses /\ D \in Readable /\ D = call.d + i
      /\ S \in Addresses /\ S \in Readable /\ S = call.s + i
  <2>1. call.fn \in Strs \cup Counted /\ (call.fn \in Counted => i < call.n)
    BY <1>1 DEF Strs, Counted
  <2> QED
    BY <1>1, <1>2, <1>3, <2>1, InString DEF D, S
<1>5. reads' \subseteq Readable
  BY <1>1, <1>2, <1>4
<1>6. CASE more
  <2>1. NoEnd(call.d, i + 1) /\ Same(i + 1)
    BY <1>2, <1>3, <1>4, <1>6, NoEndMore, SameMore
  <2>2. NoEnd(call.d, i)' /\ Same(i)'
    BY <1>1, <1>6, <2>1 DEF NoEnd, Same
  <2>3. Loops'
    BY <1>1, <1>3, <2>2 DEF Loops
  <2>4. i' \in 0 .. Size /\ ret' = ret /\ at' = "loop"
    BY <1>1, <1>2, <1>4, <1>6 DEF Addresses
  <2> QED
    BY <1>1, <1>2, <1>5, <2>3, <2>4, Onward
<1>7. CASE ~more
  <2>1. Most = Size /\ Stops
    BY <1>1 DEF Most, Stops
  <2>2. i \in 0 .. Most - 1 /\ (was[call.d + i] # was[call.s + i] \/ (Stops /\ was[call.d + i] = 0))
    <3>1. i \in 0 .. Most - 1
      BY <1>2, <1>4, <2>1 DEF Addresses
    <3> QED
      BY <1>3, <1>4, <1>7, <2>1, <3>1
  <2>3. Answer = was[call.d + i] - was[call.s + i] /\ Answer \in Int
    BY <1>2, <1>3, <1>4, <2>1, <2>2, AnswerAt
  <2>4. ret' = Answer
    BY <1>1, <1>3, <1>4, <1>7, <2>3
  <2>5. Contract'
    BY <1>1, <1>3, <2>4, Compared DEF Compares
  <2> QED
    BY <1>1, <1>2, <1>5, <1>7, <2>3, <2>4, <2>5, Onward
<1> QED
  BY <1>6, <1>7

\* strncmp() is decided where the strings differ, where both end, or at its bound.
LEMMA StrncmpKeeps == ASSUME IInv, strncmp PROVE IInv'
<1> DEFINE more == i < call.n /\ mem[D] = mem[S] /\ mem[D] # 0
<1>1. /\ at = "loop" /\ call.fn = "strncmp" /\ call # NoCall
      /\ call' = call /\ was' = was /\ mem' = mem
      /\ reads' = reads \cup (IF i < call.n THEN {D, S} ELSE {})
      /\ more => i' = i + 1 /\ at' = at /\ ret' = ret
      /\ ~more => at' = "idle" /\ i' = i /\ ret' = (IF i < call.n THEN mem[D] - mem[S] ELSE 0)
  BY DEF strncmp, Turn, NoCall, IInv, Bounded
<1>2. /\ call \in Calls /\ Legal(was, call) /\ reads \subseteq Readable
      /\ mem \in Memories /\ was \in Memories /\ i \in 0 .. Size /\ Size \in Nat
      /\ call.d \in Addresses /\ call.n \in 0 .. Size /\ call.n \in Nat
      /\ ret \in Int \cup {NULL} /\ i \in Nat /\ call.d \in Nat
  BY <1>1, Running
<1>3. i <= call.n /\ mem = was /\ NoEnd(call.d, i) /\ Same(i) /\ NoEnd(call.s, i)
  BY <1>1, SameEnds DEF IInv, Loops
<1>4. ASSUME i < call.n
      PROVE  /\ D \in Addresses /\ D \in Readable /\ D = call.d + i
             /\ S \in Addresses /\ S \in Readable /\ S = call.s + i
  <2>1. call.fn \in Strs \cup Counted /\ (call.fn \in Counted => i < call.n)
    BY <1>1, <1>4 DEF Strs, Counted
  <2> QED
    BY <1>1, <1>2, <1>3, <2>1, InString DEF D, S
<1>5. reads' \subseteq Readable
  BY <1>1, <1>2, <1>4
<1>6. CASE more
  <2>1. NoEnd(call.d, i + 1) /\ Same(i + 1)
    BY <1>2, <1>3, <1>4, <1>6, NoEndMore, SameMore
  <2>2. NoEnd(call.d, i)' /\ Same(i)'
    BY <1>1, <1>6, <2>1 DEF NoEnd, Same
  <2>3. Loops'
    BY <1>1, <1>2, <1>3, <1>6, <2>2 DEF Loops
  <2>4. i' \in 0 .. Size /\ ret' = ret /\ at' = "loop"
    BY <1>1, <1>2, <1>6
  <2> QED
    BY <1>1, <1>2, <1>5, <2>3, <2>4, Onward
<1>7. CASE ~more
  <2>1. Most = call.n /\ Stops
    BY <1>1 DEF Most, Stops
  <2>2. ret' = Answer /\ ret' \in Int
    <3>1. CASE i < call.n
      <4>1. i \in 0 .. Most - 1 /\ (was[call.d + i] # was[call.s + i] \/ (Stops /\ was[call.d + i] = 0))
        BY <1>2, <1>3, <1>4, <1>7, <2>1, <3>1
      <4>2. Answer = was[call.d + i] - was[call.s + i] /\ Answer \in Int
        BY <1>2, <1>3, <1>4, <2>1, <3>1, <4>1, AnswerAt
      <4> QED
        BY <1>1, <1>3, <1>4, <1>7, <3>1, <4>2
    <3>2. CASE ~(i < call.n)
      <4>1. i = call.n /\ ret' = 0
        BY <1>1, <1>2, <1>3, <1>7, <3>2
      <4>2. Answer = 0
        BY <1>2, <1>3, <2>1, <4>1, AnswerNone
      <4> QED
        BY <4>1, <4>2
    <3> QED
      BY <3>1, <3>2
  <2>3. Contract'
    BY <1>1, <1>3, <2>2, Compared DEF Compares
  <2> QED
    BY <1>1, <1>2, <1>5, <1>7, <2>2, <2>3, Onward
<1> QED
  BY <1>6, <1>7

\* A byte stored at the end of what is moved, when it is the one that belongs there.
LEMMA MovedMore ==
    ASSUME mem \in Memories, call.d \in Nat, call.s \in Nat, NEW k \in Nat, Moved(0, k),
           call.d + k \in Addresses
    PROVE  LET m == [mem EXCEPT ![call.d + k] = was[call.s + k]] IN
           \A a \in Addresses :
              m[a] = IF a \in call.d + 0 .. call.d + (k + 1) - 1 THEN was[call.s + (a - call.d)] ELSE was[a]
<1> SUFFICES ASSUME NEW a \in Addresses
             PROVE  [mem EXCEPT ![call.d + k] = was[call.s + k]][a] =
                       IF a \in call.d + 0 .. call.d + (k + 1) - 1
                       THEN was[call.s + (a - call.d)] ELSE was[a]
  OBVIOUS
<1>1. a \in Int /\ call.d + k \in Int
  BY StringsAssumption DEF Addresses
<1>2. CASE a = call.d + k
  <2>1. a \in call.d + 0 .. call.d + (k + 1) - 1 /\ call.s + (a - call.d) = call.s + k
    BY <1>2
  <2> QED
    BY <1>2, <2>1 DEF Memories
<1>3. CASE a # call.d + k
  <2>1. a \in call.d + 0 .. call.d + (k + 1) - 1 <=> a \in call.d + 0 .. call.d + k - 1
    BY <1>1, <1>3
  <2>2. mem[a] = IF a \in call.d + 0 .. call.d + k - 1 THEN was[call.s + (a - call.d)] ELSE was[a]
    BY DEF Moved
  <2> QED
    BY <1>3, <2>1, <2>2 DEF Memories
<1> QED
  BY <1>2, <1>3

\* What is stored so far leaves a byte beyond it, which a copy reads, as it was.
LEMMA SourceKept ==
    ASSUME call \in Calls, Legal(was, call), call.fn \in {"strcpy", "strncpy"}, Moved(0, i), i \in Nat,
           S \in Addresses, S \in Readable, i <= Stored(was, call), Stored(was, call) \in Nat
    PROVE  mem[S] = was[S]
<1>1. call.d \in Nat /\ call.s \in Nat
  BY StringsAssumption DEF Calls, Addresses
<1>2. Span(call.d, Stored(was, call)) \cap Span(call.s, Extent(was, call, call.s)) = {}
  BY DEF Legal
<1>3. S \in Span(call.s, Extent(was, call, call.s))
  BY DEF Readable, Compares
<1>4. call.d + 0 .. call.d + i - 1 \subseteq Span(call.d, Stored(was, call))
  BY <1>1 DEF Span
<1>5. S \notin call.d + 0 .. call.d + i - 1
  BY <1>2, <1>3, <1>4
<1> QED
  BY <1>5 DEF Moved

\* strcpy() copies as far as the terminator, and it.
LEMMA StrcpyKeeps == ASSUME IInv, strcpy PROVE IInv'
<1> DEFINE m == [mem EXCEPT ![call.d + i] = was[call.s + i]]
<1>1. /\ at = "loop" /\ call.fn = "strcpy" /\ call # NoCall
      /\ call' = call /\ was' = was /\ mem' = [mem EXCEPT ![D] = mem[S]] /\ reads' = reads \cup {S}
      /\ mem[S] # 0 => i' = i + 1 /\ at' = at /\ ret' = ret
      /\ ~(mem[S] # 0) => at' = "idle" /\ i' = i /\ ret' = call.d
  BY DEF strcpy, Turn, NoCall, IInv, With
<1>2. /\ call \in Calls /\ Legal(was, call) /\ reads \subseteq Readable
      /\ mem \in Memories /\ was \in Memories /\ i \in 0 .. Size /\ Size \in Nat
      /\ call.d \in Addresses /\ call.s \in Addresses
      /\ ret \in Int \cup {NULL} /\ i \in Nat /\ call.d \in Nat /\ call.s \in Nat
  BY <1>1, Running
<1>3. Moved(0, i) /\ NoEnd(call.s, i)
  BY <1>1 DEF IInv, Loops
<1>4. S \in Addresses /\ S \in Readable /\ S = call.s + i /\ D = call.d + i
  <2>1. call.fn \in Strs \cup Counted /\ (call.fn \in Counted => i < call.n)
    BY <1>1 DEF Strs, Counted
  <2> QED
    BY <1>2, <1>3, <2>1, InString DEF S, D
<1>5. /\ StrLen(was, call.s) \in Nat /\ i <= StrLen(was, call.s)
      /\ Stored(was, call) = StrLen(was, call.s) + 1 /\ D \in Addresses
  <2>1. Ends(was, call.s) # {} /\ call.fn \notin Compares
    BY <1>1, <1>2, LegalFacts DEF Strs, Compares
  <2>2. StrLen(was, call.s) \in Nat /\ was[call.s + StrLen(was, call.s)] = 0
    BY <1>2, <2>1, StrLenFacts
  <2>3. ~(StrLen(was, call.s) < i)
    <3>1. StrLen(was, call.s) < i => StrLen(was, call.s) \in 0 .. i - 1
      BY <1>2, <2>2
    <3> QED
      BY <1>3, <2>2, <3>1 DEF NoEnd
  <2>4. Stored(was, call) = StrLen(was, call.s) + 1 /\ call.d + Stored(was, call) <= Size
    BY <1>1, <1>2, <2>1, LegalFacts DEF Stored
  <2> QED
    BY <1>2, <1>4, <2>2, <2>3, <2>4 DEF Addresses
<1>6. mem[S] = was[S]
  BY <1>1, <1>2, <1>3, <1>4, <1>5, SourceKept
<1>7. mem' = m /\ m \in Memories
  BY <1>1, <1>2, <1>4, <1>5, <1>6 DEF Memories
<1>8. \A a \in Addresses :
         mem'[a] = IF a \in call.d + 0 .. call.d + (i + 1) - 1 THEN was[call.s + (a - call.d)] ELSE was[a]
  BY <1>2, <1>3, <1>4, <1>5, <1>7, MovedMore
<1>9. reads' \subseteq Readable
  BY <1>1, <1>2, <1>4
<1>10. CASE mem[S] # 0
  <2>1. NoEnd(call.s, i + 1)
    BY <1>2, <1>3, <1>4, <1>6, <1>10, NoEndMore
  <2>2. NoEnd(call.s, i)' /\ Moved(0, i)'
    BY <1>1, <1>8, <1>10, <2>1 DEF NoEnd, Moved
  <2>3. Loops'
    BY <1>1, <2>2 DEF Loops
  <2>4. i' \in 0 .. Size /\ ret' = ret /\ at' = "loop"
    BY <1>1, <1>2, <1>4, <1>10 DEF Addresses
  <2> QED
    BY <1>1, <1>2, <1>7, <1>9, <2>3, <2>4, Onward
<1>11. CASE ~(mem[S] # 0)
  <2>1. StrLen(was, call.s) = i
    BY <1>2, <1>3, <1>4, <1>6, <1>11, EndsHere
  <2>2. mem' = [a \in Addresses |-> IF a \in Span(call.d, StrLen(was, call.s) + 1)
                                    THEN was[call.s + (a - call.d)] ELSE was[a]]
    <3>1. mem' \in Memories
      BY <1>7
    <3>2. call.d + 0 .. call.d + (i + 1) - 1 = Span(call.d, i + 1)
      BY <1>2 DEF Span
    <3> QED
      BY <1>8, <2>1, <3>1, <3>2 DEF Memories
  <2>3. Contract'
    BY <1>1, <1>11, <2>2 DEF Contract, Filled
  <2>4. at' = "idle" /\ i' = i /\ ret' = call.d
    BY <1>1, <1>11
  <2>5. i' \in 0 .. Size /\ ret' \in Int
    BY <1>2, <2>4
  <2>6. mem' \in Memories
    BY <1>7
  <2> QED
    BY <1>1, <1>9, <2>3, <2>4, <2>5, <2>6, Onward
<1> QED
  BY <1>10, <1>11

\* The first loop of strncpy() goes no further than its bound; what it stored when it is
\* over is what it owes as far as that.
LEMMA StrncpyCopyKeeps == ASSUME IInv, strncpy_copy PROVE IInv'
<1> DEFINE m == [mem EXCEPT ![call.d + i] = was[call.s + i]]
           more == i < call.n /\ mem[S] # 0
<1>1. /\ at = "loop" /\ call.fn = "strncpy" /\ call # NoCall
      /\ call' = call /\ was' = was /\ ret' = ret
      /\ reads' = reads \cup (IF i < call.n THEN {S} ELSE {})
      /\ more => mem' = [mem EXCEPT ![D] = mem[S]] /\ i' = i + 1 /\ at' = at
      /\ ~more => at' = "pad" /\ mem' = mem /\ i' = i
  BY DEF strncpy_copy, NoCall, IInv, With, Bounded
<1>2. /\ call \in Calls /\ Legal(was, call) /\ reads \subseteq Readable
      /\ mem \in Memories /\ was \in Memories /\ i \in 0 .. Size /\ Size \in Nat
      /\ call.d \in Addresses /\ call.s \in Addresses /\ call.n \in 0 .. Size /\ call.n \in Nat
      /\ ret \in Int \cup {NULL} /\ i \in Nat /\ call.d \in Nat /\ call.s \in Nat
  BY <1>1, Running
<1>3. i <= call.n /\ Moved(0, i) /\ NoEnd(call.s, i)
  BY <1>1 DEF IInv, Loops
<1>4. ASSUME i < call.n
      PROVE  /\ S \in Addresses /\ S \in Readable /\ S = call.s + i /\ D = call.d + i
             /\ D \in Addresses /\ mem[S] = was[S]
  <2>1. call.fn \in Strs \cup Counted /\ (call.fn \in Counted => i < call.n)
    BY <1>1, <1>4 DEF Strs, Counted
  <2>2. S \in Addresses /\ S \in Readable /\ S = call.s + i /\ D = call.d + i
    BY <1>2, <1>3, <2>1, InString DEF S, D
  <2>3. Stored(was, call) = call.n /\ call.fn \notin Compares
    BY <1>1 DEF Stored, Compares
  <2>4. D \in Addresses
    BY <1>2, <1>4, <2>2, <2>3, LegalFacts DEF Addresses
  <2>5. mem[S] = was[S]
    BY <1>1, <1>2, <1>3, <2>2, <2>3, SourceKept
  <2> QED
    BY <2>2, <2>4, <2>5
<1>5. reads' \subseteq Readable
  BY <1>1, <1>2, <1>4
<1>6. CASE more
  <2>1. mem' = m /\ m \in Memories
    BY <1>1, <1>2, <1>4, <1>6 DEF Memories
  <2>2. \A a \in Addresses :
           mem'[a] = IF a \in call.d + 0 .. call.d + (i + 1) - 1
                     THEN was[call.s + (a - call.d)] ELSE was[a]
    BY <1>2, <1>3, <1>4, <1>6, <2>1, MovedMore
  <2>3. NoEnd(call.s, i + 1)
    BY <1>2, <1>3, <1>4, <1>6, NoEndMore
  <2>4. NoEnd(call.s, i)' /\ Moved(0, i)'
    BY <1>1, <1>6, <2>2, <2>3 DEF NoEnd, Moved
  <2>5. Loops'
    BY <1>1, <1>2, <1>3, <1>6, <2>4 DEF Loops
  <2>6. i' \in 0 .. Size /\ ret' = ret /\ at' = "loop"
    BY <1>1, <1>2, <1>6
  <2> QED
    BY <1>1, <1>2, <1>5, <2>1, <2>5, <2>6, Onward
<1>7. CASE ~more
  <2>1. at' = "pad" /\ mem' = mem /\ i' = i
    BY <1>1, <1>7
  <2>2. ASSUME NEW a \in Addresses
        PROVE  mem[a] = IF a \in Span(call.d, i) THEN Owed(a - call.d) ELSE was[a]
    <3>1. mem[a] = IF a \in call.d + 0 .. call.d + i - 1 THEN was[call.s + (a - call.d)] ELSE was[a]
      BY <1>3 DEF Moved
    <3>2. call.d + 0 .. call.d + i - 1 = Span(call.d, i)
      BY <1>2 DEF Span
    <3>3. ASSUME a \in Span(call.d, i) PROVE Owed(a - call.d) = was[call.s + (a - call.d)]
      <4>1. a - call.d \in 0 .. i - 1
        BY <1>2, <3>3 DEF Span
      <4>2. \A j \in 0 .. a - call.d : was[call.s + j] # 0
        BY <1>2, <1>3, <4>1 DEF NoEnd
      <4> QED
        BY <4>2 DEF Owed
    <3> QED
      BY <3>1, <3>2, <3>3
  <2>3. i < call.n => \E j \in 0 .. i : was[call.s + j] = 0
    BY <1>2, <1>4, <1>7
  <2>4. Pads
    BY <1>1, <1>3, <2>2, <2>3 DEF Pads
  <2>5. Pads'
    BY <1>1, <2>1, <2>4 DEF Pads, Owed
  <2> QED
    BY <1>1, <1>2, <1>5, <2>1, <2>5, Onward
<1> QED
  BY <1>6, <1>7

\* The second loop of strncpy() stores a 0 as long as the bound is not reached.
LEMMA StrncpyPadKeeps == ASSUME IInv, strncpy_pad PROVE IInv'
<1>1. /\ at = "pad" /\ Pads /\ call.fn = "strncpy" /\ call # NoCall
      /\ call' = call /\ was' = was /\ reads' = reads
      /\ i < call.n => mem' = [mem EXCEPT ![D] = 0] /\ i' = i + 1 /\ at' = at /\ ret' = ret
      /\ ~(i < call.n) => at' = "idle" /\ mem' = mem /\ i' = i /\ ret' = call.d
  BY DEF strncpy_pad, NoCall, IInv, With, Pads
<1>2. /\ call \in Calls /\ Legal(was, call) /\ reads \subseteq Readable
      /\ mem \in Memories /\ was \in Memories /\ i \in 0 .. Size /\ Size \in Nat
      /\ call.d \in Addresses /\ call.s \in Addresses /\ call.n \in 0 .. Size /\ call.n \in Nat
      /\ ret \in Int \cup {NULL} /\ i \in Nat /\ call.d \in Nat /\ call.s \in Nat
  BY <1>1, Running
<1>3. \A a \in Addresses : mem[a] = IF a \in Span(call.d, i) THEN Owed(a - call.d) ELSE was[a]
  BY <1>1 DEF Pads
<1>4. i <= call.n
  BY <1>1 DEF Pads
<1>5. CASE i < call.n
  <2>1. D \in Addresses /\ D = call.d + i
    <3>1. Stored(was, call) = call.n /\ call.fn \notin Compares
      BY <1>1 DEF Stored, Compares
    <3> QED
      BY <1>2, <1>5, <3>1, LegalFacts DEF D, Addresses
  <2>2. mem' = [mem EXCEPT ![D] = 0] /\ mem' \in Memories
    BY <1>1, <1>2, <1>5, <2>1, StringsAssumption DEF Memories
  <2>3. PICK z \in 0 .. i : was[call.s + z] = 0
    BY <1>1, <1>5 DEF Pads
  <2>4. ASSUME NEW a \in Addresses
        PROVE  mem'[a] = IF a \in Span(call.d, i') THEN Owed(a - call.d) ELSE was[a]
    <3>1. CASE a = D
      <4>1. a \in Span(call.d, i') /\ a - call.d = i
        BY <1>1, <1>2, <1>5, <2>1, <3>1 DEF Span
      <4>2. Owed(i) = 0
        BY <2>3 DEF Owed
      <4> QED
        BY <1>2, <2>1, <2>2, <3>1, <4>1, <4>2 DEF Memories
    <3>2. CASE a # D
      <4>1. a \in Span(call.d, i') <=> a \in Span(call.d, i)
        BY <1>1, <1>2, <1>5, <2>1, <3>2 DEF Addresses, Span
      <4>2. mem'[a] = mem[a]
        BY <1>2, <2>2, <3>2 DEF Memories
      <4> QED
        BY <1>3, <4>1, <4>2
    <3> QED
      BY <3>1, <3>2
  <2>5. \E j \in 0 .. i' : was[call.s + j] = 0
    <3>1. z \in 0 .. i'
      BY <1>1, <1>2, <1>5
    <3> QED
      BY <2>3, <3>1
  <2>6. i' <= call.n /\ i' \in 0 .. Size /\ ret' = ret /\ at' = "pad"
    BY <1>1, <1>2, <1>5
  <2>7. Pads'
    BY <1>1, <2>4, <2>5, <2>6 DEF Pads, Owed
  <2> QED
    BY <1>1, <1>2, <2>2, <2>6, <2>7, Onward
<1>6. CASE ~(i < call.n)
  <2>1. at' = "idle" /\ mem' = mem /\ i' = i /\ ret' = call.d /\ i = call.n
    BY <1>1, <1>2, <1>4, <1>6
  <2>2. mem = [a \in Addresses |-> IF a \in Span(call.d, call.n) THEN Owed(a - call.d) ELSE was[a]]
    BY <1>2, <1>3, <2>1 DEF Memories
  <2>3. Contract'
    BY <1>1, <2>1, <2>2 DEF Contract, Filled, Owed
  <2> QED
    BY <1>1, <1>2, <2>1, <2>3, Onward
<1> QED
  BY <1>5, <1>6

-----------------------------------------------------------------------------
(* The invariant and the theorems *)

\* A function begins with nothing done, in the memory it was called in.
LEMMA BeginKeeps == ASSUME IInv, NEW q \in Calls, Begin(q) PROVE IInv'
<1>1. /\ Legal(mem, q) /\ call' = q /\ at' = "loop" /\ was' = mem /\ reads' = {}
      /\ mem' = mem /\ ret' = ret /\ i' = IF Backward(q) THEN q.n ELSE 0
  BY DEF Begin
<1>2. mem \in Memories /\ ret \in Int \cup {NULL} /\ q.n \in 0 .. Size /\ q.n \in Nat /\ Size \in Nat
  BY StringsAssumption DEF IInv, TypeOK, Memories, Calls
<1>3. q.d \in Nat
  BY StringsAssumption DEF Calls, Addresses
<1>4. i' \in 0 .. Size /\ i' <= q.n
  BY <1>1, <1>2
<1>5. TypeOK'
  BY <1>1, <1>2, <1>4 DEF TypeOK, Memories
<1>6. call' # NoCall /\ call' \in Calls /\ Legal(was, call)' /\ reads' \subseteq Readable'
  BY <1>1, Named
<1>7. mem' = was' /\ Backward(call)' = Backward(q) /\ call' = q
  BY <1>1 DEF Backward
<1>8. CASE Backward(q)
  <2>1. i' = q.n /\ q.fn = "memmove"
    BY <1>1, <1>8 DEF Backward
  <2>2. Moved(i, call.n)'
    BY <1>2, <1>3, <1>7, <2>1 DEF Moved
  <2>3. Loops'
    BY <1>2, <1>7, <1>8, <2>1, <2>2 DEF Loops
  <2> QED
    BY <1>1, <1>5, <1>6, <2>3 DEF IInv
<1>9. CASE ~Backward(q)
  <2>1. i' = 0
    BY <1>1, <1>9
  <2>2. Moved(0, i)' /\ Same(i)' /\ NoEnd(q.s, i)' /\ NoEnd(q.d, i)'
    BY <1>3, <1>7, <2>1 DEF Moved, Same, NoEnd
  <2>3. \A a \in Addresses : mem'[a] = IF a \in Span(q.d, i') THEN Char(q.c) ELSE was'[a]
    BY <1>3, <1>7, <2>1 DEF Span
  <2>4. \A j \in 0 .. i' - 1 : was'[q.d + j] # Char(q.c)
    BY <2>1
  <2>5. Loops'
    BY <1>4, <1>7, <1>9, <2>2, <2>3, <2>4 DEF Loops, NoEnd
  <2> QED
    BY <1>1, <1>5, <1>6, <2>5 DEF IInv
<1> QED
  BY <1>8, <1>9

\* Before any call there is nothing to answer for.
LEMMA InitInv == Init => IInv
BY StringsAssumption DEF Init, IInv, TypeOK, NoCall

\* A caller that has its answer leaves the memory as the call left it.
LEMMA DoneKeeps == ASSUME IInv, Done PROVE IInv'
<1>1. /\ at' = "idle" /\ call' = NoCall /\ i' = 0 /\ ret' = 0 /\ was' = mem /\ reads' = {} /\ mem' = mem
  BY DEF Done
<1>2. mem \in [Addresses -> Bytes]
  BY DEF IInv, TypeOK
<1>3. TypeOK'
  BY <1>1, <1>2, StringsAssumption DEF TypeOK
<1> QED
  BY <1>1, <1>3 DEF IInv

\* What memchr() promises, of the memory and the answer it is asked about.
FirstFound(m, q, r, w) ==
    /\ m = w
    /\ LET found == {a \in Span(q.d, q.n) : w[a] = q.c % 256} IN
       IF found = {} THEN r = NULL ELSE r \in found /\ \A a \in found : r <= a

\* What strncpy() promises, of the memory and the answer it is asked about.
PaddedCopy(m, q, r, w) ==
    /\ m = [a \in Addresses |->
               IF a \in Span(q.d, q.n)
               THEN IF \E j \in 0 .. a - q.d : w[q.s + j] = 0 THEN 0 ELSE w[q.s + (a - q.d)]
               ELSE w[a]]
    /\ r = q.d

\* What a call has done stays done while nothing changes.
LEMMA ContractKept ==
    ASSUME Contract, call \in Calls, UNCHANGED <<mem, call, ret, was>>
    PROVE  Contract'
<1>1. CASE call.fn \in Compares
  <2>1. mem = was /\ ret = Answer
    BY <1>1 DEF Contract, Compares, Answer, Most, Stops
  <2> QED
    BY <1>1, <2>1, Compared
<1>2. CASE call.fn \notin Compares
  <2>1. call.fn \in {"memcpy", "memmove", "memset", "memchr", "strcpy", "strncpy", "strlen"}
    BY <1>2 DEF Calls, Compares
  <2>2. mem' = mem /\ call' = call /\ ret' = ret /\ was' = was
    OBVIOUS
  <2>3. CASE call.fn = "memcpy"
    BY <2>2, <2>3 DEF Contract, Filled
  <2>9. CASE call.fn = "memmove"
    BY <2>2, <2>9 DEF Contract, Filled
  <2>4. CASE call.fn = "memset"
    BY <2>2, <2>4 DEF Contract, Filled
  <2>5. CASE call.fn = "memchr"
    <3>1. FirstFound(mem, call, ret, was)
      BY <2>5 DEF Contract, FirstFound
    <3>2. FirstFound(mem', call', ret', was')
      BY <2>2, <3>1
    <3>3. call'.fn = "memchr"
      BY <2>2, <2>5
    <3> QED
      BY ZenonT(30), <3>2, <3>3 DEF Contract, FirstFound
  <2>6. CASE call.fn = "strcpy"
    BY <2>2, <2>6 DEF Contract, Filled
  <2>7. CASE call.fn = "strncpy"
    <3>1. PaddedCopy(mem, call, ret, was)
      BY <2>7 DEF Contract, Filled, PaddedCopy
    <3>2. PaddedCopy(mem', call', ret', was')
      BY <2>2, <3>1
    <3>3. call'.fn = "strncpy"
      BY <2>2, <2>7
    <3> QED
      BY <3>2, <3>3 DEF Contract, Filled, PaddedCopy
  <2>8. CASE call.fn = "strlen"
    BY <2>2, <2>8 DEF Contract
  <2> QED
    BY <2>1, <2>3, <2>4, <2>5, <2>6, <2>7, <2>8, <2>9
<1> QED
  BY <1>1, <1>2

\* Every step keeps the invariant.
LEMMA NextInv == IInv /\ [Next]_vars => IInv'
<1> SUFFICES ASSUME IInv, [Next]_vars PROVE IInv'
  OBVIOUS
<1>1. CASE Step
  BY <1>1, CopyForwardKeeps, CopyBackwardKeeps, MemsetKeeps, MemcmpKeeps, MemchrKeeps, StrcpyKeeps,
     StrncpyCopyKeeps, StrncpyPadKeeps, StrlenKeeps, StrcmpKeeps, StrncmpKeeps DEF Step
<1>2. CASE Done
  BY <1>2, DoneKeeps
<1>3. CASE \E q \in Calls : Begin(q)
  BY <1>3, BeginKeeps
<1>4. CASE UNCHANGED vars
  <2>1. /\ call' = call /\ was' = was /\ mem' = mem /\ at' = at /\ i' = i /\ ret' = ret /\ reads' = reads
    BY <1>4 DEF vars
  <2>2. CASE call = NoCall
    BY <2>1, <2>2 DEF IInv, TypeOK
  <2>3. CASE call # NoCall
    <3>1. /\ mem \in Memories /\ i \in 0 .. Size /\ ret \in Int \cup {NULL} /\ reads \subseteq Readable
          /\ at \in {"idle", "loop", "pad"}
      BY <2>3, Running DEF IInv, TypeOK
    <3>2. at = "loop" => Loops'
      BY <2>1 DEF IInv, Loops, Moved, Same, NoEnd
    <3>3. at = "pad" => Pads'
      BY <2>1 DEF IInv, Pads, Owed
    <3>4. at = "idle" => Contract'
      BY <2>1, <2>3, ContractKept DEF IInv
    <3> QED
      BY <2>1, <2>3, <3>1, <3>2, <3>3, <3>4, Onward
  <2> QED
    BY <2>2, <2>3
<1> QED
  BY <1>1, <1>2, <1>3, <1>4 DEF Next

\* The invariant holds in every reachable state.
LEMMA Inductive == Spec => []IInv
BY InitInv, NextInv, PTL DEF Spec

\* What every function of string.c leaves in the memory and returns is what the C standard
\* says, for every memory, every legal range and every character (CallExact).
THEOREM StringsExact == Spec => []CallExact
<1>1. IInv => CallExact
  BY DEF IInv, CallExact
<1> QED
  BY <1>1, Inductive, PTL

\* No function reads outside the ranges and past the terminators it was given
\* (ReadsInBounds).
THEOREM ReadsKept == Spec => []ReadsInBounds
<1>1. IInv => ReadsInBounds
  BY DEF IInv, ReadsInBounds, Readable
<1> QED
  BY <1>1, Inductive, PTL

=============================================================================
