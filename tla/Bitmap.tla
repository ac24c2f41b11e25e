------------------------------- MODULE Bitmap -------------------------------
(***************************************************************************)
(* The bitmap of kernel/lib/bitmap.c over the bytes its caller owns.  A    *)
(* byte is the set of the offsets of its bits, so |=, &= ~ and ^= are      *)
(* union, difference and symmetric difference.  The caller may own more    *)
(* bytes than the bitmap needs.  size_t counts modulo Word.                *)
(***************************************************************************)
EXTENDS Integers, FiniteSets, FiniteSetsExt

CONSTANTS
    Word,       \* 2^width of size_t
    Bytes,      \* bytes the caller owns
    Bits,       \* sizes bitmap_init() is given; the bytes have room for them
    Garbage,    \* what the bytes may hold before bitmap_init()
    Indices,    \* indices, and starts of ranges, callers pass
    Counts,     \* how many indices a range may have
    NULL

Offsets == 0 .. 7

ASSUME BitmapAssumption ==
    /\ Word \in Nat /\ Bytes \in Nat
    /\ \A n \in Bits : n \in Nat /\ n <= 8 * Bytes /\ n + 7 < Word
    /\ Garbage \subseteq SUBSET Offsets
    /\ Indices \subseteq 0 .. Word - 1 /\ Counts \subseteq Nat
    /\ NULL \notin [0 .. Bytes - 1 -> SUBSET Offsets]

VARIABLES
    data, bits,
    call    \* history: the operation called last
vars == <<data, bits, call>>

BITMAP_ERROR == Word - 1

\* bitmap_init(); the bytes are not cleared, and may be no bytes at all.
Init ==
    /\ bits \in Bits
    /\ call = <<"init">>
    /\ \/ data = NULL
       \/ \E byte \in Garbage : data = [b \in 0 .. Bytes - 1 |-> byte]

-----------------------------------------------------------------------------
bitmap_size(n) == (n + 7) \div 8

\* Most operations return at once on a bitmap without bytes or without bits.
Usable == data # NULL /\ bits # 0
InRange(index) == Usable /\ index < bits

\* Mutant: an index is its own offset.
Bug_BIT_OFFSET(index) == index

\* A bit is in byte BYTE_IDX at BIT_OFFSET.
BYTE_IDX(index) == index \div 8
BIT_OFFSET(index) == index % 8

bitmap_test(index) == InRange(index) /\ BIT_OFFSET(index) \in data[BYTE_IDX(index)]

bitmap_zero ==
    /\ data' = IF Usable
               THEN [b \in DOMAIN data |-> IF b < bitmap_size(bits) THEN {} ELSE data[b]]
               ELSE data
    /\ call' = <<"zero">>
    /\ UNCHANGED bits

\* Mutant: the bits after the last one are set with the others.
Bug_bitmap_fill ==
    /\ data' = IF Usable
               THEN [b \in DOMAIN data |-> IF b < bitmap_size(bits) THEN Offsets ELSE data[b]]
               ELSE data
    /\ call' = <<"fill">>
    /\ UNCHANGED bits

\* The last byte keeps only the bits before the remainder.
bitmap_fill ==
    LET last == bitmap_size(bits) - 1
        remainder == bits % 8
    IN
    /\ data' = IF Usable
               THEN [b \in DOMAIN data |->
                        CASE b = last /\ remainder # 0 -> 0 .. remainder - 1
                          [] b = last /\ remainder = 0 -> Offsets
                          [] b < last                  -> Offsets
                          [] OTHER                     -> data[b]]
               ELSE data
    /\ call' = <<"fill">>
    /\ UNCHANGED bits

bitmap_toggle(index) ==
    /\ data' = IF InRange(index)
               THEN [data EXCEPT ![BYTE_IDX(index)] =
                        (@ \ {BIT_OFFSET(index)}) \cup ({BIT_OFFSET(index)} \ @)]
               ELSE data
    /\ call' = <<"toggle", index>>
    /\ UNCHANGED bits

\* The indices start, start + 1, ... a range operation passes on; it comes round
\* to 0 after the largest size_t.
Passed(start, count) == {(start + i) % Word : i \in 0 .. count - 1}

\* The bits of byte b that are named and not past the end.
Named(indices, b) == {o \in Offsets : 8 * b + o \in indices /\ 8 * b + o < bits}

\* bitmap_set() once for every index, in whatever order; a count of 1 is
\* bitmap_set() itself.
bitmap_set_range(start, count) ==
    /\ data' = IF Usable
               THEN [b \in DOMAIN data |-> data[b] \cup Named(Passed(start, count), b)]
               ELSE data
    /\ call' = <<"set", start, count>>
    /\ UNCHANGED bits

\* Mutant: the byte is set to zero whole.
Bug_bitmap_clear_range(start, count) ==
    /\ data' = IF Usable
               THEN [b \in DOMAIN data |->
                        IF Named(Passed(start, count), b) = {} THEN data[b] ELSE {}]
               ELSE data
    /\ call' = <<"clear", start, count>>
    /\ UNCHANGED bits

\* Likewise for bitmap_clear(), which is also what bitmap_test_clear() does.
bitmap_clear_range(start, count) ==
    /\ data' = IF Usable
               THEN [b \in DOMAIN data |-> data[b] \ Named(Passed(start, count), b)]
               ELSE data
    /\ call' = <<"clear", start, count>>
    /\ UNCHANGED bits

Next ==
    \/ bitmap_zero
    \/ bitmap_fill
    \/ \E index \in Indices : bitmap_toggle(index)
    \/ \E start \in Indices, count \in Counts :
          bitmap_set_range(start, count) \/ bitmap_clear_range(start, count)

Spec == Init /\ [][Next]_vars

-----------------------------------------------------------------------------
(* Queries: what they return, BITMAP_ERROR without bytes *)

bitmap_count_set ==
    IF data = NULL THEN BITMAP_ERROR
    ELSE Cardinality({i \in 0 .. bits - 1 : bitmap_test(i)})

bitmap_count_clear == (bits - bitmap_count_set) % Word
bitmap_empty == bitmap_count_set = 0
bitmap_full == bitmap_count_clear = 0

\* The first bit from start on that is set, or is not; bits if there is none.
Search(start, isSet) ==
    LET found == {i \in start .. bits - 1 : bitmap_test(i) = isSet} IN
    IF data = NULL THEN BITMAP_ERROR ELSE IF found = {} THEN bits ELSE Min(found)

bitmap_find_next_clear(start) == Search(start, FALSE)
bitmap_find_next_set(start) == Search(start, TRUE)
bitmap_find_first_clear == Search(0, FALSE)
bitmap_find_first_set == Search(0, TRUE)

\* Mutant: a run of clear bits is not ended by a bit that is set.
Bug_ZeroRun(i, run) ==
    IF bitmap_test(i) THEN run
    ELSE [start |-> IF run.zeros = 0 THEN i ELSE run.start, zeros |-> run.zeros + 1]

\* One turn of the loop of bitmap_find_zero_area().
ZeroRun(i, run) ==
    IF bitmap_test(i) THEN [start |-> run.start, zeros |-> 0]
    ELSE [start |-> IF run.zeros = 0 THEN i ELSE run.start, zeros |-> run.zeros + 1]

bitmap_find_zero_area(count) ==
    LET run[i \in 0 .. bits] ==       \* after i turns
            IF i = 0 THEN [start |-> 0, zeros |-> 0] ELSE ZeroRun(i - 1, run[i - 1])
        long == {i \in 0 .. bits : run[i].zeros = count}
    IN  IF data = NULL \/ count = 0 \/ count > bits THEN BITMAP_ERROR
        ELSE IF long = {} THEN bits ELSE run[Min(long)].start

\* Mutant: the last index of the range is not looked at.
Bug_test_range(start, count) ==
    /\ (start + count) % Word <= bits
    /\ \A i \in 0 .. count - 2 : bitmap_test((start + i) % Word)

bitmap_test_range(start, count) ==
    /\ (start + count) % Word <= bits
    /\ \A i \in 0 .. count - 1 : bitmap_test((start + i) % Word)

bitmap_test_range_clear(start, count) ==
    /\ (start + count) % Word <= bits
    /\ \A i \in 0 .. count - 1 : ~bitmap_test((start + i) % Word)

-----------------------------------------------------------------------------
(* Properties *)

\* The number of bits never changes, nor does which bytes there are.
TypeOK ==
    /\ bits \in Bits
    /\ data = NULL \/ data \in [0 .. Bytes - 1 -> SUBSET Offsets]

\* The bitmap as the set of its indices.
Members == {i \in 0 .. bits - 1 : bitmap_test(i)}

Abstract == INSTANCE BitSet WITH
    bits <- IF data = NULL THEN 0 ELSE bits, members <- Members

\* Byte by byte, the operations are those of a set of indices: the arithmetic on
\* bytes and remainders puts no bit in the wrong place and disturbs no neighbour.
Implements == Abstract!Spec

\* What is not in the bitmap stays the caller's: no bit past the last one is ever
\* set, and a byte the bitmap does not need is not touched at all.
OutsideUntouched ==
    [][data # NULL =>
          \A b \in 0 .. Bytes - 1 :
              /\ \A o \in Offsets : 8 * b + o >= bits /\ o \in data'[b] => o \in data[b]
              /\ 8 * b >= bits => data'[b] = data[b]]_vars

\* bitmap_find_zero_area() finds the first place where count bits are clear and
\* inside, or says bits; and setting that range, as an allocator would, then
\* takes exactly count clear bits or none.  It agrees with the searches for one
\* bit: a caller who looks on from the area meets the next owner's bit past its end.
AreaExact ==
    data # NULL =>
        \A count \in 1 .. bits :
            LET found == bitmap_find_zero_area(count)
                Clear(start) == \A i \in start .. start + count - 1 : i < bits /\ i \notin Members
            IN  /\ found # bits =>
                      /\ Clear(found)
                      /\ bitmap_find_next_clear(found) = found
                      /\ bitmap_find_next_set(found) >= found + count
                /\ count = 1 => found = bitmap_find_first_clear
                /\ \A start \in 0 .. bits - 1 : Clear(start) => found <= start

\* The range tests and the counts answer for the set: a range is all set only if it
\* lies inside, however large its start and count; the test for clear ranges can
\* say the same only of ranges that do not come round the end of size_t.
AnswersExact ==
    /\ \A start \in Indices, count \in Counts \ {0} :
          /\ bitmap_test_range(start, count) <=> start .. start + count - 1 \subseteq Members
          /\ start + count < Word =>
                (bitmap_test_range_clear(start, count) <=>
                    \A i \in start .. start + count - 1 : i < bits /\ i \notin Members)
    /\ data # NULL => /\ bitmap_empty <=> Members = {}
                      /\ bitmap_empty <=> bitmap_find_first_set = bits
                      /\ bitmap_full <=> Members = 0 .. bits - 1
                      /\ bitmap_full <=> bitmap_find_first_clear = bits
=============================================================================
