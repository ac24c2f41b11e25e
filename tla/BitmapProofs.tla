---------------------------- MODULE BitmapProofs ----------------------------
(***************************************************************************)
(* Proofs about Bitmap: for every word width, every number of bytes and    *)
(* every number of bits.                                                   *)
(*                                                                         *)
(* Only the types are invariant; the rest follows in any typed state, or   *)
(* for any step from one.  bitmap_find_zero_area() is the one loop with a  *)
(* memory: what it keeps after a turn is shown by the least turn that      *)
(* would be wrong.                                                         *)
(***************************************************************************)
EXTENDS Bitmap, TLAPS, WellFoundedInduction, FiniteSetTheorems

\* Every index is at an offset of a byte.
LEMMA BytesAndOffsets ==
    ASSUME NEW i \in Nat
    PROVE  /\ BYTE_IDX(i) \in Nat
           /\ BIT_OFFSET(i) \in Offsets
           /\ i = 8 * BYTE_IDX(i) + BIT_OFFSET(i)
BY DEF BYTE_IDX, BIT_OFFSET, Offsets

\* How many bits the last byte has.
LEMMA LastByte ==
    ASSUME NEW n \in Nat
    PROVE  /\ n % 8 \in 0 .. 7
           /\ n % 8 # 0 => n = 8 * ((n + 7) \div 8 - 1) + (n % 8)
           /\ n % 8 = 0 => n = 8 * ((n + 7) \div 8)
<1>1. n % 8 \in 0 .. 7 /\ n = 8 * (n \div 8) + (n % 8)
  OBVIOUS
<1>2. n \div 8 \in Nat
  OBVIOUS
<1>3. \A q \in Nat : (8 * q + 7) \div 8 = q
  OBVIOUS
<1>4. \A q \in Nat, r \in 1 .. 7 : (8 * q + r + 7) \div 8 = q + 1
  OBVIOUS
<1>5. CASE n % 8 = 0
  <2>1. (n + 7) \div 8 = n \div 8
    BY <1>1, <1>2, <1>3, <1>5
  <2> QED
    BY <1>1, <1>2, <1>5, <2>1
<1>6. CASE n % 8 # 0
  <2>1. (n + 7) \div 8 = n \div 8 + 1
    BY <1>1, <1>2, <1>4, <1>6
  <2> QED
    BY <1>1, <1>2, <1>6, <2>1
<1> QED
  BY <1>1, <1>5, <1>6

\* Every operation leaves the same bytes there, or none, and the number of bits.
LEMMA BitmapStep ==
    ASSUME TypeOK, [Next]_vars
    PROVE  TypeOK' /\ UNCHANGED bits /\ (data' = NULL <=> data = NULL)
<1> DEFINE Same == /\ UNCHANGED bits
                   /\ data = NULL => data' = NULL
                   /\ data # NULL => data' \in [0 .. Bytes - 1 -> SUBSET Offsets]
<1> USE DEF TypeOK, Usable
<1>1. ASSUME bitmap_zero PROVE Same
  BY <1>1 DEF bitmap_zero
<1>2. ASSUME bitmap_fill PROVE Same
  <2>1. bits \in Nat
    BY BitmapAssumption
  <2>2. 0 .. (bits % 8) - 1 \subseteq Offsets
    BY <2>1 DEF Offsets
  <2> QED
    BY <1>2, <2>2 DEF bitmap_fill
<1>3. ASSUME NEW index \in Indices, bitmap_toggle(index) PROVE Same
  <2>1. BIT_OFFSET(index) \in Offsets
    BY BitmapAssumption DEF BIT_OFFSET, Offsets
  <2> QED
    BY <1>3, <2>1 DEF bitmap_toggle, InRange
<1>4. ASSUME NEW start \in Indices, NEW count \in Counts,
             bitmap_set_range(start, count) \/ bitmap_clear_range(start, count)
      PROVE  Same
  BY <1>4 DEF bitmap_set_range, bitmap_clear_range, Named
<1>5. ASSUME UNCHANGED vars PROVE Same
  BY <1>5 DEF vars
<1>6. Same
  BY <1>1, <1>2, <1>3, <1>4, <1>5 DEF Next
<1> QED
  BY <1>6, BitmapAssumption

\* The number of bits and the bytes there are never change, whatever is called.
THEOREM BitmapTyped == Spec => []TypeOK
<1>1. Init => TypeOK
  BY BitmapAssumption DEF Init, TypeOK
<1> QED
  BY <1>1, BitmapStep, PTL DEF Spec

-----------------------------------------------------------------------------
\* Nothing outside the bitmap changes, except that bits past the last one may be
\* cleared with the last byte.
THEOREM OutsideStaysTheCallers == Spec => OutsideUntouched
<1> DEFINE Kept ==
      data # NULL =>
          \A b \in 0 .. Bytes - 1 :
              /\ \A o \in Offsets : 8 * b + o >= bits /\ o \in data'[b] => o \in data[b]
              /\ 8 * b >= bits => data'[b] = data[b]
<1>1. TypeOK /\ [Next]_vars => [Kept]_vars
  <2> SUFFICES ASSUME TypeOK, [Next]_vars, data # NULL,
                      NEW b \in 0 .. Bytes - 1
               PROVE  /\ \A o \in Offsets : 8 * b + o >= bits /\ o \in data'[b] => o \in data[b]
                      /\ 8 * b >= bits => data'[b] = data[b]
    OBVIOUS
  <2>0. /\ bits \in Nat /\ Bytes \in Nat
        /\ data \in [0 .. Bytes - 1 -> SUBSET Offsets]
        /\ Indices \subseteq Nat
    BY BitmapAssumption DEF TypeOK
  <2> USE DEF Usable
  <2>1. CASE bitmap_zero
    BY <2>0, <2>1 DEF bitmap_zero, bitmap_size
  <2>2. CASE bitmap_fill
    <3> DEFINE last == (bits + 7) \div 8 - 1
               remainder == bits % 8
    <3>1. /\ last \in Int /\ remainder \in 0 .. 7
          /\ remainder # 0 => bits = 8 * last + remainder
          /\ remainder = 0 => bits = 8 * (last + 1)
      BY <2>0, LastByte
    <3>2. CASE b > last \/ ~Usable
      <4>1. data'[b] = data[b]
        BY <2>0, <2>2, <3>1, <3>2 DEF bitmap_fill, bitmap_size
      <4> QED
        BY <4>1
    <3>3. CASE b = last /\ remainder # 0 /\ Usable
      <4>1. data'[b] = 0 .. remainder - 1
        BY <2>0, <2>2, <3>3 DEF bitmap_fill, bitmap_size
      <4>2. ~(8 * b >= bits) /\ \A o \in 0 .. remainder - 1 : ~(8 * b + o >= bits)
        <5> HIDE DEF last, remainder
        <5> QED
          BY <2>0, <3>1, <3>3
      <4> QED
        BY <4>1, <4>2, Zenon
    <3>4. CASE (b < last \/ (b = last /\ remainder = 0)) /\ Usable
      <4>1. 8 * b + 7 < bits
        BY <2>0, <3>1, <3>4
      <4>2. ~(8 * b >= bits) /\ \A o \in Offsets : ~(8 * b + o >= bits)
        BY <2>0, <4>1 DEF Offsets
      <4> QED
        BY <4>2, Zenon
    <3>5. b > last \/ b = last \/ b < last
      BY <2>0, <3>1
    <3>6. (b > last \/ ~Usable) \/ (b = last /\ remainder # 0 /\ Usable)
             \/ ((b < last \/ (b = last /\ remainder = 0)) /\ Usable)
      BY <3>5
    <3> HIDE DEF last, remainder
    <3> QED
      BY <3>2, <3>3, <3>4, <3>6
  <2>3. ASSUME NEW index \in Indices, bitmap_toggle(index)
        PROVE  /\ \A o \in Offsets : 8 * b + o >= bits /\ o \in data'[b] => o \in data[b]
               /\ 8 * b >= bits => data'[b] = data[b]
    <3>1. CASE InRange(index) /\ b = BYTE_IDX(index)
      <4>1. 8 * b + BIT_OFFSET(index) = index /\ index < bits /\ BIT_OFFSET(index) \in Offsets
        BY <2>0, <3>1, BytesAndOffsets DEF InRange
      <4>2. data'[b] \subseteq data[b] \cup {BIT_OFFSET(index)}
        BY <2>0, <2>3, <3>1 DEF bitmap_toggle
      <4>3. ~(8 * b >= bits) /\ ~(8 * b + BIT_OFFSET(index) >= bits)
        BY <2>0, <4>1 DEF Offsets
      <4> QED
        BY <4>2, <4>3, Zenon
    <3>2. CASE ~(InRange(index) /\ b = BYTE_IDX(index))
      <4>1. data'[b] = data[b]
        BY <2>0, <2>3, <3>2 DEF bitmap_toggle
      <4> QED
        BY <4>1
    <3> QED
      BY <3>1, <3>2
  <2>4. ASSUME NEW start \in Indices, NEW count \in Counts,
               bitmap_set_range(start, count) \/ bitmap_clear_range(start, count)
        PROVE  /\ \A o \in Offsets : 8 * b + o >= bits /\ o \in data'[b] => o \in data[b]
               /\ 8 * b >= bits => data'[b] = data[b]
    <3> DEFINE named == Named(Passed(start, count), b)
    <3>1. data'[b] \subseteq data[b] \cup named
      BY <2>0, <2>4 DEF bitmap_set_range, bitmap_clear_range
    <3>2. \A o \in Offsets : 8 * b + o >= bits => o \notin named
      BY <2>0 DEF Named, Offsets
    <3>3. 8 * b >= bits => named = {}
      BY <2>0 DEF Named, Offsets
    <3>4. 8 * b >= bits => data'[b] = data[b]
      BY <2>0, <2>4, <3>3 DEF bitmap_set_range, bitmap_clear_range
    <3> QED
      BY <3>1, <3>2, <3>4
  <2>5. CASE UNCHANGED vars
    BY <2>5 DEF vars
  <2> QED
    BY <2>1, <2>2, <2>3, <2>4, <2>5 DEF Next
<1> QED
  BY <1>1, BitmapTyped, PTL DEF Spec, OutsideUntouched

-----------------------------------------------------------------------------
(* The bitmap implements the set of its indices *)

\* The bit of an index is where bitmap_test() looks for it.
LEMMA MembersByByte ==
    ASSUME TypeOK, data # NULL, NEW i \in 0 .. bits - 1
    PROVE  /\ BYTE_IDX(i) \in DOMAIN data
           /\ BYTE_IDX(i) < bitmap_size(bits)
           /\ BIT_OFFSET(i) \in Offsets
           /\ i = 8 * BYTE_IDX(i) + BIT_OFFSET(i)
           /\ i \in Members <=> BIT_OFFSET(i) \in data[BYTE_IDX(i)]
<1>1. bits \in Nat /\ bits <= 8 * Bytes /\ Bytes \in Nat
  BY BitmapAssumption DEF TypeOK
<1>2. BYTE_IDX(i) \in 0 .. Bytes - 1 /\ BYTE_IDX(i) < bitmap_size(bits)
  BY <1>1 DEF BYTE_IDX, bitmap_size
<1>3. BIT_OFFSET(i) \in Offsets /\ i = 8 * BYTE_IDX(i) + BIT_OFFSET(i)
  BY <1>1, BytesAndOffsets
<1>4. i \in Members <=> BIT_OFFSET(i) \in data[BYTE_IDX(i)]
  BY <1>1 DEF Members, bitmap_test, InRange, Usable
<1> QED
  BY <1>2, <1>3, <1>4 DEF TypeOK

\* The indices of the bitmap.
Valid == IF data = NULL THEN {} ELSE 0 .. bits - 1

\* The operation a step called, and the members it left.
Called(operation, members) == call' = operation /\ Members' = members

Toggled(indices) == (Members \ indices) \cup (indices \ Members)

\* What an operation does to the members, index by index.
LEMMA StepOnMembers ==
    ASSUME TypeOK, Next
    PROVE  /\ UNCHANGED bits /\ (data' = NULL <=> data = NULL)
           /\ \/ Called(<<"zero">>, {})
              \/ Called(<<"fill">>, Valid)
              \/ \E index \in Indices : Called(<<"toggle", index>>, Toggled({index} \cap Valid))
              \/ \E start \in Indices, count \in Counts :
                    LET range == Passed(start, count) \cap Valid
                    IN  \/ Called(<<"set", start, count>>, Members \cup range)
                        \/ Called(<<"clear", start, count>>, Members \ range)
<1>1. TypeOK'
  BY BitmapStep
<1>2. UNCHANGED bits /\ (data' = NULL <=> data = NULL) /\ bits \in Nat
  BY BitmapStep, BitmapAssumption DEF TypeOK
<1>3. CASE ~Usable
  <2>1. Members = {} /\ Members' = {}
    BY <1>2, <1>3 DEF Members, bitmap_test, InRange, Usable
  <2>2. Valid = {}
    BY <1>3 DEF Valid, Usable
  <2>3. CASE bitmap_zero
    BY <1>2, <2>1, <2>3 DEF bitmap_zero, Called
  <2>4. CASE bitmap_fill
    BY <1>2, <2>1, <2>2, <2>4 DEF bitmap_fill, Called
  <2>5. ASSUME NEW index \in Indices, bitmap_toggle(index)
        PROVE  Called(<<"toggle", index>>, Toggled({index} \cap Valid))
    BY <2>1, <2>2, <2>5 DEF bitmap_toggle, Called, Toggled
  <2>6. ASSUME NEW start \in Indices, NEW count \in Counts,
               bitmap_set_range(start, count) \/ bitmap_clear_range(start, count)
        PROVE  \/ Called(<<"set", start, count>>, Members \cup (Passed(start, count) \cap Valid))
               \/ Called(<<"clear", start, count>>, Members \ (Passed(start, count) \cap Valid))
    BY <2>1, <2>2, <2>6 DEF bitmap_set_range, bitmap_clear_range, Called
  <2> QED
    BY <1>2, <2>3, <2>4, <2>5, <2>6 DEF Next
<1>4. CASE Usable
  <2>1. /\ Valid = 0 .. bits - 1 /\ Members \subseteq Valid /\ Members' \subseteq Valid
        /\ data # NULL /\ data' # NULL /\ bits \in Nat
    BY <1>2, <1>4 DEF Valid, Members, Usable
  <2>2. ASSUME NEW i \in Valid
        PROVE  /\ BYTE_IDX(i) \in DOMAIN data
               /\ BYTE_IDX(i) < bitmap_size(bits)
               /\ BIT_OFFSET(i) \in Offsets
               /\ i = 8 * BYTE_IDX(i) + BIT_OFFSET(i)
               /\ i \in Members <=> BIT_OFFSET(i) \in data[BYTE_IDX(i)]
               /\ i \in Members' <=> BIT_OFFSET(i) \in data'[BYTE_IDX(i)]
    <3>1. i \in 0 .. bits - 1 /\ i \in (0 .. bits - 1)'
      BY <1>2, <2>1
    <3>2. i \in Members' <=> BIT_OFFSET(i) \in data'[BYTE_IDX(i)]
      BY <1>1, <1>2, <2>1, <3>1 DEF Members, bitmap_test, InRange, Usable
    <3> QED
      BY <2>1, <3>1, <3>2, MembersByByte
  <2>3. CASE bitmap_zero
    <3>1. \A i \in Valid : i \notin Members'
      BY <1>4, <2>2, <2>3 DEF bitmap_zero
    <3>2. Members' = {}
      BY <2>1, <3>1
    <3> QED
      BY <1>2, <2>3, <3>2 DEF bitmap_zero, Called
  <2>4. CASE bitmap_fill
    <3>1. ASSUME NEW i \in Valid PROVE i \in Members'
      <4> DEFINE b == BYTE_IDX(i)
      <4>1. bits \in Nat /\ i < bits /\ b \in Nat /\ i = 8 * b + BIT_OFFSET(i)
        BY <2>1, <2>2, BitmapAssumption DEF TypeOK
      <4>2. CASE b = bitmap_size(bits) - 1 /\ bits % 8 # 0
        <5>0. bits = 8 * b + (bits % 8) /\ bits % 8 \in 0 .. 7
          <6>1. /\ bits % 8 \in 0 .. 7
                /\ bits % 8 # 0 => bits = 8 * ((bits + 7) \div 8 - 1) + (bits % 8)
            BY <4>1, LastByte
          <6>2. b = (bits + 7) \div 8 - 1
            BY <4>2 DEF bitmap_size
          <6> HIDE DEF b
          <6> QED
            BY <4>2, <6>1, <6>2
        <5>1. BIT_OFFSET(i) \in 0 .. (bits % 8) - 1
          BY <2>2, <4>1, <5>0 DEF Offsets
        <5>2. data'[b] = 0 .. (bits % 8) - 1
          <6> HIDE DEF b
          <6>1. b \in DOMAIN data
            BY <2>2 DEF b
          <6>2. bitmap_size(bits) \in Int
            BY <4>1 DEF bitmap_size
          <6> QED
            BY <1>4, <2>4, <4>2, <6>1, <6>2 DEF bitmap_fill
        <5> QED
          BY <2>2, <5>1, <5>2
      <4>3. CASE ~(b = bitmap_size(bits) - 1 /\ bits % 8 # 0)
        <5>1. b < bitmap_size(bits) - 1 \/ (b = bitmap_size(bits) - 1 /\ bits % 8 = 0)
          BY <2>2, <4>1, <4>3 DEF bitmap_size
        <5>2. data'[b] = Offsets
          BY <1>4, <2>2, <2>4, <4>1, <5>1 DEF bitmap_fill, bitmap_size
        <5> QED
          BY <2>2, <5>2
      <4> QED
        BY <4>2, <4>3
    <3>2. Members' = Valid
      BY <2>1, <3>1
    <3> QED
      BY <1>2, <2>4, <3>2 DEF bitmap_fill, Called
  <2>5. ASSUME NEW index \in Indices, bitmap_toggle(index)
        PROVE  Called(<<"toggle", index>>, Toggled({index} \cap Valid))
    <3>1. ASSUME NEW i \in Valid
          PROVE  i \in Members' <=> (i \in Members <=> i # index)
      <4>1. index \in Nat /\ index = 8 * BYTE_IDX(index) + BIT_OFFSET(index)
        BY BitmapAssumption, BytesAndOffsets
      <4>2. CASE i = index
        <5>1. InRange(index)
          BY <1>4, <2>1, <4>2, BitmapAssumption DEF InRange
        <5> QED
          BY <2>2, <2>5, <4>2, <5>1 DEF bitmap_toggle
      <4>3. CASE i # index
        <5>1. BYTE_IDX(i) # BYTE_IDX(index) \/ BIT_OFFSET(i) # BIT_OFFSET(index)
          BY <2>2, <4>1, <4>3
        <5> QED
          BY <2>2, <2>5, <4>3, <5>1 DEF bitmap_toggle
      <4> QED
        BY <4>2, <4>3
    <3>2. Members' = Toggled({index} \cap Valid)
      BY <2>1, <3>1 DEF Toggled
    <3> QED
      BY <2>5, <3>2 DEF bitmap_toggle, Called
  <2>6. ASSUME NEW start \in Indices, NEW count \in Counts, bitmap_set_range(start, count)
        PROVE  Called(<<"set", start, count>>, Members \cup (Passed(start, count) \cap Valid))
    <3>1. ASSUME NEW i \in Valid
          PROVE  BIT_OFFSET(i) \in Named(Passed(start, count), BYTE_IDX(i)) <=> i \in Passed(start, count)
      BY <2>1, <2>2, BitmapAssumption DEF Named
    <3>2. ASSUME NEW i \in Valid
          PROVE  i \in Members' <=> i \in Members \/ i \in Passed(start, count)
      BY <1>4, <2>2, <2>6, <3>1 DEF bitmap_set_range
    <3>3. Members' = Members \cup (Passed(start, count) \cap Valid)
      BY <2>1, <3>2
    <3> QED
      BY <2>6, <3>3 DEF bitmap_set_range, Called
  <2>7. ASSUME NEW start \in Indices, NEW count \in Counts, bitmap_clear_range(start, count)
        PROVE  Called(<<"clear", start, count>>, Members \ (Passed(start, count) \cap Valid))
    <3>1. ASSUME NEW i \in Valid
          PROVE  BIT_OFFSET(i) \in Named(Passed(start, count), BYTE_IDX(i)) <=> i \in Passed(start, count)
      BY <2>1, <2>2, BitmapAssumption DEF Named
    <3>2. ASSUME NEW i \in Valid
          PROVE  i \in Members' <=> i \in Members /\ i \notin Passed(start, count)
      BY <1>4, <2>2, <2>7, <3>1 DEF bitmap_clear_range
    <3>3. Members' = Members \ (Passed(start, count) \cap Valid)
      BY <2>1, <3>2
    <3> QED
      BY <2>7, <3>3 DEF bitmap_clear_range, Called
  <2> QED
    BY <1>2, <2>3, <2>4, <2>5, <2>6, <2>7 DEF Next
<1> QED
  BY <1>3, <1>4

\* The bitmap is a set of indices, for every width of size_t and every layout of
\* bits over bytes: every step is the step of the set, or changes nothing of it.
THEOREM BitmapImplements == Spec => Implements
<1>1. Init => Abstract!Init
  <2> SUFFICES ASSUME Init PROVE Abstract!Init
    OBVIOUS
  <2>1. bits \in Nat /\ bits + 7 < Word /\ Word \in Nat /\ call = <<"init">>
    BY BitmapAssumption DEF Init
  <2>2. CASE data = NULL
    <3>1. Members = {}
      BY <2>2 DEF Members, bitmap_test, InRange, Usable
    <3> QED
      BY <2>1, <2>2, <3>1 DEF Abstract!Init, Abstract!Universe
  <2>3. CASE data # NULL
    BY <2>1, <2>3 DEF Abstract!Init, Abstract!Universe, Members
  <2> QED
    BY <2>2, <2>3
<1>2. TypeOK /\ [Next]_vars => [Abstract!Next]_(Abstract!svars)
  <2> SUFFICES ASSUME TypeOK, [Next]_vars PROVE [Abstract!Next]_(Abstract!svars)
    OBVIOUS
  <2>1. CASE UNCHANGED vars
    <3>1. UNCHANGED <<bits, data, Members, call>>
      BY <2>1 DEF vars, Members, bitmap_test, InRange, Usable
    <3> QED
      BY <3>1 DEF Abstract!svars
  <2>2. CASE Next
    <3> DEFINE n == IF data = NULL THEN 0 ELSE bits
    <3>1. Indices \subseteq 0 .. Word - 1 /\ Counts \subseteq Nat /\ Word \in Nat /\ bits \in Nat
      BY BitmapAssumption DEF TypeOK
    <3>2. UNCHANGED bits /\ (data' = NULL <=> data = NULL)
      BY <2>2, StepOnMembers
    <3>3. Valid = 0 .. n - 1 /\ Abstract!Universe = Valid /\ n' = n
      BY <3>1, <3>2 DEF Valid, Abstract!Universe
    <3>4. \A start, count : Abstract!Range(start, count) = Passed(start, count) \cap Valid
      BY <3>3 DEF Abstract!Range, Passed
    <3>5. \A index \in Indices : Abstract!Range(index, 1) = {index} \cap Valid
      <4>1. ASSUME NEW index \in Indices PROVE Passed(index, 1) = {index}
        <5>1. index \in Nat /\ index < Word
          BY <3>1
        <5>2. (index + 0) % Word = index /\ 0 .. 1 - 1 = {0}
          BY <3>1, <5>1
        <5> QED
          BY <5>2 DEF Passed
      <4> QED
        BY <3>4, <4>1
    <3>6. CASE Called(<<"zero">>, {})
      BY <3>3, <3>6 DEF Abstract!Next, Abstract!Zero, Called
    <3>7. CASE Called(<<"fill">>, Valid)
      BY <3>3, <3>7 DEF Abstract!Next, Abstract!Fill, Called
    <3>8. ASSUME NEW index \in Indices, Called(<<"toggle", index>>, Toggled({index} \cap Valid))
          PROVE  Abstract!Next
      <4>1. Abstract!Toggle(index)
        BY <3>5, <3>8 DEF Abstract!Toggle, Called, Toggled
      <4> QED
        BY <3>1, <3>3, <4>1 DEF Abstract!Next
    <3>9. ASSUME NEW start \in Indices, NEW count \in Counts,
                 LET range == Passed(start, count) \cap Valid
                 IN  \/ Called(<<"set", start, count>>, Members \cup range)
                     \/ Called(<<"clear", start, count>>, Members \ range)
          PROVE  Abstract!Next
      <4>1. Abstract!Set(start, count) \/ Abstract!Clear(start, count)
        BY <3>4, <3>9 DEF Abstract!Set, Abstract!Clear, Called
      <4> QED
        BY <3>1, <3>3, <4>1 DEF Abstract!Next
    <3> QED
      BY <2>2, <3>6, <3>7, <3>8, <3>9, StepOnMembers
  <2> QED
    BY <2>1, <2>2
<1> QED
  BY <1>1, <1>2, BitmapTyped, PTL DEF Spec, Implements, Abstract!Spec

-----------------------------------------------------------------------------
(* What the queries answer *)

\* A non-empty set of naturals has a least element, so Min() picks it.
LEMMA LeastIndex ==
    ASSUME NEW S, S \subseteq Nat, S # {}
    PROVE  Min(S) \in S /\ \A m \in S : Min(S) <= m
<1>1. \E x \in S : \A y \in S : ~ (<<y, x>> \in OpToRel(<, Nat))
  BY NatLessThanWellFounded, WFMin, Zenon
<1>2. PICK x \in S : \A y \in S : ~ (<<y, x>> \in OpToRel(<, Nat))
  BY <1>1
<1>3. \A y \in S : x <= y
  <2> SUFFICES ASSUME NEW y \in S PROVE x <= y
    OBVIOUS
  <2>1. ~(y < x)
    BY <1>2 DEF OpToRel
  <2> QED
    BY <2>1
<1> QED
  BY <1>3 DEF Min

\* A bit that tests as set is a member, whatever the index.
LEMMA TestIsMember ==
    ASSUME TypeOK, NEW i \in Nat
    PROVE  bitmap_test(i) <=> i \in Members
BY BitmapAssumption DEF TypeOK, Members, bitmap_test, InRange

\* The searches stop at the first bit of their kind, or say bits.
LEMMA SearchFacts ==
    ASSUME TypeOK, data # NULL, NEW start \in Nat
    PROVE  /\ LET found == bitmap_find_next_set(start) IN
              /\ found = bits \/ (found \in Members /\ found >= start)
              /\ \A i \in Members : i >= start => found <= i
           /\ LET found == bitmap_find_next_clear(start) IN
              /\ found = bits \/ (found \in start .. bits - 1 /\ found \notin Members)
              /\ \A i \in start .. bits - 1 : i \notin Members => found <= i
<1>1. bits \in Nat /\ Members \subseteq 0 .. bits - 1
  BY BitmapAssumption DEF TypeOK, Members
<1>2. \A i \in start .. bits - 1 : bitmap_test(i) <=> i \in Members
  BY <1>1, TestIsMember
<1> DEFINE set == {i \in start .. bits - 1 : bitmap_test(i) = TRUE}
           clear == {i \in start .. bits - 1 : bitmap_test(i) = FALSE}
<1>3. set = {i \in start .. bits - 1 : i \in Members}
  BY <1>2, Zenon
<1>0. \A i : bitmap_test(i) = FALSE <=> ~bitmap_test(i)
  BY DEF bitmap_test
<1>4. clear = {i \in start .. bits - 1 : i \notin Members}
  <2>1. \A i \in start .. bits - 1 : bitmap_test(i) = FALSE <=> i \notin Members
    BY <1>0, <1>2, Zenon
  <2> QED
    BY <2>1, Zenon
<1>5. /\ bitmap_find_next_set(start) = IF set = {} THEN bits ELSE Min(set)
      /\ bitmap_find_next_clear(start) = IF clear = {} THEN bits ELSE Min(clear)
  BY DEF bitmap_find_next_set, bitmap_find_next_clear, Search
<1> HIDE DEF set, clear
<1>6. set \subseteq Nat /\ clear \subseteq Nat
  BY <1>1, <1>3, <1>4
<1>7. set # {} => Min(set) \in set /\ \A i \in set : Min(set) <= i
  BY <1>6, LeastIndex
<1>8. clear # {} => Min(clear) \in clear /\ \A i \in clear : Min(clear) <= i
  BY <1>6, LeastIndex
<1>9. LET found == bitmap_find_next_set(start) IN
      /\ found = bits \/ (found \in Members /\ found >= start)
      /\ \A i \in Members : i >= start => found <= i
  <2>1. \A i \in Members : i >= start => i \in set
    BY <1>1, <1>3
  <2> QED
    BY <1>1, <1>3, <1>5, <1>7, <2>1
<1>10. LET found == bitmap_find_next_clear(start) IN
       /\ found = bits \/ (found \in start .. bits - 1 /\ found \notin Members)
       /\ \A i \in start .. bits - 1 : i \notin Members => found <= i
  BY <1>1, <1>4, <1>5, <1>8
<1> QED
  BY <1>9, <1>10

\* The counts are the sizes of the set and of its complement.
LEMMA CountFacts ==
    ASSUME TypeOK, data # NULL
    PROVE  /\ bitmap_empty <=> Members = {}
           /\ bitmap_full <=> Members = 0 .. bits - 1
<1>1. bits \in Nat /\ Word \in Nat /\ bits < Word
  BY BitmapAssumption DEF TypeOK
<1>2. bitmap_count_set = Cardinality(Members)
  BY DEF bitmap_count_set, Members
<1>3. Members \subseteq 0 .. bits - 1 /\ IsFiniteSet(0 .. bits - 1)
  BY <1>1, FS_Interval DEF Members
<1>4. Cardinality(0 .. bits - 1) = bits
  BY <1>1, FS_Interval
<1>5. /\ IsFiniteSet(Members)
      /\ Cardinality(Members) <= bits
      /\ Cardinality(Members) = bits => Members = 0 .. bits - 1
  BY <1>3, <1>4, FS_Subset
<1>6. Cardinality(Members) \in Nat /\ (Cardinality(Members) = 0 <=> Members = {})
  BY <1>5, FS_CardinalityType, FS_EmptySet
<1>7. bitmap_count_clear = bits - Cardinality(Members)
  BY <1>1, <1>2, <1>5, <1>6 DEF bitmap_count_clear
<1> QED
  BY <1>1, <1>2, <1>4, <1>5, <1>6, <1>7 DEF bitmap_empty, bitmap_full

\* The tests of a range, which count modulo Word.
LEMMA RangeFacts ==
    ASSUME TypeOK, NEW start \in Indices, NEW count \in Counts \ {0}
    PROVE  /\ bitmap_test_range(start, count) <=> start .. start + count - 1 \subseteq Members
           /\ start + count < Word =>
                (bitmap_test_range_clear(start, count) <=>
                    \A i \in start .. start + count - 1 : i < bits /\ i \notin Members)
<1>1. /\ bits \in Nat /\ Word \in Nat /\ bits + 7 < Word /\ count \in Nat \ {0}
      /\ start \in Nat /\ start < Word
      /\ Members \subseteq 0 .. bits - 1
  BY BitmapAssumption DEF TypeOK, Members
<1>2. ASSUME start + count < Word
      PROVE  /\ (start + count) % Word = start + count
             /\ \A i \in 0 .. count - 1 : (start + i) % Word = start + i
  BY <1>1, <1>2
<1>3. ASSUME start + count < Word
      PROVE  /\ bitmap_test_range(start, count) <=> start .. start + count - 1 \subseteq Members
             /\ bitmap_test_range_clear(start, count) <=>
                    \A i \in start .. start + count - 1 : i < bits /\ i \notin Members
  <2>1. \A i \in 0 .. count - 1 :
            bitmap_test((start + i) % Word) <=> start + i \in Members
    BY <1>1, <1>2, <1>3, TestIsMember
  <2>2. \A j \in start .. start + count - 1 : j - start \in 0 .. count - 1 /\ j = start + (j - start)
    BY <1>1
  <2>3. \A i \in 0 .. count - 1 : start + i \in start .. start + count - 1
    BY <1>1
  <2>4. /\ start + count - 1 \in start .. start + count - 1
        /\ start + count - 1 < bits <=> start + count <= bits
        /\ \A j \in start .. start + count - 1 : start + count <= bits => j < bits
    BY <1>1
  <2>5. bitmap_test_range(start, count) <=>
            start + count <= bits /\ \A j \in start .. start + count - 1 : j \in Members
    BY <1>2, <1>3, <2>1, <2>2, <2>3 DEF bitmap_test_range
  <2>6. bitmap_test_range_clear(start, count) <=>
            start + count <= bits /\ \A j \in start .. start + count - 1 : j \notin Members
    BY <1>2, <1>3, <2>1, <2>2, <2>3 DEF bitmap_test_range_clear
  <2> QED
    BY <1>1, <2>4, <2>5, <2>6
<1>4. ASSUME start + count >= Word
      PROVE  ~bitmap_test_range(start, count) /\ ~(start .. start + count - 1 \subseteq Members)
  <2> DEFINE i == Word - 1 - start
  <2>1. i \in 0 .. count - 1 /\ start + i = Word - 1 /\ (start + i) % Word = Word - 1
    BY <1>1, <1>4
  <2>2. Word - 1 \in Nat /\ Word - 1 \notin Members /\ Word - 1 \in start .. start + count - 1
    BY <1>1, <1>4
  <2>3. ~bitmap_test((start + i) % Word)
    BY <2>1, <2>2, TestIsMember
  <2> HIDE DEF i
  <2> QED
    BY <2>1, <2>2, <2>3 DEF bitmap_test_range
<1> QED
  BY <1>1, <1>3, <1>4

\* The range tests, the counts and the searches answer for the set, for every
\* size, every start and count, and every width of size_t.
THEOREM AnswersAreExact == Spec => []AnswersExact
<1>1. TypeOK => AnswersExact
  <2> SUFFICES ASSUME TypeOK PROVE AnswersExact
    OBVIOUS
  <2>1. ASSUME data # NULL
        PROVE  /\ bitmap_empty <=> bitmap_find_first_set = bits
               /\ bitmap_full <=> bitmap_find_first_clear = bits
    <3>1. bits \in Nat /\ Members \subseteq 0 .. bits - 1
      BY BitmapAssumption DEF TypeOK, Members
    <3>2. LET found == bitmap_find_first_set IN
          /\ found = bits \/ (found \in Members /\ found >= 0)
          /\ \A i \in Members : i >= 0 => found <= i
      BY <2>1, SearchFacts DEF bitmap_find_first_set, bitmap_find_next_set
    <3>3. LET found == bitmap_find_first_clear IN
          /\ found = bits \/ (found \in 0 .. bits - 1 /\ found \notin Members)
          /\ \A i \in 0 .. bits - 1 : i \notin Members => found <= i
      BY <2>1, SearchFacts DEF bitmap_find_first_clear, bitmap_find_next_clear
    <3>4. Members = {} <=> bitmap_find_first_set = bits
      <4>1. PICK found : found = bitmap_find_first_set
        OBVIOUS
      <4>2. found = bits \/ found \in Members
        BY <3>2, <4>1
      <4>3. ASSUME NEW i \in Members PROVE i \in Nat /\ i < bits /\ found <= i
        BY <3>1, <3>2, <4>1
      <4>4. ASSUME found = bits PROVE Members = {}
        <5>1. ASSUME NEW i \in Members PROVE FALSE
          <6>1. i \in Nat /\ i < bits /\ bits <= i
            BY <4>3, <4>4
          <6> QED
            BY <3>1, <6>1
        <5> QED
          BY <5>1
      <4> QED
        BY <4>1, <4>2, <4>4
    <3>5. Members = 0 .. bits - 1 <=> bitmap_find_first_clear = bits
      <4>1. PICK found : found = bitmap_find_first_clear
        OBVIOUS
      <4>2. found = bits \/ (found \in 0 .. bits - 1 /\ found \notin Members)
        BY <3>3, <4>1
      <4>3. ASSUME NEW i \in 0 .. bits - 1, i \notin Members PROVE i < bits /\ found <= i
        BY <3>1, <3>3, <4>1, <4>3
      <4>4. ASSUME found = bits PROVE Members = 0 .. bits - 1
        <5>1. \A i \in 0 .. bits - 1 : i \in Members
          BY <3>1, <4>3, <4>4
        <5> QED
          BY <3>1, <5>1
      <4>5. ASSUME Members = 0 .. bits - 1 PROVE found = bits
        BY <4>2, <4>5
      <4> QED
        BY <4>1, <4>4, <4>5
    <3> QED
      BY <2>1, <3>4, <3>5, CountFacts
  <2> QED
    BY <2>1, CountFacts, RangeFacts DEF AnswersExact
<1> QED
  BY <1>1, BitmapTyped, PTL

-----------------------------------------------------------------------------
(* The search for an area *)

\* What the loop of bitmap_find_zero_area() keeps after i turns.
RunStage(f, i) == IF i = 0 THEN [start |-> 0, zeros |-> 0] ELSE ZeroRun(i - 1, f[i - 1])

\* A function with the turns of the loop exists for every number of them.
LEMMA RunExists ==
    ASSUME NEW n \in Nat
    PROVE  \E f : f = [i \in 0 .. n |-> RunStage(f, i)]
<1> DEFINE Some(m) == \E f : f = [i \in 0 .. m |-> RunStage(f, i)]
           bad == {m \in Nat : ~Some(m)}
<1>1. ASSUME bad # {} PROVE FALSE
  <2> DEFINE m == Min(bad)
  <2>1. bad \subseteq Nat
    OBVIOUS
  <2>2. m \in bad /\ \A y \in bad : m <= y
    <3> HIDE DEF bad
    <3> QED
      BY <1>1, <2>1, LeastIndex
  <2> HIDE DEF m
  <2>3. m \in Nat /\ ~Some(m)
    BY <2>2
  <2>4. CASE m = 0
    <3> DEFINE f == [i \in 0 .. 0 |-> [start |-> 0, zeros |-> 0]]
    <3>1. f = [i \in 0 .. 0 |-> RunStage(f, i)]
      <4>1. \A i \in 0 .. 0 : RunStage(f, i) = [start |-> 0, zeros |-> 0]
        BY DEF RunStage
      <4> QED
        BY <4>1
    <3> QED
      BY <2>3, <2>4, <3>1
  <2>5. CASE m # 0
    <3>1. m - 1 \in Nat /\ m - 1 \notin bad
      BY <2>1, <2>2, <2>3, <2>5
    <3>2. PICK f : f = [i \in 0 .. m - 1 |-> RunStage(f, i)]
      BY <3>1
    <3> DEFINE g == [i \in 0 .. m |-> IF i = m THEN RunStage(f, m) ELSE f[i]]
    <3>3. ASSUME NEW i \in 0 .. m PROVE g[i] = RunStage(g, i)
      <4>1. CASE i = 0
        <5>1. g[0] = f[0] /\ 0 \in 0 .. m - 1
          BY <2>3, <2>5
        <5>2. f[0] = RunStage(f, 0)
          BY <3>2, <5>1
        <5> QED
          BY <4>1, <5>1, <5>2 DEF RunStage
      <4>2. CASE i # 0
        <5>1. i - 1 \in 0 .. m - 1 /\ i - 1 \in 0 .. m /\ i - 1 # m
          BY <2>3, <3>3, <4>2
        <5>2. g[i - 1] = f[i - 1]
          BY <5>1
        <5> HIDE DEF g
        <5>3. RunStage(g, i) = RunStage(f, i)
          BY <4>2, <5>2 DEF RunStage
        <5>4. g[i] = IF i = m THEN RunStage(f, m) ELSE f[i]
          BY <3>3 DEF g
        <5>5. i # m => i \in 0 .. m - 1
          BY <2>3, <3>3
        <5>6. i # m => f[i] = RunStage(f, i)
          BY <3>2, <5>5
        <5> QED
          BY <5>3, <5>4, <5>6
      <4> QED
        BY <4>1, <4>2
    <3>4. g = [i \in 0 .. m |-> RunStage(g, i)]
      <4>1. g = [i \in 0 .. m |-> g[i]]
        OBVIOUS
      <4> HIDE DEF g
      <4> QED
        BY <3>3, <4>1
    <3> HIDE DEF g
    <3> QED
      BY <2>3, <3>4
  <2> QED
    BY <2>4, <2>5
<1> QED
  BY <1>1

\* After i turns zeros counts the clear bits just before i, back to one that is set.
RunAt(run, i) ==
    /\ run.zeros \in 0 .. i
    /\ run.zeros # 0 => run.start = i - run.zeros
    /\ \A j \in i - run.zeros .. i - 1 : j \notin Members
    /\ run.zeros < i => i - run.zeros - 1 \in Members

\* One turn of the loop keeps that true.
LEMMA RunKept ==
    ASSUME TypeOK, NEW i \in 1 .. bits, NEW run, RunAt(run, i - 1)
    PROVE  RunAt(ZeroRun(i - 1, run), i)
<1>1. bits \in Nat /\ i \in Nat /\ i - 1 \in Nat
  BY BitmapAssumption DEF TypeOK
<1>2. run.zeros \in Nat /\ run.zeros <= i - 1
  BY <1>1 DEF RunAt
<1>3. CASE i - 1 \in Members
  <2>1. ZeroRun(i - 1, run) = [start |-> run.start, zeros |-> 0]
    BY <1>1, <1>3, TestIsMember DEF ZeroRun
  <2> QED
    BY <1>1, <1>3, <2>1 DEF RunAt
<1>4. CASE i - 1 \notin Members
  <2> DEFINE next == ZeroRun(i - 1, run)
  <2>1. next = [start |-> IF run.zeros = 0 THEN i - 1 ELSE run.start, zeros |-> run.zeros + 1]
    BY <1>1, <1>4, TestIsMember DEF ZeroRun
  <2>2. /\ next.zeros = run.zeros + 1
        /\ run.zeros = 0 => next.start = i - 1
        /\ run.zeros # 0 => next.start = run.start
    BY <2>1
  <2> HIDE DEF next
  <2>3. next.zeros \in 0 .. i /\ i - next.zeros = (i - 1) - run.zeros
    BY <1>1, <1>2, <2>2
  <2>4. next.start = i - next.zeros
    BY <1>1, <1>2, <2>2, <2>3 DEF RunAt
  <2>5. \A j \in i - next.zeros .. i - 1 : j \notin Members
    <3>1. ASSUME NEW j \in i - next.zeros .. i - 1, j # i - 1 PROVE j \notin Members
      <4>1. j \in (i - 1) - run.zeros .. (i - 1) - 1
        BY <1>1, <1>2, <2>3, <3>1
      <4> QED
        BY <4>1 DEF RunAt
    <3> QED
      BY <1>4, <3>1
  <2>6. next.zeros < i => i - next.zeros - 1 \in Members
    <3>1. next.zeros < i => run.zeros < i - 1
      BY <1>1, <1>2, <2>2
    <3> QED
      BY <2>3, <3>1 DEF RunAt
  <2> QED
    BY <2>3, <2>4, <2>5, <2>6 DEF RunAt, next
<1> QED
  BY <1>3, <1>4

\* Two indices that end runs of the same clear bits count the same.
LEMMA RunUnique ==
    ASSUME TypeOK, NEW m \in Nat, NEW run, RunAt(run, m), NEW n \in 0 .. m,
           \A j \in m - n .. m - 1 : j \notin Members,
           n < m => m - n - 1 \in Members
    PROVE  run.zeros = n
<1>1. run.zeros \in Nat /\ run.zeros <= m /\ n \in Nat
  BY DEF RunAt
<1>2. ASSUME run.zeros < n PROVE FALSE
  <2>1. m - run.zeros - 1 \in m - n .. m - 1 /\ run.zeros < m
    BY <1>1, <1>2
  <2> QED
    BY <2>1 DEF RunAt
<1>3. ASSUME n < run.zeros PROVE FALSE
  <2>1. m - n - 1 \in m - run.zeros .. m - 1 /\ n < m
    BY <1>1, <1>3
  <2> QED
    BY <2>1 DEF RunAt
<1> QED
  BY <1>1, <1>2, <1>3

\* What bitmap_find_zero_area() returns, in terms of its loop.
LEMMA AreaFacts ==
    ASSUME TypeOK, data # NULL, NEW count \in 1 .. bits
    PROVE  \E run :
              /\ \A i \in 0 .. bits : RunAt(run[i], i)
              /\ LET long == {i \in 0 .. bits : run[i].zeros = count} IN
                 bitmap_find_zero_area(count) = IF long = {} THEN bits ELSE run[Min(long)].start
<1>1. bits \in Nat /\ count \in Nat /\ count # 0 /\ ~(count > bits)
  BY BitmapAssumption DEF TypeOK
<1> DEFINE run == CHOOSE f : f = [i \in 0 .. bits |-> RunStage(f, i)]
<1>2. run = [i \in 0 .. bits |-> RunStage(run, i)]
  BY <1>1, RunExists
<1>3. LET long == {i \in 0 .. bits : run[i].zeros = count} IN
      bitmap_find_zero_area(count) = IF long = {} THEN bits ELSE run[Min(long)].start
  BY <1>1 DEF bitmap_find_zero_area, RunStage
<1> HIDE DEF run
<1>4. \A i \in 0 .. bits : run[i] = RunStage(run, i)
  BY <1>2
<1> DEFINE bad == {i \in 0 .. bits : ~RunAt(run[i], i)}
<1>5. ASSUME bad # {} PROVE FALSE
  <2> DEFINE k == Min(bad)
  <2>1. bad \subseteq Nat
    BY <1>1
  <2>2. k \in bad /\ \A y \in bad : k <= y
    <3> HIDE DEF bad
    <3> QED
      BY <1>5, <2>1, LeastIndex
  <2> HIDE DEF k
  <2>3. k \in 0 .. bits /\ ~RunAt(run[k], k) /\ run[k] = RunStage(run, k)
    BY <1>4, <2>2
  <2>4. CASE k = 0
    BY <2>3, <2>4 DEF RunStage, RunAt
  <2>5. CASE k # 0
    <3>1. k \in 1 .. bits /\ k - 1 \in 0 .. bits /\ k - 1 \notin bad
      BY <1>1, <2>2, <2>3, <2>5
    <3>2. RunAt(run[k - 1], k - 1)
      BY <3>1
    <3>3. RunAt(ZeroRun(k - 1, run[k - 1]), k)
      BY <3>1, <3>2, RunKept
    <3> QED
      BY <2>3, <2>5, <3>3 DEF RunStage
  <2> QED
    BY <2>4, <2>5
<1> QED
  BY <1>3, <1>5

\* The first place of an area, and what is there.
LEMMA AreaFound ==
    ASSUME TypeOK, data # NULL, NEW count \in 1 .. bits, NEW found,
           found = bitmap_find_zero_area(count)
    PROVE  /\ found = bits \/ found \in 0 .. bits - count
           /\ found # bits => \A i \in found .. found + count - 1 : i \notin Members
           /\ \A start \in 0 .. bits - count :
                 (\A i \in start .. start + count - 1 : i \notin Members) => found <= start
<1>1. bits \in Nat /\ count \in Nat /\ count # 0 /\ count <= bits
  BY BitmapAssumption DEF TypeOK
<1>2. PICK run :
        /\ \A i \in 0 .. bits : RunAt(run[i], i)
        /\ LET long == {i \in 0 .. bits : run[i].zeros = count} IN
           bitmap_find_zero_area(count) = IF long = {} THEN bits ELSE run[Min(long)].start
  BY AreaFacts
<1> DEFINE long == {i \in 0 .. bits : run[i].zeros = count}
           end == Min(long)
<1>3. found = IF long = {} THEN bits ELSE run[end].start
  BY <1>2
<1>4. ASSUME long # {}
      PROVE  /\ end \in 0 .. bits /\ run[end].zeros = count /\ found = end - count
             /\ count <= end /\ \A i \in long : end <= i
  <2>1. long \subseteq Nat
    BY <1>1
  <2>2. end \in long /\ \A i \in long : end <= i
    <3> HIDE DEF long
    <3> QED
      BY <1>4, <2>1, LeastIndex
  <2> HIDE DEF end
  <2>3. end \in 0 .. bits /\ run[end].zeros = count /\ RunAt(run[end], end)
    BY <1>2, <2>2
  <2> QED
    BY <1>1, <1>3, <1>4, <2>2, <2>3 DEF RunAt
<1>5. ASSUME NEW start \in 0 .. bits - count,
             \A i \in start .. start + count - 1 : i \notin Members
      PROVE  \E m \in long : m <= start + count
  <2> DEFINE i == start + count
             z == run[i].zeros
             m == i - (z - count)
  <2>1. i \in 0 .. bits /\ i \in Nat
    BY <1>1
  <2>2. RunAt(run[i], i)
    BY <1>2, <2>1
  <2>3. z \in Nat /\ z <= i
    BY <2>1, <2>2 DEF RunAt
  <2>4. ~(z < count)
    <3>1. ASSUME z < count PROVE FALSE
      <4>1. i - z - 1 \in start .. start + count - 1 /\ z < i
        BY <1>1, <2>1, <2>3, <3>1
      <4> QED
        BY <1>5, <2>2, <4>1 DEF RunAt
    <3> QED
      BY <3>1
  <2>5. m \in 0 .. bits /\ m <= i /\ count <= m /\ m \in Nat /\ m - count = i - z
    BY <1>1, <2>1, <2>3, <2>4
  <2>6. \A j \in m - count .. m - 1 : j \notin Members
    <3>1. \A j \in m - count .. m - 1 : j \in i - z .. i - 1
      <4> HIDE DEF i, z, m
      <4> QED
        BY <1>1, <2>1, <2>3, <2>5
    <3> QED
      BY <2>2, <3>1 DEF RunAt
  <2>7. count < m => m - count - 1 \in Members
    <3>1. count < m => z < i /\ m - count - 1 = i - z - 1
      <4> HIDE DEF i, z, m
      <4> QED
        BY <1>1, <2>1, <2>3, <2>5
    <3> QED
      BY <2>2, <3>1 DEF RunAt
  <2> HIDE DEF i, z
  <2>8. run[m].zeros = count
    <3>1. RunAt(run[m], m)
      BY <1>2, <2>5
    <3>2. count \in 0 .. m
      BY <1>1, <2>5
    <3> HIDE DEF m
    <3> QED
      BY <2>5, <2>6, <2>7, <3>1, <3>2, RunUnique
  <2>9. m \in long
    BY <2>5, <2>8
  <2> QED
    BY <2>5, <2>9 DEF i
<1> HIDE DEF long, end
<1>6. CASE long = {}
  <2>1. found = bits
    BY <1>3, <1>6
  <2> QED
    BY <1>5, <1>6, <2>1
<1>7. CASE long # {}
  <2>1. found \in 0 .. bits - count /\ found + count = end /\ end \in Nat
    BY <1>1, <1>4, <1>7
  <2>2. \A i \in found .. found + count - 1 : i \notin Members
    <3>1. RunAt(run[end], end)
      BY <1>2, <1>4, <1>7
    <3> QED
      BY <1>4, <1>7, <2>1, <3>1 DEF RunAt
  <2>3. ASSUME NEW start \in 0 .. bits - count,
               \A i \in start .. start + count - 1 : i \notin Members
        PROVE  found <= start
    <3>1. PICK m \in long : m <= start + count
      BY <1>5, <2>3
    <3>2. end <= m /\ m \in Nat
      BY <1>1, <1>4, <1>7, <3>1 DEF long
    <3> QED
      BY <1>1, <2>1, <2>3, <3>1, <3>2
  <2> QED
    BY <2>1, <2>2, <2>3
<1> QED
  BY <1>6, <1>7

\* An area that is found is clear, inside and the first, and the other searches
\* agree with it, for every size, every count and every content.
THEOREM AreasExact == Spec => []AreaExact
<1>1. TypeOK => AreaExact
  <2> SUFFICES ASSUME TypeOK, data # NULL, NEW count \in 1 .. bits,
                      NEW found, found = bitmap_find_zero_area(count)
               PROVE  /\ found # bits =>
                            /\ \A i \in found .. found + count - 1 : i < bits /\ i \notin Members
                            /\ bitmap_find_next_clear(found) = found
                            /\ bitmap_find_next_set(found) >= found + count
                      /\ count = 1 => found = bitmap_find_first_clear
                      /\ \A start \in 0 .. bits - 1 :
                            (\A i \in start .. start + count - 1 : i < bits /\ i \notin Members) =>
                                found <= start
    BY DEF AreaExact
  <2>1. /\ bits \in Nat /\ count \in Nat /\ count # 0 /\ count <= bits
        /\ Members \subseteq 0 .. bits - 1
    BY BitmapAssumption DEF TypeOK, Members
  <2>2. /\ found = bits \/ found \in 0 .. bits - count
        /\ found # bits => \A i \in found .. found + count - 1 : i \notin Members
        /\ \A start \in 0 .. bits - count :
              (\A i \in start .. start + count - 1 : i \notin Members) => found <= start
    BY AreaFound
  <2>3. ASSUME found # bits
        PROVE  /\ \A i \in found .. found + count - 1 : i < bits /\ i \notin Members
               /\ bitmap_find_next_clear(found) = found
               /\ bitmap_find_next_set(found) >= found + count
    <3>1. found \in Nat /\ found <= bits - count
      BY <2>1, <2>2, <2>3
    <3>2. \A i \in found .. found + count - 1 : i < bits /\ i \notin Members
      BY <2>1, <2>2, <2>3, <3>1
    <3>3. found \in found .. bits - 1 /\ found \notin Members
      BY <2>1, <3>1, <3>2
    <3>4. PICK clear : clear = bitmap_find_next_clear(found)
      OBVIOUS
    <3>5. /\ clear = bits \/ (clear \in found .. bits - 1 /\ clear \notin Members)
          /\ clear <= found
      BY <3>1, <3>3, <3>4, SearchFacts
    <3>6. PICK set : set = bitmap_find_next_set(found)
      OBVIOUS
    <3>7. set = bits \/ (set \in Members /\ set >= found)
      BY <3>1, <3>6, SearchFacts
    <3>8. set >= found + count
      <4>1. set \in Nat
        <5>1. set \in Members => set \in 0 .. bits - 1
          BY <2>1
        <5> QED
          BY <2>1, <3>7, <5>1
      <4>2. ASSUME set < found + count, set # bits PROVE FALSE
        <5>1. set \in found .. found + count - 1
          BY <2>1, <3>1, <3>7, <4>1, <4>2
        <5> QED
          BY <3>2, <3>7, <4>2, <5>1
      <4> QED
        BY <2>1, <3>1, <4>1, <4>2
    <3>9. clear = found
      BY <2>1, <3>1, <3>3, <3>5
    <3> QED
      BY <3>2, <3>4, <3>6, <3>8, <3>9
  <2>4. ASSUME NEW start \in 0 .. bits - 1,
               \A i \in start .. start + count - 1 : i < bits /\ i \notin Members
        PROVE  found <= start
    <3>1. start + count - 1 \in start .. start + count - 1 /\ start \in Nat
      BY <2>1
    <3>2. start \in 0 .. bits - count
      BY <2>1, <2>4, <3>1
    <3> QED
      BY <2>2, <2>4, <3>2
  <2>5. ASSUME count = 1 PROVE found = bitmap_find_first_clear
    <3>1. PICK first : first = bitmap_find_first_clear
      OBVIOUS
    <3>2. /\ first = bits \/ (first \in 0 .. bits - 1 /\ first \notin Members)
          /\ \A i \in 0 .. bits - 1 : i \notin Members => first <= i
      BY <3>1, SearchFacts DEF bitmap_find_first_clear, bitmap_find_next_clear
    <3>3. \A start \in 0 .. bits - 1 : start \notin Members => found <= start
      BY <2>1, <2>2, <2>5
    <3>4. found = bits \/ (found \in 0 .. bits - 1 /\ found \notin Members)
      BY <2>1, <2>2, <2>5
    <3>5. found = first
      BY <2>1, <3>2, <3>3, <3>4
    <3> QED
      BY <3>1, <3>5
  <2> QED
    BY <2>3, <2>4, <2>5
<1> QED
  BY <1>1, BitmapTyped, PTL
=============================================================================
