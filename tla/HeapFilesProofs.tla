--------------------------- MODULE HeapFilesProofs ---------------------------
(***************************************************************************)
(* Theorems about HeapFiles, for every heap, alignment, file and write.    *)
(* IInv places every owner in the heap by arithmetic and ties sizes to the *)
(* histories: a file that grew has had its content changed.                *)
(***************************************************************************)
EXTENDS HeapFiles, SequenceTheorems, TLAPS

Held(f) == data[f] # NULL
End(f) == data[f] + size[f]
EndOf(o) == o.at + Len(o.holds)

\* Owners lie below heap_current, one behind the other.
Placed ==
    /\ \A f \in Files : size[f] > 0 <=> Held(f)
    /\ \A f \in Files : Held(f) => End(f) <= heap_current
    /\ \A f, g \in Files : Held(f) /\ Held(g) /\ f # g => End(f) <= data[g] \/ End(g) <= data[f]
    /\ \A f \in Files : \A o \in objects : Held(f) => End(f) <= o.at \/ EndOf(o) <= data[f]

\* The objects still hold what their owners put there.
Intact ==
    \A o \in objects :
        /\ o.at \in Nat /\ o.holds \in Seq(Bytes)
        /\ EndOf(o) <= heap_current
        /\ \A i \in 1 .. Len(o.holds) : mem[o.at + i - 1] = o.holds[i]

IInv ==
    /\ TypeOK
    /\ Placed
    /\ Intact
    /\ \A f \in Files : Len(content[f]) = size[f]

-----------------------------------------------------------------------------
(* Operators *)

\* kmalloc() never hands out less than it was asked for.
LEMMA Rounded == ASSUME NEW n \in Nat PROVE RoundUp(n) \in Nat /\ RoundUp(n) >= n
<1> DEFINE x == n + ALIGN - 1
           q == x \div ALIGN
<1>1. ALIGN \in Nat /\ ALIGN > 0 /\ x \in Nat
  BY HeapAssumption
<1>2. q \in Nat /\ x % ALIGN \in 0 .. ALIGN - 1 /\ x = ALIGN * q + (x % ALIGN)
  BY <1>1
<1>3. ALIGN * q \in Nat /\ ALIGN * q = q * ALIGN
  BY <1>1, <1>2
<1>4. q * ALIGN >= n
  BY <1>1, <1>2, <1>3
<1> QED
  BY <1>3, <1>4 DEF RoundUp

\* What a caller writes is not empty.
LEMMA WriteFacts ==
    ASSUME NEW bytes \in Writes \cup Objects
    PROVE  /\ bytes \in Seq(Bytes) /\ Len(bytes) \in Nat /\ Len(bytes) > 0
           /\ DOMAIN bytes = 1 .. Len(bytes)
           /\ \A i \in 1 .. Len(bytes) : bytes[i] \in Bytes
<1>1. bytes \in Seq(Bytes) /\ bytes # <<>>
  BY HeapAssumption
<1>2. Len(bytes) \in Nat /\ DOMAIN bytes = 1 .. Len(bytes)
  BY <1>1, LenProperties
<1>3. Len(bytes) \in Nat \ {0}
  BY <1>1, EmptySeq
<1> QED
  BY <1>1, <1>2, <1>3, ElementOfSeq

\* A store changes the addresses it is given and no other.
LEMMA Stored ==
    ASSUME NEW m \in [Addresses -> Bytes], NEW to \in Nat, NEW bytes \in Writes \cup Objects
    PROVE  /\ Store(m, to, bytes) \in [Addresses -> Bytes]
           /\ \A a \in Addresses : a < to \/ a >= to + Len(bytes) => Store(m, to, bytes)[a] = m[a]
           /\ \A i \in 1 .. Len(bytes) :
                 to + i - 1 \in Addresses => Store(m, to, bytes)[to + i - 1] = bytes[i]
<1>1. \A a \in to .. to + Len(bytes) - 1 : bytes[a - to + 1] \in Bytes
  BY WriteFacts
<1>2. Store(m, to, bytes) \in [Addresses -> Bytes]
  BY <1>1 DEF Store
<1>3. \A a \in Addresses : a < to \/ a >= to + Len(bytes) => Store(m, to, bytes)[a] = m[a]
  BY WriteFacts DEF Store, Addresses
<1>4. ASSUME NEW i \in 1 .. Len(bytes), to + i - 1 \in Addresses
      PROVE  Store(m, to, bytes)[to + i - 1] = bytes[i]
  BY <1>4, WriteFacts DEF Store
<1> QED
  BY <1>2, <1>3, <1>4

\* The history of a write has its bytes, zeroes in the hole, and the rest as it was.
LEMMA WrittenFacts ==
    ASSUME NEW old \in Seq(Bytes), NEW offset \in Nat, NEW bytes \in Writes
    PROVE  LET new == Written(old, offset, bytes)
               end == offset + Len(bytes) IN
           /\ new \in Seq(Bytes)
           /\ Len(new) = IF end > Len(old) THEN end ELSE Len(old)
           /\ \A i \in 1 .. Len(new) :
                 /\ offset < i /\ i <= end => new[i] = bytes[i - offset]
                 /\ i <= Len(old) /\ (i <= offset \/ end < i) => new[i] = old[i]
                 /\ Len(old) < i /\ i <= offset => new[i] = 0
<1> DEFINE new == Written(old, offset, bytes)
           end == offset + Len(bytes)
           len == IF end > Len(old) THEN end ELSE Len(old)
<1>1. Len(old) \in Nat /\ Len(bytes) \in Nat /\ len \in Nat
  BY WriteFacts, LenProperties
<1>2. new = [i \in 1 .. len |->
                IF i \in offset + 1 .. end THEN bytes[i - offset]
                ELSE IF i <= Len(old) THEN old[i] ELSE 0]
  BY DEF Written
<1>3. ASSUME NEW i \in 1 .. len
      PROVE  /\ offset < i /\ i <= end => new[i] = bytes[i - offset]
             /\ i <= Len(old) /\ (i <= offset \/ end < i) => new[i] = old[i]
             /\ Len(old) < i /\ i <= offset => new[i] = 0
             /\ new[i] \in Bytes
  <2>1. CASE offset < i /\ i <= end
    <3>1. i \in offset + 1 .. end /\ i - offset \in 1 .. Len(bytes)
      BY <1>1, <2>1
    <3>2. new[i] = bytes[i - offset]
      BY <1>2, <3>1
    <3> QED
      BY <1>1, <2>1, <3>1, <3>2, WriteFacts
  <2>2. CASE ~(offset < i /\ i <= end) /\ i <= Len(old)
    <3>1. i \notin offset + 1 .. end /\ i \in 1 .. Len(old)
      BY <1>1, <2>2
    <3>2. new[i] = old[i]
      BY <1>2, <2>2, <3>1
    <3> QED
      BY <1>1, <2>2, <3>1, <3>2, ElementOfSeq
  <2>3. CASE ~(offset < i /\ i <= end) /\ ~(i <= Len(old))
    <3>1. i \notin offset + 1 .. end
      BY <1>1, <2>3
    <3>2. new[i] = 0
      BY <1>2, <2>3, <3>1
    <3> QED
      BY <1>1, <2>3, <3>2, HeapAssumption
  <2> QED
    BY <2>1, <2>2, <2>3
<1>4. new \in [1 .. len -> Bytes]
  <2> HIDE DEF len
  <2> QED
    BY <1>2, <1>3
<1>5. new \in Seq(Bytes) /\ Len(new) = len
  <2> HIDE DEF new, len
  <2>1. new \in Seq(Bytes)
    BY <1>1, <1>4, SeqDef
  <2>2. DOMAIN new = 1 .. len /\ DOMAIN new = 1 .. Len(new) /\ Len(new) \in Nat
    BY <1>4, <2>1, LenProperties
  <2> QED
    BY <1>1, <2>1, <2>2
<1> QED
  BY <1>3, <1>5

-----------------------------------------------------------------------------
(* Writes *)

\* What a write that succeeds leaves: file f at address at with n bytes, in place or
\* grown into a new block; elsewhere nothing.
Lands(f, offset, bytes, at, n) ==
    /\ heap_current' \in heap_current .. HeapSize - 1
    /\ mem' \in [Addresses -> Bytes]
    /\ data' = [data EXCEPT ![f] = at] /\ size' = [size EXCEPT ![f] = n]
    /\ n = IF offset + Len(bytes) > size[f] THEN offset + Len(bytes) ELSE size[f]
    /\ \/ at = data[f] /\ n = size[f]
       \/ at = heap_current /\ n > size[f]
    /\ at + n <= heap_current'
    /\ \A a \in 0 .. heap_current - 1 : a < at \/ a >= at + n => mem'[a] = mem[a]
    /\ \A i \in 1 .. n :
          /\ offset < i /\ i <= offset + Len(bytes) => mem'[at + i - 1] = bytes[i - offset]
          /\ size[f] < i /\ i <= offset => mem'[at + i - 1] = 0
          /\ at = data[f] /\ (i <= offset \/ offset + Len(bytes) < i) =>
                mem'[at + i - 1] = mem[at + i - 1]

\* In place: the write ends inside the block.
LEMMA InsideLands ==
    ASSUME IInv, NEW f \in Files, NEW offset \in Nat, NEW bytes \in Writes,
           WriteInside(f, offset, bytes)
    PROVE  data[f] \in Nat /\ size[f] \in Nat /\ Lands(f, offset, bytes, data[f], size[f])
<1>1. /\ size[f] \in Nat /\ data[f] \in Addresses \cup {NULL} /\ heap_current \in 0 .. HeapSize - 1
      /\ mem \in [Addresses -> Bytes] /\ HeapSize \in Nat
  BY HeapAssumption DEF IInv, TypeOK
<1>2. Len(bytes) \in Nat /\ Len(bytes) > 0
  BY WriteFacts
<1>3. offset + Len(bytes) <= size[f] /\ size[f] > 0
  BY <1>1, <1>2 DEF WriteInside
<1>4. data[f] \in Addresses /\ data[f] \in Nat /\ data[f] + size[f] <= heap_current
  BY <1>1, <1>3 DEF IInv, Placed, Held, End, Addresses
<1> DEFINE to == data[f] + offset
<1>5. to \in Nat /\ mem' = Store(mem, to, bytes)
  BY <1>4 DEF WriteInside
<1>6. /\ mem' \in [Addresses -> Bytes]
      /\ \A a \in Addresses : a < to \/ a >= to + Len(bytes) => mem'[a] = mem[a]
      /\ \A i \in 1 .. Len(bytes) : to + i - 1 \in Addresses => mem'[to + i - 1] = bytes[i]
  <2>1. bytes \in Writes \cup Objects
    OBVIOUS
  <2> HIDE DEF to
  <2> QED
    BY <1>1, <1>5, <2>1, Stored
<1>7. UNCHANGED <<heap_current, data, size>> /\ data' = [data EXCEPT ![f] = data[f]]
      /\ size' = [size EXCEPT ![f] = size[f]]
  BY DEF WriteInside, IInv, TypeOK
<1>8. \A a \in 0 .. heap_current - 1 : a < data[f] \/ a >= data[f] + size[f] => mem'[a] = mem[a]
  BY SMTT(60), <1>1, <1>2, <1>3, <1>4, <1>6 DEF Addresses
<1>9. ASSUME NEW i \in 1 .. size[f]
      PROVE  /\ offset < i /\ i <= offset + Len(bytes) => mem'[data[f] + i - 1] = bytes[i - offset]
             /\ i <= offset \/ offset + Len(bytes) < i => mem'[data[f] + i - 1] = mem[data[f] + i - 1]
  <2>1. data[f] + i - 1 \in Addresses
    BY <1>1, <1>4 DEF Addresses
  <2>2. CASE offset < i /\ i <= offset + Len(bytes)
    <3>1. i - offset \in 1 .. Len(bytes) /\ to + (i - offset) - 1 = data[f] + i - 1
      BY <1>2, <1>4, <2>2
    <3> QED
      BY <1>6, <2>1, <2>2, <3>1
  <2>3. CASE i <= offset \/ offset + Len(bytes) < i
    <3>1. data[f] + i - 1 < to \/ data[f] + i - 1 >= to + Len(bytes)
      BY <1>2, <1>4, <2>3
    <3> QED
      BY <1>2, <1>6, <2>1, <2>3, <3>1
  <2> QED
    BY <1>2, <2>2, <2>3
<1>10. heap_current' \in heap_current .. HeapSize - 1 /\ data[f] + size[f] <= heap_current'
  BY <1>1, <1>4, <1>7
<1>11. size[f] = IF offset + Len(bytes) > size[f] THEN offset + Len(bytes) ELSE size[f]
  BY <1>1, <1>2, <1>3
<1> HIDE DEF to
<1>12. \A i \in 1 .. size[f] : ~(size[f] < i /\ i <= offset)
  BY <1>1
<1>13. \A i \in 1 .. size[f] :
        /\ offset < i /\ i <= offset + Len(bytes) => mem'[data[f] + i - 1] = bytes[i - offset]
        /\ size[f] < i /\ i <= offset => mem'[data[f] + i - 1] = 0
        /\ data[f] = data[f] /\ (i <= offset \/ offset + Len(bytes) < i) =>
              mem'[data[f] + i - 1] = mem[data[f] + i - 1]
  BY <1>9, <1>12
<1>14. mem' \in [Addresses -> Bytes]
  BY <1>6
<1> QED
  BY <1>1, <1>4, <1>7, <1>8, <1>10, <1>11, <1>13, <1>14 DEF Lands

\* Grown: whatever krealloc() took for the old size, it copied no further than the
\* new block reaches, and only from below it.
LEMMA GrowsLands ==
    ASSUME IInv, NEW f \in Files, NEW offset \in Nat, NEW bytes \in Writes,
           WriteGrows(f, offset, bytes)
    PROVE  /\ heap_current \in Nat /\ offset + Len(bytes) \in Nat
           /\ Lands(f, offset, bytes, heap_current, offset + Len(bytes))
<1> DEFINE required == offset + Len(bytes)
           here == heap_current
<1>1. /\ size[f] \in Nat /\ data[f] \in Addresses \cup {NULL} /\ here \in 0 .. HeapSize - 1
      /\ mem \in [Addresses -> Bytes] /\ HeapSize \in Nat
  BY HeapAssumption DEF IInv, TypeOK
<1>2. Len(bytes) \in Nat /\ Len(bytes) > 0 /\ required \in Nat /\ required > size[f]
  BY WriteFacts DEF WriteGrows
<1>3. here' = here + RoundUp(required) /\ here + RoundUp(required) < HeapSize
  BY DEF WriteGrows, Kmalloc, Fits
<1>4. here' \in here .. HeapSize - 1 /\ here + required <= here'
  <2>1. RoundUp(required) \in Nat /\ RoundUp(required) >= required
    BY <1>2, Rounded
  <2> HIDE DEF required
  <2> QED
    BY <1>1, <1>2, <1>3, <2>1
<1>5. PICK kept \in Nat :
        /\ mem' = Moved(f, kept, offset, bytes) /\ kept <= required
        /\ data[f] = NULL => kept = 0
  <2>1. PICK old \in OldSizes(f) :
          mem' = Moved(f, IF old < required THEN old ELSE required, offset, bytes)
    BY DEF WriteGrows
  <2>2. old \in Nat /\ (data[f] = NULL => old = 0)
    <3>1. CASE data[f] = NULL
      <4>1. NULL # 0
        BY HeapAssumption
      <4>2. OldSizes(f) = {0}
        BY <3>1, <4>1, Zenon DEF OldSizes
      <4> QED
        BY <2>1, <4>2
    <3>2. CASE data[f] = 0
      BY <1>1, <2>1, <3>2, HeapAssumption DEF OldSizes
    <3>3. CASE data[f] # NULL /\ data[f] # 0
      <4>1. data[f] - 1 \in Addresses
        BY <1>1, <3>3 DEF Addresses
      <4>2. old = mem[data[f] - 1]
        BY <2>1, <3>3 DEF OldSizes
      <4> QED
        BY <1>1, <3>3, <4>1, <4>2, HeapAssumption
    <3> QED
      BY <3>1, <3>2, <3>3
  <2> QED
    BY <1>2, <2>1, <2>2
<1>6. data[f] # NULL => data[f] \in Nat /\ data[f] < here
  BY <1>1 DEF IInv, Placed, Held, End, Addresses
<1>7. ASSUME NEW a \in Addresses
      PROVE  /\ here + offset <= a /\ a < here + required => mem'[a] = bytes[a - here - offset + 1]
             /\ here + size[f] <= a /\ a < here + offset => mem'[a] = 0
             /\ a < here => mem'[a] = mem[a]
             /\ mem'[a] \in Bytes
  <2>1. mem'[a] = IF a \in here + offset .. here + required - 1 THEN bytes[a - here - offset + 1]
                  ELSE IF a \in here + size[f] .. here + offset - 1 THEN 0
                  ELSE IF a \in here .. here + kept - 1 THEN mem[data[f] + a - here]
                  ELSE mem[a]
    <3>1. here + offset + Len(bytes) - 1 = here + required - 1
      BY <1>1, <1>2
    <3> HIDE DEF required
    <3> QED
      BY <1>5, <3>1 DEF Moved
  <2>2. a \in Int
    BY DEF Addresses
  <2>3. CASE here + offset <= a /\ a < here + required
    <3>1. a - here - offset + 1 \in 1 .. Len(bytes)
      BY <1>1, <1>2, <2>2, <2>3
    <3>2. mem'[a] = bytes[a - here - offset + 1]
      BY <1>1, <1>2, <2>1, <2>2, <2>3
    <3> QED
      BY SMTT(60), <1>1, <1>2, <2>2, <2>3, <3>1, <3>2, WriteFacts
  <2>4. CASE here + size[f] <= a /\ a < here + offset
    BY <1>1, <1>2, <2>1, <2>2, <2>4, HeapAssumption
  <2>5. CASE a < here
    BY SMTT(60), <1>1, <1>2, <2>1, <2>2, <2>5
  <2>6. CASE a >= here /\ ~(here + offset <= a /\ a < here + required)
             /\ ~(here + size[f] <= a /\ a < here + offset)
    <3>1. CASE a \in here .. here + kept - 1
      <4>1. data[f] # NULL
        BY <1>1, <1>5, <2>2, <3>1
      <4>2. data[f] \in Nat /\ data[f] < here /\ a < here + kept /\ here + kept <= HeapSize
        BY SMTT(60), <1>1, <1>2, <1>4, <1>5, <1>6, <2>2, <3>1, <4>1
      <4>3. data[f] + a - here \in Addresses
        BY SMTT(60), <1>1, <1>5, <2>2, <2>6, <4>2 DEF Addresses
      <4>4. mem'[a] = mem[data[f] + a - here]
        BY <1>1, <1>2, <2>1, <2>2, <2>6, <3>1
      <4>5. mem'[a] \in Bytes
        BY <1>1, <4>3, <4>4
      <4> QED
        BY <1>1, <1>2, <2>2, <2>6, <4>5
    <3>2. CASE a \notin here .. here + kept - 1
      BY <1>1, <1>2, <2>1, <2>2, <2>6, <3>2
    <3> QED
      BY <3>1, <3>2
  <2> QED
    BY <1>1, <1>2, <2>2, <2>3, <2>4, <2>5, <2>6
<1>8. mem' \in [Addresses -> Bytes]
  <2>1. mem' = [a \in Addresses |-> mem'[a]]
    BY <1>5 DEF Moved
  <2> QED
    BY <1>7, <2>1
<1>9. data' = [data EXCEPT ![f] = here] /\ size' = [size EXCEPT ![f] = required]
  BY DEF WriteGrows
<1>10. \A a \in 0 .. here - 1 : mem'[a] = mem[a]
  BY SMTT(30), <1>1, <1>7 DEF Addresses
<1>11. ASSUME NEW i \in 1 .. required
       PROVE  /\ offset < i => mem'[here + i - 1] = bytes[i - offset]
              /\ size[f] < i /\ i <= offset => mem'[here + i - 1] = 0
  <2>1. here + i - 1 \in Addresses
    BY <1>1, <1>2, <1>4 DEF Addresses
  <2>2. CASE offset < i
    <3> DEFINE a == here + i - 1
    <3>1. a - here - offset + 1 = i - offset
      BY <1>1
    <3>2. here + offset <= a /\ a < here + required
      BY <1>1, <1>2, <2>2
    <3>3. a \in Addresses
      BY <2>1
    <3> HIDE DEF a
    <3>4. mem'[a] = bytes[a - here - offset + 1]
      BY <1>7, <3>2, <3>3
    <3>5. mem'[a] = bytes[i - offset]
      BY <3>1, <3>4
    <3> QED
      BY <1>2, <2>2, <3>5 DEF a
  <2>3. CASE size[f] < i /\ i <= offset
    BY <1>1, <1>7, <2>1, <2>3
  <2> QED
    BY <2>2, <2>3
<1>12. here # data[f]
  BY <1>1, <1>6, HeapAssumption
<1> QED
  BY <1>1, <1>2, <1>4, <1>8, <1>9, <1>10, <1>11, <1>12 DEF Lands

\* A write keeps every owner in its place, its neighbours' bytes, and its own, but
\* for what it moved.
LEMMA LandsKeeps ==
    ASSUME IInv, NEW f \in Files, NEW offset \in Nat, NEW bytes \in Writes,
           NEW at \in Nat, NEW n \in Nat, Lands(f, offset, bytes, at, n),
           content' = [content EXCEPT ![f] = Written(@, offset, bytes)],
           ret' = Len(bytes), UNCHANGED objects
    PROVE  IInv' /\ NeighboursStep /\ MoveStep
<1> DEFINE end == offset + Len(bytes)
           here == heap_current
<1>1. /\ size \in [Files -> Nat] /\ data \in [Files -> Addresses \cup {NULL}]
      /\ here \in 0 .. HeapSize - 1 /\ mem \in [Addresses -> Bytes] /\ HeapSize \in Nat
      /\ content \in [Files -> Seq(Bytes)] /\ NULL \notin Int
  BY HeapAssumption DEF IInv, TypeOK
<1>2. /\ Len(bytes) \in Nat /\ Len(bytes) > 0 /\ end \in Nat
      /\ n = (IF end > size[f] THEN end ELSE size[f]) /\ n > 0 /\ n >= size[f] /\ n >= end
  BY SMTT(60), <1>1, WriteFacts DEF Lands
<1>3. /\ here' \in here .. HeapSize - 1 /\ mem' \in [Addresses -> Bytes] /\ at + n <= here'
      /\ at \in Addresses
  BY <1>1, <1>2 DEF Lands, Addresses
<1>4. /\ data'[f] = at /\ size'[f] = n
      /\ \A g \in Files \ {f} : data'[g] = data[g] /\ size'[g] = size[g] /\ content'[g] = content[g]
  BY <1>1 DEF Lands
<1>5. /\ content'[f] \in Seq(Bytes) /\ Len(content'[f]) = n
      /\ \A i \in 1 .. n :
            /\ offset < i /\ i <= end => content'[f][i] = bytes[i - offset]
            /\ i <= size[f] /\ (i <= offset \/ end < i) => content'[f][i] = content[f][i]
            /\ size[f] < i /\ i <= offset => content'[f][i] = 0
  <2>1. content'[f] = Written(content[f], offset, bytes) /\ content[f] \in Seq(Bytes)
    BY <1>1
  <2>2. Len(content[f]) = size[f]
    BY DEF IInv
  <2> DEFINE old == content[f]
             new == Written(old, offset, bytes)
  <2>3. old \in Seq(Bytes) /\ Len(old) = size[f]
    BY <2>1, <2>2
  <2> HIDE DEF old
  <2>4. /\ new \in Seq(Bytes)
        /\ Len(new) = IF end > Len(old) THEN end ELSE Len(old)
        /\ \A i \in 1 .. Len(new) :
              /\ offset < i /\ i <= end => new[i] = bytes[i - offset]
              /\ i <= Len(old) /\ (i <= offset \/ end < i) => new[i] = old[i]
              /\ Len(old) < i /\ i <= offset => new[i] = 0
    BY ZenonT(30), <2>3, WrittenFacts
  <2>5. Len(new) = n
    BY <1>2, <2>3, <2>4
  <2> HIDE DEF new
  <2>6. content'[f] = new
    BY <2>1 DEF new, old
  <2> QED
    BY SMTT(30), <2>3, <2>4, <2>5, <2>6 DEF old
<1>6. \/ at = data[f] /\ n = size[f] /\ Held(f)
      \/ at = here /\ n > size[f] /\ (Held(f) => data[f] < here)
  BY SMTT(30), <1>1, <1>2 DEF Lands, IInv, Placed, Held, End, Addresses
<1>7. \A a \in 0 .. here - 1 : a < at \/ a >= at + n => mem'[a] = mem[a]
  BY DEF Lands
<1>8. TypeOK'
  <2>1. data' \in [Files -> Addresses \cup {NULL}] /\ size' \in [Files -> Nat]
    BY <1>1, <1>3 DEF Lands
  <2>2. content' \in [Files -> Seq(Bytes)]
    BY <1>1, <1>5
  <2>3. ret' \in Int /\ here' \in 0 .. HeapSize - 1
    BY <1>1, <1>2, <1>3
  <2> QED
    BY <1>3, <2>1, <2>2, <2>3 DEF TypeOK
<1>9. \A g \in Files \ {f} : Held(g) => End(g) <= here /\ (End(g) <= at \/ at + n <= data[g])
  BY <1>1, <1>6 DEF IInv, Placed, Held, End, Addresses
<1>10. \A o \in objects : EndOf(o) <= here /\ (EndOf(o) <= at \/ at + n <= o.at)
  BY SMTT(30), <1>1, <1>6 DEF IInv, Placed, Intact, Held, End, EndOf, Addresses
<1>11. Placed'
  <2>1. ASSUME NEW g \in Files PROVE (size[g] > 0 <=> Held(g))'
    <3>1. CASE g = f
      BY <1>1, <1>2, <1>4, <3>1 DEF Held
    <3>2. CASE g # f
      BY <1>4, <3>2 DEF IInv, Placed, Held
    <3> QED
      BY <3>1, <3>2
  <2>2. \A g \in Files : (Held(g) => End(g) <= here)'
    BY SMTT(60), <1>1, <1>3, <1>4, <1>9 DEF Held, End, Addresses
  <2>3. ASSUME NEW g \in Files, NEW h \in Files, Held(g)', Held(h)', g # h
        PROVE  (End(g) <= data[h] \/ End(h) <= data[g])'
    <3>1. CASE g = f
      BY <1>4, <1>9, <2>3, <3>1 DEF Held, End
    <3>2. CASE h = f
      BY <1>4, <1>9, <2>3, <3>2 DEF Held, End
    <3>3. CASE g # f /\ h # f
      BY <1>4, <2>3, <3>3 DEF IInv, Placed, Held, End
    <3> QED
      BY <3>1, <3>2, <3>3
  <2>4. ASSUME NEW g \in Files, NEW o \in objects, Held(g)'
        PROVE  (End(g) <= o.at \/ EndOf(o) <= data[g])'
    <3>1. CASE g = f
      BY <1>4, <1>10, <3>1 DEF End, EndOf
    <3>2. CASE g # f
      BY <1>4, <2>4, <3>2 DEF IInv, Placed, Held, End, EndOf
    <3> QED
      BY <3>1, <3>2
  <2> QED
    BY <2>1, <2>2, <2>3, <2>4 DEF Placed
<1>12. ASSUME NEW o \in objects
       PROVE  /\ o.at \in Nat /\ o.holds \in Seq(Bytes) /\ Len(o.holds) \in Nat
              /\ EndOf(o) <= here' /\ DOMAIN o.holds = 1 .. Len(o.holds)
              /\ \A i \in 1 .. Len(o.holds) : mem'[o.at + i - 1] = o.holds[i]
  <2>1. /\ o.at \in Nat /\ o.holds \in Seq(Bytes) /\ EndOf(o) <= here
        /\ \A i \in 1 .. Len(o.holds) : mem[o.at + i - 1] = o.holds[i]
    BY DEF IInv, Intact
  <2>2. Len(o.holds) \in Nat /\ DOMAIN o.holds = 1 .. Len(o.holds)
    BY <2>1, LenProperties
  <2>3. EndOf(o) <= here'
    BY SMTT(30), <1>1, <1>3, <2>1, <2>2 DEF EndOf
  <2>4. ASSUME NEW i \in 1 .. Len(o.holds)
        PROVE  mem'[o.at + i - 1] = mem[o.at + i - 1]
    <3>1. o.at + i - 1 \in 0 .. here - 1
      BY SMTT(60), <1>1, <2>1, <2>2 DEF EndOf
    <3>2. o.at + i - 1 < at \/ o.at + i - 1 >= at + n
      BY SMTT(60), <1>10, <2>1, <2>2 DEF EndOf
    <3> QED
      BY <1>7, <3>1, <3>2
  <2> QED
    BY <2>1, <2>2, <2>3, <2>4
<1>13. Intact'
  BY <1>12 DEF Intact, EndOf
<1>14. IInv'
  <2>1. \A g \in Files : Len(content'[g]) = size'[g]
    BY <1>4, <1>5 DEF IInv
  <2> QED
    BY <1>8, <1>11, <1>13, <2>1 DEF IInv
<1>15. ASSUME NEW g \in Files \ {f}, NEW i \in 1 .. size'[g]
       PROVE  /\ tmpfs_read(g)'[i] = tmpfs_read(g)[i]
              /\ content'[g][i] = content[g][i] /\ i <= size[g]
  <2>1. size[g] \in Nat /\ i \in 1 .. size[g] /\ size'[g] = size[g] /\ data'[g] = data[g]
    BY <1>1, <1>4
  <2>2. data[g] \in Nat /\ Held(g)
    BY <1>1, <2>1 DEF IInv, Placed, Held, Addresses
  <2>3. mem'[data[g] + i - 1] = mem[data[g] + i - 1]
    <3>1. End(g) <= here /\ (End(g) <= at \/ at + n <= data[g])
      BY <1>9, <2>2
    <3>2. data[g] + i - 1 \in 0 .. here - 1
      BY SMTT(60), <1>1, <2>1, <2>2, <3>1 DEF End
    <3>3. data[g] + i - 1 < at \/ data[g] + i - 1 >= at + n
      BY SMTT(30), <2>1, <2>2, <3>1 DEF End
    <3> QED
      BY <1>7, <3>2, <3>3
  <2> QED
    BY <1>4, <2>1, <2>3 DEF tmpfs_read
<1>16. ASSUME NEW i \in 1 .. n
       PROVE  \/ tmpfs_read(f)'[i] = content'[f][i]
              \/ at = here /\ n > size[f] /\ i <= size[f]
              \/ /\ at = data[f] /\ n = size[f] /\ i <= size[f]
                 /\ tmpfs_read(f)'[i] = tmpfs_read(f)[i] /\ content'[f][i] = content[f][i]
  <2>1. tmpfs_read(f)'[i] = mem'[at + i - 1]
    BY <1>4 DEF tmpfs_read
  <2>2. /\ offset < i /\ i <= end => mem'[at + i - 1] = bytes[i - offset]
        /\ size[f] < i /\ i <= offset => mem'[at + i - 1] = 0
        /\ at = data[f] /\ (i <= offset \/ end < i) => mem'[at + i - 1] = mem[at + i - 1]
    BY DEF Lands
  <2>3. CASE offset < i /\ i <= end
    BY <1>5, <2>1, <2>2, <2>3
  <2>4. CASE size[f] < i /\ i <= offset
    BY <1>5, <2>1, <2>2, <2>4
  <2>5. CASE i <= size[f] /\ (i <= offset \/ end < i)
    <3>1. content'[f][i] = content[f][i]
      BY <1>5, <2>5
    <3>2. at = data[f] => tmpfs_read(f)[i] = mem[at + i - 1]
      BY <1>1, <2>5 DEF tmpfs_read
    <3> QED
      BY <1>6, <2>1, <2>2, <2>5, <3>1, <3>2
  <2> QED
    BY <1>1, <1>2, <2>3, <2>4, <2>5
<1>17. NeighboursStep
  <2>1. ASSUME NEW g \in Files, content'[g] = content[g], NEW i \in 1 .. size'[g]
        PROVE  tmpfs_read(g)'[i] \in {tmpfs_read(g)[i], content[g][i]}
    <3>1. CASE g # f
      BY <1>15, <3>1
    <3>2. CASE g = f
      <4>1. n = size[f]
        BY <1>5, <2>1, <3>2 DEF IInv
      <4>2. i \in 1 .. n /\ ~(n > size[f])
        BY <1>1, <1>4, <2>1, <3>2, <4>1
      <4> QED
        BY <1>16, <2>1, <3>2, <4>2
    <3> QED
      BY <3>1, <3>2
  <2>2. \A o \in objects : \A i \in DOMAIN o.holds : mem'[o.at + i - 1] = o.holds[i]
    BY <1>12
  <2> QED
    BY <2>1, <2>2 DEF NeighboursStep
<1>18. MoveStep
  <2>1. ASSUME NEW g \in Files, NEW i \in 1 .. size'[g], tmpfs_read(g)'[i] # content'[g][i]
        PROVE  i <= size[g] /\ (tmpfs_read(g)[i] # content[g][i] \/ data'[g] # data[g])
    <3>1. CASE g # f
      BY <1>15, <2>1, <3>1
    <3>2. CASE g = f
      <4>1. at = here /\ n > size[f] => here # data[f]
        BY <1>1, <1>6 DEF Held
      <4>2. i \in 1 .. n /\ data'[f] = at
        BY <1>4, <3>2
      <4>3. \/ at = here /\ n > size[f] /\ i <= size[f]
            \/ i <= size[f] /\ tmpfs_read(f)'[i] = tmpfs_read(f)[i] /\ content'[f][i] = content[f][i]
        BY <1>16, <2>1, <3>2, <4>2
      <4> QED
        BY <2>1, <3>2, <4>1, <4>2, <4>3
    <3> QED
      BY <3>1, <3>2
  <2> QED
    BY <2>1 DEF MoveStep
<1> QED
  BY <1>14, <1>17, <1>18

-----------------------------------------------------------------------------
(* The other steps *)

\* Where nothing in memory changes nothing can be disturbed.
LEMMA StillKeeps ==
    ASSUME IInv, UNCHANGED <<heap_current, mem, data, size, objects, content>>, ret' \in Int
    PROVE  IInv' /\ NeighboursStep /\ MoveStep
<1>1. TypeOK' /\ Placed' /\ Intact'
  BY DEF IInv, TypeOK, Placed, Intact, Held, End, EndOf
<1>2. IInv'
  BY <1>1 DEF IInv
<1>3. \A f \in Files : tmpfs_read(f)' = tmpfs_read(f)
  BY DEF tmpfs_read
<1>4. NeighboursStep
  <2>1. \A o \in objects : DOMAIN o.holds = 1 .. Len(o.holds)
    BY LenProperties DEF IInv, Intact
  <2>2. \A o \in objects : \A i \in DOMAIN o.holds : mem'[o.at + i - 1] = o.holds[i]
    BY <2>1 DEF IInv, Intact
  <2> QED
    BY <1>3, <2>2 DEF NeighboursStep
<1>5. MoveStep
  <2>1. \A f \in Files : size[f] \in Nat
    BY DEF IInv, TypeOK
  <2> QED
    BY <1>3, <2>1 DEF MoveStep
<1> QED
  BY <1>2, <1>4, <1>5

\* A new object takes its place behind every owner.
LEMMA ObjectKeeps ==
    ASSUME IInv, NEW words \in Objects, NewObject(words)
    PROVE  IInv' /\ NeighboursStep /\ MoveStep
<1> DEFINE here == heap_current
           new == [at |-> here, holds |-> words]
<1>1. /\ size \in [Files -> Nat] /\ data \in [Files -> Addresses \cup {NULL}]
      /\ here \in 0 .. HeapSize - 1 /\ mem \in [Addresses -> Bytes] /\ HeapSize \in Nat
      /\ content \in [Files -> Seq(Bytes)] /\ ret \in Int
  BY HeapAssumption DEF IInv, TypeOK
<1>2. words \in Seq(Bytes) /\ Len(words) \in Nat /\ Len(words) > 0
  BY WriteFacts
<1>3. here' \in here .. HeapSize - 1 /\ here + Len(words) <= here'
  <2>1. RoundUp(Len(words)) \in Nat /\ RoundUp(Len(words)) >= Len(words)
    BY <1>2, Rounded
  <2>2. here' = here + RoundUp(Len(words)) /\ here + RoundUp(Len(words)) < HeapSize
    BY DEF NewObject, Kmalloc, Fits
  <2> QED
    BY <1>1, <1>2, <2>1, <2>2
<1>4. /\ mem' \in [Addresses -> Bytes]
      /\ \A a \in Addresses : a < here => mem'[a] = mem[a]
      /\ \A i \in 1 .. Len(words) : here + i - 1 \in Addresses => mem'[here + i - 1] = words[i]
  <2>1. mem' = Store(mem, here, words) /\ here \in Nat /\ words \in Writes \cup Objects
    BY <1>1 DEF NewObject
  <2> QED
    BY <1>1, <2>1, Stored
<1>5. objects' = objects \cup {new} /\ UNCHANGED <<data, size, content, ret>>
  BY DEF NewObject
<1>6. TypeOK'
  BY <1>1, <1>3, <1>4, <1>5 DEF TypeOK
<1>7. \A f \in Files : Held(f) => End(f) <= here
  BY DEF IInv, Placed
<1>8. Placed'
  <2>1. \A f \in Files : Held(f) => data[f] \in Nat /\ size[f] \in Nat
    BY <1>1 DEF Held, Addresses
  <2>2. \A f \in Files : (Held(f) => End(f) <= heap_current)'
    BY <1>1, <1>3, <1>5, <1>7, <2>1 DEF Held, End
  <2>3. ASSUME NEW f \in Files, NEW o \in objects', Held(f)
        PROVE  End(f) <= o.at \/ EndOf(o) <= data[f]
    <3>1. CASE o = new
      BY <1>7, <2>3, <3>1
    <3>2. CASE o \in objects
      BY <2>3, <3>2 DEF IInv, Placed
    <3> QED
      BY <1>5, <3>1, <3>2
  <2> QED
    BY <1>5, <2>2, <2>3 DEF IInv, Placed, Held, End, EndOf
<1>9. ASSUME NEW o \in objects
      PROVE  /\ o.at \in Nat /\ o.holds \in Seq(Bytes) /\ EndOf(o) <= here'
             /\ DOMAIN o.holds = 1 .. Len(o.holds)
             /\ \A i \in 1 .. Len(o.holds) : mem'[o.at + i - 1] = o.holds[i]
  <2>1. /\ o.at \in Nat /\ o.holds \in Seq(Bytes) /\ EndOf(o) <= here
        /\ \A i \in 1 .. Len(o.holds) : mem[o.at + i - 1] = o.holds[i]
    BY DEF IInv, Intact
  <2>2. Len(o.holds) \in Nat /\ DOMAIN o.holds = 1 .. Len(o.holds)
    BY <2>1, LenProperties
  <2>3. EndOf(o) <= here'
    BY <1>1, <1>3, <2>1, <2>2 DEF EndOf
  <2>4. ASSUME NEW i \in 1 .. Len(o.holds)
        PROVE  mem'[o.at + i - 1] = mem[o.at + i - 1]
    BY SMTT(30), <1>1, <1>4, <2>1, <2>2 DEF EndOf, Addresses
  <2> QED
    BY <2>1, <2>2, <2>3, <2>4
<1>10. Intact'
  <2>1. /\ new.at \in Nat /\ new.holds \in Seq(Bytes) /\ EndOf(new) <= here'
        /\ \A i \in 1 .. Len(new.holds) : mem'[new.at + i - 1] = new.holds[i]
    BY <1>1, <1>2, <1>3, <1>4 DEF EndOf, Addresses
  <2> QED
    BY <1>5, <1>9, <2>1 DEF Intact, EndOf
<1>11. IInv'
  BY <1>5, <1>6, <1>8, <1>10 DEF IInv
<1>12. ASSUME NEW f \in Files, NEW i \in 1 .. size[f]
       PROVE  tmpfs_read(f)'[i] = tmpfs_read(f)[i]
  <2>1. Held(f) /\ data[f] \in Nat /\ size[f] \in Nat
    BY <1>1 DEF IInv, Placed, Held, Addresses
  <2>2. mem'[data[f] + i - 1] = mem[data[f] + i - 1]
    BY <1>1, <1>4, <1>7, <2>1 DEF End, Addresses
  <2> QED
    BY <1>5, <2>2 DEF tmpfs_read
<1>13. NeighboursStep
  BY <1>5, <1>9, <1>12 DEF NeighboursStep
<1>14. MoveStep
  BY <1>1, <1>5, <1>12 DEF MoveStep
<1> QED
  BY <1>11, <1>13, <1>14

-----------------------------------------------------------------------------
(* The whole *)

\* The heap starts empty.
LEMMA InitInv == Init => IInv
<1> SUFFICES ASSUME Init PROVE IInv
  OBVIOUS
<1>1. \A f \in Files : content[f] = <<>> /\ size[f] = 0 /\ ~Held(f)
  BY DEF Init, Held
<1>2. TypeOK
  <2>1. mem \in [Addresses -> Bytes]
    BY HeapAssumption DEF Init, Addresses
  <2> QED
    BY <2>1, HeapAssumption DEF Init, TypeOK
<1>3. Placed
  BY <1>1 DEF Placed
<1>4. Intact
  BY DEF Init, Intact
<1> QED
  BY <1>1, <1>2, <1>3, <1>4, EmptySeq DEF IInv

\* Every step keeps it, and disturbs nobody.
LEMMA NextInv == ASSUME IInv, [Next]_vars PROVE IInv' /\ NeighboursStep /\ MoveStep
<1>1. CASE UNCHANGED vars
  BY <1>1, StillKeeps DEF vars, IInv, TypeOK
<1>2. CASE \E words \in Objects : NewObject(words)
  BY <1>2, ObjectKeeps
<1>3. CASE \E f \in Files, offset \in 0 .. MaxOffset, bytes \in Writes : tmpfs_write(f, offset, bytes)
  <2>1. PICK f \in Files, offset \in 0 .. MaxOffset, bytes \in Writes : tmpfs_write(f, offset, bytes)
    BY <1>3
  <2>2. offset \in Nat
    BY <2>1
  <2>3. CASE WriteRefused(f, offset, bytes)
    BY <2>3, StillKeeps DEF WriteRefused, ENOSPC
  <2>4. CASE /\ content' = [content EXCEPT ![f] = Written(@, offset, bytes)]
             /\ ret' = Len(bytes) /\ UNCHANGED objects
             /\ WriteInside(f, offset, bytes)
    BY <2>2, <2>4, InsideLands, LandsKeeps
  <2>5. CASE /\ content' = [content EXCEPT ![f] = Written(@, offset, bytes)]
             /\ ret' = Len(bytes) /\ UNCHANGED objects
             /\ WriteGrows(f, offset, bytes)
    BY <2>2, <2>5, GrowsLands, LandsKeeps
  <2> QED
    BY <2>1, <2>3, <2>4, <2>5 DEF tmpfs_write
<1> QED
  BY <1>1, <1>2, <1>3 DEF Next

\* Blocks as sets of addresses.
LEMMA Consequence == IInv => BlocksSound
<1> SUFFICES ASSUME IInv PROVE BlocksSound
  OBVIOUS
<1>1. TypeOK /\ \A f \in Files : Held(f) => data[f] \in Nat /\ size[f] \in Nat
  BY DEF IInv, TypeOK, Held, Addresses
<1>2. \A f \in Files : size[f] > 0 => data[f] # NULL
  BY DEF IInv, Placed, Held
<1>3. \A f \in Files : Block(f) \subseteq 0 .. heap_current - 1
  BY <1>1 DEF IInv, TypeOK, Placed, Held, End, Block
<1>4. \A f, g \in Files : f # g => Block(f) \cap Block(g) = {}
  BY SMTT(30), <1>1 DEF IInv, Placed, Held, End, Block
<1>5. \A f \in Files, o \in objects : Block(f) \cap Place(o) = {}
  <2>1. \A o \in objects : o.at \in Nat /\ Len(o.holds) \in Nat
    BY LenProperties DEF IInv, Intact
  <2> QED
    BY SMTT(30), <1>1, <2>1 DEF IInv, Placed, Held, End, EndOf, Block, Place
<1> QED
  BY <1>1, <1>2, <1>3, <1>4, <1>5 DEF BlocksSound

\* No two owners ever share a byte of the heap.
THEOREM BlocksApart == Spec => []BlocksSound
BY InitInv, NextInv, Consequence, PTL DEF Spec

\* What one file does is seen in no other file and in no object of the kernel.
THEOREM NeighboursSafe == Spec => NeighboursUntouched
<1>1. IInv /\ [Next]_vars => [NeighboursStep]_vars
  BY NextInv
<1> QED
  BY <1>1, InitInv, NextInv, PTL DEF Spec, NeighboursUntouched

\* Moving a file is the only way one of its bytes goes wrong.
THEOREM WrongByMoving == Spec => WrongOnlyByMove
<1>1. IInv /\ [Next]_vars => [MoveStep]_vars
  BY NextInv
<1> QED
  BY <1>1, InitInv, NextInv, PTL DEF Spec, WrongOnlyByMove
=============================================================================
