------------------------------- MODULE BitSet -------------------------------
(***************************************************************************)
(* What kernel/lib/bitmap.c promises: a set of the indices below bits.     *)
(* An index that is not below bits is ignored, alone or in a range; the    *)
(* indices of a range are counted in a size_t, modulo Word.                *)
(***************************************************************************)
EXTENDS Naturals

CONSTANTS Word, Counts     \* 2^width of size_t; how many indices a range may have

VARIABLES
    bits, members,
    call    \* the operation called last
svars == <<bits, members, call>>

Universe == 0 .. bits - 1
Range(start, count) == {(start + i) % Word : i \in 0 .. count - 1} \cap Universe

Init == bits \in 0 .. Word - 1 /\ members \in SUBSET Universe /\ call = <<"init">>

Zero == call' = <<"zero">> /\ members' = {}
Fill == call' = <<"fill">> /\ members' = Universe

Set(start, count) ==
    call' = <<"set", start, count>> /\ members' = members \cup Range(start, count)

Clear(start, count) ==
    call' = <<"clear", start, count>> /\ members' = members \ Range(start, count)

Toggle(i) ==
    call' = <<"toggle", i>> /\ members' = (members \ Range(i, 1)) \cup (Range(i, 1) \ members)

Next ==
    /\ \/ Zero \/ Fill
       \/ \E i \in 0 .. Word - 1 : Toggle(i)
       \/ \E start \in 0 .. Word - 1, count \in Counts : Set(start, count) \/ Clear(start, count)
    /\ UNCHANGED bits

Spec == Init /\ [][Next]_svars
=============================================================================
