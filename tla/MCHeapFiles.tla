---------------------------- MODULE MCHeapFiles ----------------------------
(***************************************************************************)
(* A small instance of HeapFiles for TLC.                                  *)
(***************************************************************************)
EXTENDS HeapFiles, TLC

CONSTANTS f1, f2, null

MCWrites == {<<1>>, <<2, 1>>}
MCObjects == {<<2>>, <<0, 1, 9>>}

\* The same everywhere, or something else in every cell of a block.
MCMemories ==
    {[a \in Addresses |-> garbage] : garbage \in Bytes}
        \cup {[a \in Addresses |-> IF a % 3 = 2 THEN 9 ELSE a % 3]}

FileSymmetry == Permutations(Files)

\* No guard reads ret: states that differ in it alone have the same successors.
WithoutRet == <<heap_current, mem, data, size, objects, content>>
=============================================================================
