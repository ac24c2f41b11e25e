------------------------------- MODULE MCList -------------------------------
(***************************************************************************)
(* A small instance of List for TLC.                                       *)
(***************************************************************************)
EXTENDS List, TLC

CONSTANTS h1, h2, h3, n1, n2, n3, null

CellSymmetry == Permutations(Heads) \cup Permutations(Nodes)
=============================================================================
