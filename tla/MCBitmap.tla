------------------------------ MODULE MCBitmap ------------------------------
(***************************************************************************)
(* A small instance of Bitmap for TLC: a size_t of five bits, one byte     *)
(* more than the largest bitmap needs.                                     *)
(***************************************************************************)
EXTENDS Bitmap

CONSTANT null

MCGarbage == {{}, Offsets}
MCIndices == 0 .. 11 \cup {30, 31}

\* No guard reads call: states that differ in it alone have the same successors.
WithoutCall == <<data, bits>>
=============================================================================
