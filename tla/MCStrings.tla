----------------------------- MODULE MCStrings -----------------------------
(***************************************************************************)
(* A small instance of Strings for TLC.                                    *)
(***************************************************************************)
EXTENDS Strings

CONSTANT null

\* 1 and 200 as themselves, 200 as the char -56, and 1 with a bit beyond a byte.
MCInts == {0, -56, 257}
=============================================================================
