----------------------------- MODULE MCConsole -----------------------------
(***************************************************************************)
(* A small instance of Console for TLC: a line may be longer than two rows *)
(* and nearly fill the screen.                                             *)
(***************************************************************************)
EXTENDS Console
=============================================================================
