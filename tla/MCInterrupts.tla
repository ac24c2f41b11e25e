---------------------------- MODULE MCInterrupts ----------------------------
(***************************************************************************)
(* A small instance of Interrupts for TLC.                                 *)
(***************************************************************************)
EXTENDS Interrupts

CONSTANTS a, none, noByte

\* A key and its release.
MCScancodes == {16, 144}
MCKbdus == [s \in Scancodes |-> IF s = 16 THEN a ELSE none]
MCUnhandled == {4}
=============================================================================
