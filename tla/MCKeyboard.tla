---------------------------- MODULE MCKeyboard ----------------------------
(***************************************************************************)
(* A small instance of Keyboard for TLC.                                   *)
(***************************************************************************)
EXTENDS Keyboard

CONSTANTS a, b, none

\* Two keys, and a release.
MCScancodes == {16, 17, 144}
MCKbdus == [s \in Scancodes |-> CASE s = 16 -> a [] s = 17 -> b [] OTHER -> none]
=============================================================================
