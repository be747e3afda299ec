------------------------------ MODULE MCKeypad ------------------------------
(* A letter, shifted and toggled, and the partial keystroke are typed.      *)
(* Functions are registered for the letter with any shift state, with any  *)
(* toggle state (both match it, neither covers the other), and with        *)
(* another shift state, which does not match.                              *)
EXTENDS Keypad

CONSTANTS a, nul

MCCode == {a, nul}
MCShift == 0 .. 2
MCToggle == {0, 1}
Letter == [Code |-> a, Shift |-> 1, Toggle |-> 1]
Bare == [Code |-> nul, Shift |-> 0, Toggle |-> 0]
AnyShift == [Letter EXCEPT !.Shift = 0]
AnyToggle == [Letter EXCEPT !.Toggle = 0]
OtherShift == [AnyToggle EXCEPT !.Shift = 2]
MCTyped == {Letter, Bare}
MCWanted == {AnyShift, AnyToggle, OtherShift}
=============================================================================
