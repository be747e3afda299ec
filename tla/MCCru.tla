-------------------------------- MODULE MCCru -------------------------------
(* Dividers whose registers hold nothing, everything or every other bit at *)
(* reset.                                                                  *)
EXTENDS Cru

MCResets == {{}, 0 .. 15, {b \in 0 .. 15 : b % 2 = 0}}
=============================================================================
