----------------------------- MODULE MCKeyRing -----------------------------
(* A ring small enough for every position of Head and Tail to be reached.  *)
EXTENDS KeyRing

CONSTANTS a, b, p, none, done
MCKey == {a, b, p}
MCPartial == {p}
=============================================================================
