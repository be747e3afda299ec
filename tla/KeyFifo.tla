------------------------------ MODULE KeyFifo ------------------------------
(***************************************************************************)
(* What the keypad driver promises about a key queue: a sequence of keys   *)
(* that keeps the newest Capacity of them in arrival order.  Accepting a   *)
(* key when Capacity keys are pending forgets the oldest one.              *)
(***************************************************************************)
EXTENDS Naturals, Sequences

CONSTANTS
  Key,        \* the keystrokes (EFI_KEY_DATA)
  Partial,    \* those with ScanCode = SCAN_NULL and UnicodeChar = CHAR_NULL
  Capacity,   \* how many keys can be pending at once
  NotReady,   \* the answer when no key is pending
  Done        \* the answer to Clear

VARIABLES
  pending,    \* the keys accepted and not yet taken, oldest first
  answer      \* what the last operation gave its caller

Put(s, k) == Append(IF Len(s) = Capacity THEN Tail(s) ELSE s, k)

Init == /\ pending = << >>
        /\ answer = NotReady

Accept(k) == /\ pending' = Put(pending, k)
             /\ UNCHANGED answer

Take == \/ /\ pending = << >>
           /\ answer' = NotReady
           /\ UNCHANGED pending
        \/ /\ pending # << >>
           /\ answer' = Head(pending)
           /\ pending' = Tail(pending)

\* The two iterations of a waiter: forget a partial key at the head, or
\* announce the key there.
Skip == /\ pending # << >>
        /\ Head(pending) \in Partial
        /\ pending' = Tail(pending)
        /\ UNCHANGED answer

Announce == /\ pending # << >>
            /\ Head(pending) \notin Partial
            /\ answer' = Head(pending)
            /\ UNCHANGED pending

Clear == /\ pending' = << >>
         /\ answer' = Done

Next == (\E k \in Key : Accept(k)) \/ Take \/ Skip \/ Announce \/ Clear

Spec == Init /\ [][Next]_<<pending, answer>>
=============================================================================
