----------------------------- MODULE MemoryMap -----------------------------
(***************************************************************************)
(* What ArmMmuLib promises about the address map: a call names a region    *)
(* and what to do with the bits of its pages; every page of the region     *)
(* changes exactly once, no other page ever changes, and the call succeeds *)
(* only when the whole region has changed.  A call that runs out of memory *)
(* may leave a part of the region changed.                                 *)
(***************************************************************************)
CONSTANTS
  Page,       \* the pages of the address space
  Bit,        \* the attribute bits of a mapped page
  Unmapped    \* a page that translates to nothing

VARIABLES
  map,      \* what a page translates to: [to, bits] or Unmapped
  call,     \* what the call that runs does with the bits: [attrs, mask]
  todo,     \* pages it has yet to change
  status    \* "busy", or how the last call ended

vars == <<map, call, todo, status>>

Update == [attrs : SUBSET Bit, mask : SUBSET Bit]

BitsOf(entry) == IF entry = Unmapped THEN {} ELSE entry.bits

\* The bits outside the mask are cleared, the attributes are set, and a page
\* translates to itself.
Updated(p) ==
  [to |-> p, bits |-> (BitsOf(map[p]) \cap call.mask) \cup call.attrs]

Init ==
  /\ map = [p \in Page |-> Unmapped]
  /\ call \in Update /\ todo = {} /\ status = "SUCCESS"

Call ==
  /\ status # "busy"
  /\ call' \in Update /\ todo' \subseteq Page /\ status' = "busy"
  /\ UNCHANGED map

\* Any of the pages left, one or many at once.
Change ==
  /\ status = "busy"
  /\ todo' \subseteq todo
  /\ map' = [p \in Page |-> IF p \in todo \ todo' THEN Updated(p) ELSE map[p]]
  /\ UNCHANGED <<call, status>>

Succeed ==
  /\ status = "busy" /\ todo = {}
  /\ status' = "SUCCESS"
  /\ UNCHANGED <<map, call, todo>>

Fail ==
  /\ status = "busy"
  /\ status' = "OUT_OF_RESOURCES" /\ todo' = {}
  /\ UNCHANGED <<map, call>>

Next == Call \/ Change \/ Succeed \/ Fail

Spec == Init /\ [][Next]_vars
=============================================================================
