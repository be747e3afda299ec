------------------------------ MODULE KeyRing ------------------------------
(***************************************************************************)
(* EFI_KEY_QUEUE of KeypadDxe (Keypad.h, KeypadTextIn.c): a ring of        *)
(* KEYPAD_EFI_KEY_MAX_COUNT slots with a Head and a Tail index.  Equal     *)
(* indices mean empty, so one slot is never in use and the ring holds      *)
(* KEYPAD_EFI_KEY_MAX_COUNT - 1 keys.                                      *)
(*                                                                         *)
(* The queue is a private field of the driver, and every operation on it   *)
(* runs at TPL_NOTIFY: each is one step.                                   *)
(***************************************************************************)
EXTENDS Integers, Sequences

CONSTANTS
  KEYPAD_EFI_KEY_MAX_COUNT,
  Key,
  Partial,     \* keys with ScanCode = SCAN_NULL and UnicodeChar = CHAR_NULL
  ZeroKey,     \* the all-zero key a slot holds before it is written
  NotReady,    \* EFI_NOT_READY
  Done         \* EFI_SUCCESS of InitKeypad

ASSUME SizeAssumption == KEYPAD_EFI_KEY_MAX_COUNT \in Nat /\ KEYPAD_EFI_KEY_MAX_COUNT >= 2
ASSUME KeyAssumption == Partial \subseteq Key /\ ZeroKey \in Partial
                        /\ {NotReady, Done} \cap Key = {}

VARIABLES
  Queue,       \* [Buffer, Head, Tail]
  Received     \* what the last caller received: a key, NotReady or Done

vars == <<Queue, Received>>

Slots == 0 .. KEYPAD_EFI_KEY_MAX_COUNT - 1

EFI_KEY_QUEUE == [Buffer : [Slots -> Key], Head : Slots, Tail : Slots]

NextSlot(i) == (i + 1) % KEYPAD_EFI_KEY_MAX_COUNT

IsEfikeyBufEmpty(q) == q.Head = q.Tail

AtHead(q) == q.Buffer[q.Head]

PopEfikeyBufHead(q) ==
  IF IsEfikeyBufEmpty(q) THEN q ELSE [q EXCEPT !.Head = NextSlot(q.Head)]

\* Mistake: the full test is missing, so Tail runs onto Head.
PushWithoutDrop(q, k) ==
  [q EXCEPT !.Buffer[q.Tail] = k, !.Tail = NextSlot(q.Tail)]

PushEfikeyBufTail(q, k) ==
  LET room == IF NextSlot(q.Tail) = q.Head THEN PopEfikeyBufHead(q) ELSE q
  IN [room EXCEPT !.Buffer[q.Tail] = k, !.Tail = NextSlot(q.Tail)]

(***************************************************************************)
(* The operations.                                                         *)
(***************************************************************************)
Init == /\ Queue = [Buffer |-> [i \in Slots |-> ZeroKey], Head |-> 0, Tail |-> 0]
        /\ Received = NotReady

Push(k) == /\ Queue' = PushEfikeyBufTail(Queue, k)
           /\ UNCHANGED Received

Pop == /\ Queue' = PopEfikeyBufHead(Queue)
       /\ Received' = IF IsEfikeyBufEmpty(Queue) THEN NotReady ELSE AtHead(Queue)

\* One iteration of the loop of KeypadWaitForKey: a partial key at the head
\* is thrown away, any other key is announced and left in place.
WaitSkip == /\ ~IsEfikeyBufEmpty(Queue)
            /\ AtHead(Queue) \in Partial
            /\ Queue' = PopEfikeyBufHead(Queue)
            /\ UNCHANGED Received

WaitSignal == /\ ~IsEfikeyBufEmpty(Queue)
              /\ AtHead(Queue) \notin Partial
              /\ Received' = AtHead(Queue)
              /\ UNCHANGED Queue

\* InitKeypad resets the indices and leaves the slots as they are.
Reset == /\ Queue' = [Queue EXCEPT !.Head = 0, !.Tail = 0]
         /\ Received' = Done

Next == (\E k \in Key : Push(k)) \/ Pop \/ WaitSkip \/ WaitSignal \/ Reset

Spec == Init /\ [][Next]_vars

(***************************************************************************)
(* Correctness.                                                            *)
(***************************************************************************)
\* The number of keys in the ring, and the keys from the oldest to the newest.
Count(q) == (q.Tail - q.Head) % KEYPAD_EFI_KEY_MAX_COUNT

Contents(q) ==
  [i \in 1 .. Count(q) |-> q.Buffer[(q.Head + i - 1) % KEYPAD_EFI_KEY_MAX_COUNT]]

\* The indices stay inside the buffer and every slot holds a key: an index that
\* left the buffer would read or write outside EFI_KEY_QUEUE.Buffer.
TypeOK == /\ Queue \in EFI_KEY_QUEUE
          /\ Received \in Key \cup {NotReady, Done}

Fifo == INSTANCE KeyFifo WITH
          pending <- Contents(Queue), answer <- Received,
          Capacity <- KEYPAD_EFI_KEY_MAX_COUNT - 1

\* Read through Contents, the ring is a FIFO of KEYPAD_EFI_KEY_MAX_COUNT - 1
\* keys that drops the oldest when it overflows, whatever the positions of
\* Head and Tail (PopEfikeyBufHead, PushEfikeyBufTail, InitKeypad).
ImplementsKeyFifo == Fifo!Spec
=============================================================================
