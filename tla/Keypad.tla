------------------------------- MODULE Keypad -------------------------------
(***************************************************************************)
(* The keypad console driver, KeypadDxe: keys flow from the keypad device  *)
(* (polled by a periodic timer and by every reader) into a key queue for   *)
(* readers and into a second queue for registered notification functions.  *)
(*                                                                         *)
(* UEFI has one processor and no threads; what interleaves are task        *)
(* priority levels (TPLs).  A caller is                                    *)
(*   "app"       code at TPL_APPLICATION, or                               *)
(*   "callback"  a notification function, called at TPL_CALLBACK from      *)
(*               KeyNotifyProcessHandler.                                  *)
(* Every driver service raises to TPL_NOTIFY and is one step of its        *)
(* caller, except ReadKeyStroke, which leaves TPL_NOTIFY on every turn of  *)
(* its loop.  The timer (TPL_NOTIFY) preempts anyone between two steps;    *)
(* KeyNotifyProcessHandler (TPL_CALLBACK) preempts the app, never itself.  *)
(*                                                                         *)
(* A key queue is a sequence here: KeyRing shows that the ring buffer of   *)
(* the code is that sequence.  KeypadError, the only function that sets    *)
(* KeypadErr, has no caller, so the tests of KeypadErr are left out, and   *)
(* so are the lock lights and the CTRL translation of ReadKeyStroke.       *)
(***************************************************************************)
EXTENDS Naturals, Sequences, FiniteSets

CONSTANTS
  Code,             \* scan code and character of a key, together
  CHAR_NULL,        \* the code SCAN_NULL / CHAR_NULL of a partial keystroke
  Shift, Toggle,    \* KeyShiftState and KeyToggleState of a key
  Fn,               \* notification functions
  Handle,           \* pool addresses a KEYPAD_CONSOLE_IN_EX_NOTIFY can have
  Capacity,         \* KEYPAD_EFI_KEY_MAX_COUNT - 1
  NULL,             \* no node, no key
  Typed,            \* the keys the device delivers
  Wanted,           \* the keys a caller registers
  Callers,          \* who uses the driver
  SelfUnregister,   \* whether a function may unregister itself while it runs
  MaxTyped          \* bound on the keystrokes of a behaviour

Key == [Code : Code, Shift : Shift, Toggle : Toggle]

ASSUME CapacityAssumption == Capacity \in Nat /\ Capacity > 0
ASSUME NullAssumption == NULL \notin Handle /\ NULL \notin Key
ASSUME KeyAssumption == /\ CHAR_NULL \in Code /\ 0 \in Shift /\ 0 \in Toggle
                        /\ Typed \subseteq Key /\ Wanted \subseteq Key
ASSUME CallersAssumption == Callers \subseteq {"app", "callback"}
ASSUME SelfAssumption == SelfUnregister \in BOOLEAN
ASSUME BoundAssumption == MaxTyped \in Nat

VARIABLES
  EfiKeyQueue,            \* keys waiting for a reader
  EfiKeyQueueForNotify,   \* keys waiting for the notification functions
  NotifyList,             \* registrations, in the order they were made
  IsSupportPartialKey,    \* whether partial keystrokes are queued at all
  signaled,               \* KeyNotifyProcessEvent is signalled, not yet dispatched
  handler,                \* KeyNotifyProcessHandler: [pc, KeyData, Link]
  reading,                \* callers inside the loop of ReadKeyStroke
  waiting,                \* history: handles still to be called for handler.KeyData
  promised,               \* history: WaitForKey was signalled and no key taken since
  crowded,                \* history: meanwhile a partial key came into a full queue
  result,                 \* what the last service answered: [op, status]
  typed                   \* keystrokes so far

vars == <<EfiKeyQueue, EfiKeyQueueForNotify, NotifyList, IsSupportPartialKey,
          signaled, handler, waiting, reading, promised, crowded, result, typed>>
promise == <<promised, crowded>>

Partial == {k \in Key : k.Code = CHAR_NULL}

(***************************************************************************)
(* Queues and registrations.                                               *)
(***************************************************************************)
\* The newest Capacity keys of a sequence: what a queue keeps of it.
Newest(s) == IF Len(s) <= Capacity THEN s
             ELSE SubSeq(s, Len(s) - Capacity + 1, Len(s))

Repeat(k, n) == [i \in 1 .. n |-> k]

\* The positions of the keys that are not partial.
ValueKeys(s) == {i \in 1 .. Len(s) : s[i] \notin Partial}

\* Mistake: the key at the head is announced whatever it is.
SkipNothing(s) == s

\* The queue without the partial keys at its head.
SkipPartial(s) ==
  IF ValueKeys(s) = {} THEN << >>
  ELSE SubSeq(s, CHOOSE i \in ValueKeys(s) : \A j \in ValueKeys(s) : i <= j, Len(s))

\* A registration with shift state 0 matches any shift state, one with toggle
\* state 0 any toggle state.
IsKeyRegistered(RegisteredData, InputData) ==
  /\ RegisteredData.Code = InputData.Code
  /\ RegisteredData.Shift # 0 => RegisteredData.Shift = InputData.Shift
  /\ RegisteredData.Toggle # 0 => RegisteredData.Toggle = InputData.Toggle

Registration == [handle : Handle, KeyData : Key, KeyNotificationFn : Fn]

Handles == {NotifyList[i].handle : i \in DOMAIN NotifyList}

NodeOf(h) == CHOOSE i \in DOMAIN NotifyList : NotifyList[i].handle = h

FirstNode == IF NotifyList = << >> THEN NULL ELSE NotifyList[1].handle

NextNode(h) == IF NodeOf(h) = Len(NotifyList) THEN NULL
               ELSE NotifyList[NodeOf(h) + 1].handle

\* What following the link of a node can give: the next node, or anything
\* if the node has been freed.
LinkOf(h) == IF h \in Handles THEN {NextNode(h)} ELSE Handle \cup {NULL}

(***************************************************************************)
(* Keys arriving.  Polling asks the device for keys; k = NULL when it has  *)
(* none.  Where it has several, the poll that brings them all is as many   *)
(* polls at once: the timer, which may run before any step, brings all but *)
(* the last.  KeypadReturnApiPushEfikeyBufTail takes a key: a partial one  *)
(* only if partial keys are supported.  It queues the key once for every   *)
(* registration that matches, and signals the event each time.             *)
(***************************************************************************)
Accepted(k) == k # NULL /\ (k \in Partial => IsSupportPartialKey)

Matches(k) == {i \in DOMAIN NotifyList : IsKeyRegistered(NotifyList[i].KeyData, k)}

QueueWith(k) == IF Accepted(k) THEN Newest(Append(EfiKeyQueue, k)) ELSE EfiKeyQueue

NotifyQueueWith(k) ==
  IF Accepted(k) THEN Newest(EfiKeyQueueForNotify \o Repeat(k, Cardinality(Matches(k))))
  ELSE EfiKeyQueueForNotify

\* Mistake: the event is signalled only if nobody seems to be handling keys.
SignalIfIdle(k) ==
  signaled \/ (Accepted(k) /\ Matches(k) # {} /\ handler.pc = "idle")

SignalWith(k) == signaled \/ (Accepted(k) /\ Matches(k) # {})

\* The promise that a key can be read: made, over, or still standing after a
\* poll, which may bring a partial key into a full queue.
PromiseMade == promised' = TRUE /\ crowded' = FALSE
PromiseOver == promised' = FALSE /\ crowded' = FALSE
PromiseStands(k) ==
  /\ UNCHANGED promised
  /\ crowded' = (crowded \/ (promised /\ Accepted(k) /\ k \in Partial
                            /\ Len(EfiKeyQueue) = Capacity))

CanArrive == {NULL} \cup IF typed < MaxTyped THEN Typed ELSE {}

\* What a poll that brings k does besides feeding EfiKeyQueue.
Poll(k) == /\ EfiKeyQueueForNotify' = NotifyQueueWith(k)
           /\ signaled' = SignalWith(k)
           /\ typed' = IF k = NULL THEN typed ELSE typed + 1

KeypadTimerHandler(k) ==
  /\ k \in CanArrive
  /\ Poll(k)
  /\ EfiKeyQueue' = QueueWith(k)
  /\ PromiseStands(k)
  /\ UNCHANGED <<NotifyList, IsSupportPartialKey, handler, waiting, reading, result>>

(***************************************************************************)
(* The services.  A caller runs when nothing of a higher TPL is pending    *)
(* and it is not inside a service already.                                 *)
(***************************************************************************)
\* Mistake: the app runs on while the handler does.
RunsAnytime(c) == c = "app" \/ handler.pc = "call"

Runs(c) == CASE c = "app" -> handler.pc = "idle" /\ ~signaled
             [] c = "callback" -> handler.pc = "call"

Calls(c) == Runs(c) /\ c \notin reading

Answer(op, status) == result' = [op |-> op, status |-> status]

\* One turn of the loop: poll, pop, and go round again after a partial key.
ReadKeyStroke(c) ==
  /\ Runs(c)
  /\ \E k \in CanArrive :
       /\ Poll(k)
       /\ LET q == QueueWith(k) IN
          IF q = << >>
          THEN /\ Answer("ReadKeyStroke", "EFI_NOT_READY")
               /\ reading' = reading \ {c}
               /\ PromiseStands(k)
               /\ UNCHANGED EfiKeyQueue
          ELSE /\ EfiKeyQueue' = Tail(q)
               /\ IF Head(q) \in Partial
                  THEN /\ reading' = reading \cup {c}
                       /\ PromiseStands(k)
                       /\ UNCHANGED result
                  ELSE /\ Answer("ReadKeyStroke", "EFI_SUCCESS")
                       /\ reading' = reading \ {c}
                       /\ PromiseOver
  /\ UNCHANGED <<NotifyList, IsSupportPartialKey, handler, waiting>>

ReadKeyStrokeEx(c) ==
  /\ Calls(c)
  /\ \E k \in CanArrive :
       /\ Poll(k)
       /\ LET q == QueueWith(k) IN
          IF q = << >>
          THEN /\ Answer("ReadKeyStrokeEx", "EFI_NOT_READY")
               /\ PromiseStands(k)
               /\ UNCHANGED EfiKeyQueue
          ELSE /\ Answer("ReadKeyStrokeEx", "EFI_SUCCESS")
               /\ EfiKeyQueue' = Tail(q)
               /\ IF Head(q) \in Partial THEN PromiseStands(k) ELSE PromiseOver
  /\ UNCHANGED <<NotifyList, IsSupportPartialKey, handler, waiting, reading>>

\* WaitForKey and WaitForKeyEx: drop the partial keys at the head and signal
\* the caller's event if a key remains.
KeypadWaitForKey(c) ==
  /\ Calls(c)
  /\ \E k \in CanArrive :
       /\ Poll(k)
       /\ EfiKeyQueue' = SkipPartial(QueueWith(k))
       /\ IF EfiKeyQueue' = << >> THEN PromiseStands(k) ELSE PromiseMade
       /\ Answer("WaitForKey", IF EfiKeyQueue' = << >> THEN "EFI_NOT_READY"
                                                       ELSE "EFI_SUCCESS")
  /\ UNCHANGED <<NotifyList, IsSupportPartialKey, handler, waiting, reading>>

KeypadEfiReset(c) ==
  /\ Calls(c)
  /\ EfiKeyQueue' = << >>
  /\ EfiKeyQueueForNotify' = << >>
  /\ IsSupportPartialKey' = FALSE
  /\ PromiseOver
  /\ Answer("Reset", "EFI_SUCCESS")
  /\ UNCHANGED <<NotifyList, signaled, handler, waiting, reading, typed>>

\* Status is not assigned when the state is set: the caller gets whatever the
\* register or stack slot held, EFI_SUCCESS at best.
KeypadSetState(c) ==
  /\ Calls(c)
  /\ \/ /\ Answer("SetState", "EFI_UNSUPPORTED")
        /\ UNCHANGED IsSupportPartialKey
     \/ /\ IsSupportPartialKey' \in BOOLEAN
        /\ \E s \in {"EFI_SUCCESS", "uninitialized"} : Answer("SetState", s)
  /\ UNCHANGED <<EfiKeyQueue, EfiKeyQueueForNotify, NotifyList, signaled, handler,
                 waiting, reading, promise, typed>>

\* A registration that already stands for (KeyData, fn).
Covers(r, KeyData, fn) ==
  IsKeyRegistered(r.KeyData, KeyData) /\ r.KeyNotificationFn = fn

\* Mistake: the new node goes to the head of the list.
InsertHeadList(r) == <<r>> \o NotifyList

InsertTailList(r) == Append(NotifyList, r)

\* History: a function registered while the handler calls another, for the key it
\* hands out, waits to be called too.
Hearing(h, KeyData) ==
  IF handler.pc = "call" /\ IsKeyRegistered(KeyData, handler.KeyData) THEN {h} ELSE {}

KeypadRegisterKeyNotify(c, KeyData, fn) ==
  /\ Calls(c)
  /\ \/ /\ \E i \in DOMAIN NotifyList : Covers(NotifyList[i], KeyData, fn)
        /\ Answer("Register", "EFI_SUCCESS")
        /\ UNCHANGED <<NotifyList, waiting>>
     \/ /\ \A i \in DOMAIN NotifyList : ~Covers(NotifyList[i], KeyData, fn)
        /\ \/ /\ Answer("Register", "EFI_OUT_OF_RESOURCES")
              /\ UNCHANGED <<NotifyList, waiting>>
           \/ \E h \in Handle \ Handles :
                /\ NotifyList' = InsertTailList([handle |-> h, KeyData |-> KeyData,
                                                 KeyNotificationFn |-> fn])
                /\ waiting' = waiting \cup Hearing(h, KeyData)
                /\ Answer("Register", "EFI_SUCCESS")
  /\ UNCHANGED <<EfiKeyQueue, EfiKeyQueueForNotify, IsSupportPartialKey, signaled,
                 handler, reading, promise, typed>>

\* The handle of the function that is running: freeing it takes the list node
\* away from under the handler.
Running(h) == handler.pc = "call" /\ handler.Link = h

KeypadUnregisterKeyNotify(c, h) ==
  /\ Calls(c)
  /\ Running(h) => SelfUnregister
  /\ IF h \in Handles
     THEN /\ NotifyList' = SubSeq(NotifyList, 1, NodeOf(h) - 1)
                             \o SubSeq(NotifyList, NodeOf(h) + 1, Len(NotifyList))
          /\ Answer("Unregister", "EFI_SUCCESS")
     ELSE /\ Answer("Unregister", "EFI_INVALID_PARAMETER")
          /\ UNCHANGED NotifyList
  /\ waiting' = waiting \ {h}
  /\ UNCHANGED <<EfiKeyQueue, EfiKeyQueueForNotify, IsSupportPartialKey, signaled,
                 handler, reading, promise, typed>>

(***************************************************************************)
(* KeyNotifyProcessHandler: take a key, walk the list, call the functions  *)
(* that want the key, until the queue is found empty.  The signal is       *)
(* consumed before the handler starts, so a later one restarts it.         *)
(***************************************************************************)
Idle == [pc |-> "idle", KeyData |-> NULL, Link |-> NULL]

HandlerUnchanged == UNCHANGED <<EfiKeyQueue, NotifyList, IsSupportPartialKey, reading,
                                promise, result, typed>>

\* Mistake: the signal is not consumed.
DispatchKeepingSignal ==
  /\ signaled
  /\ handler.pc = "idle"
  /\ handler' = [handler EXCEPT !.pc = "pop"]
  /\ UNCHANGED <<EfiKeyQueueForNotify, signaled, waiting>>
  /\ HandlerUnchanged

HandlerDispatch ==
  /\ signaled
  /\ handler.pc = "idle"
  /\ signaled' = FALSE
  /\ handler' = [handler EXCEPT !.pc = "pop"]
  /\ UNCHANGED <<EfiKeyQueueForNotify, waiting>>
  /\ HandlerUnchanged

HandlerPop ==
  /\ handler.pc = "pop"
  /\ IF EfiKeyQueueForNotify = << >>
     THEN /\ handler' = [Idle EXCEPT !.pc = "exit"]
          /\ UNCHANGED <<EfiKeyQueueForNotify, waiting>>
     ELSE /\ EfiKeyQueueForNotify' = Tail(EfiKeyQueueForNotify)
          /\ handler' = [pc |-> "walk", KeyData |-> Head(EfiKeyQueueForNotify),
                         Link |-> FirstNode]
          /\ waiting' = {NotifyList[i].handle : i \in Matches(Head(EfiKeyQueueForNotify))}
  /\ UNCHANGED signaled
  /\ HandlerUnchanged

HandlerVisit ==
  /\ handler.pc = "walk"
  /\ handler.Link \in Handles \cup {NULL}
  /\ handler' =
       IF handler.Link = NULL THEN [Idle EXCEPT !.pc = "pop"]
       ELSE IF IsKeyRegistered(NotifyList[NodeOf(handler.Link)].KeyData, handler.KeyData)
            THEN [handler EXCEPT !.pc = "call"]
            ELSE [handler EXCEPT !.Link = NextNode(handler.Link)]
  /\ waiting' = IF handler'.pc = "call" THEN waiting \ {handler.Link} ELSE waiting
  /\ UNCHANGED <<EfiKeyQueueForNotify, signaled>>
  /\ HandlerUnchanged

\* The function returns: the next node is read from the node it was called for,
\* which that function may have freed.
CallbackReturn ==
  /\ handler.pc = "call"
  /\ "callback" \notin reading
  /\ \E l \in LinkOf(handler.Link) :
       handler' = [handler EXCEPT !.pc = "walk", !.Link = l]
  /\ UNCHANGED <<EfiKeyQueueForNotify, signaled, waiting>>
  /\ HandlerUnchanged

HandlerExit ==
  /\ handler.pc = "exit"
  /\ handler' = Idle
  /\ UNCHANGED <<EfiKeyQueueForNotify, signaled, waiting>>
  /\ HandlerUnchanged

Handler == HandlerDispatch \/ HandlerPop \/ HandlerVisit \/ HandlerExit

Init ==
  /\ EfiKeyQueue = << >>
  /\ EfiKeyQueueForNotify = << >>
  /\ NotifyList = << >>
  /\ IsSupportPartialKey = FALSE
  /\ signaled = FALSE
  /\ handler = Idle
  /\ waiting = {}
  /\ reading = {}
  /\ promised = FALSE /\ crowded = FALSE
  /\ result = [op |-> "Start", status |-> "EFI_SUCCESS"]
  /\ typed = 0

Service(c) ==
  \/ ReadKeyStroke(c)
  \/ ReadKeyStrokeEx(c)
  \/ KeypadWaitForKey(c)
  \/ KeypadEfiReset(c)
  \/ KeypadSetState(c)
  \/ \E KeyData \in Wanted, fn \in Fn : KeypadRegisterKeyNotify(c, KeyData, fn)
  \/ \E h \in Handle : KeypadUnregisterKeyNotify(c, h)

Next ==
  \/ \E k \in Typed : KeypadTimerHandler(k)
  \/ \E c \in Callers : Service(c)
  \/ Handler
  \/ CallbackReturn

Spec == Init /\ [][Next]_vars

(***************************************************************************)
(* Fairness: the core dispatches a signalled event and lets the handler    *)
(* run on; a notification function that keeps calling services returns at  *)
(* last, and a loop of ReadKeyStroke it is in goes round.                  *)
(***************************************************************************)
FairSpec == /\ Spec
            /\ WF_vars(Handler)
            /\ SF_vars(CallbackReturn)
            /\ SF_vars("callback" \in reading /\ ReadKeyStroke("callback"))

(***************************************************************************)
(* Correctness.                                                            *)
(***************************************************************************)
Queue == {s \in Seq(Key) : Len(s) <= Capacity}

Ops == {"Start", "ReadKeyStroke", "ReadKeyStrokeEx", "WaitForKey", "Reset", "SetState",
        "Register", "Unregister"}
Statuses == {"EFI_SUCCESS", "EFI_NOT_READY", "EFI_INVALID_PARAMETER",
             "EFI_OUT_OF_RESOURCES", "EFI_UNSUPPORTED", "uninitialized"}

\* Every variable has its type; in particular neither queue outgrows its ring.
TypeOK ==
  /\ EfiKeyQueue \in Queue
  /\ EfiKeyQueueForNotify \in Queue
  /\ NotifyList \in Seq(Registration)
  /\ IsSupportPartialKey \in BOOLEAN
  /\ signaled \in BOOLEAN
  /\ handler \in [pc : {"idle", "pop", "walk", "call", "exit"},
                  KeyData : Key \cup {NULL}, Link : Handle \cup {NULL}]
  /\ reading \subseteq Callers
  /\ waiting \subseteq Handle
  /\ promised \in BOOLEAN /\ crowded \in BOOLEAN
  /\ result \in [op : Ops, status : Statuses]
  /\ typed \in Nat

\* A key queued for the notification functions always has somebody who will
\* look: the event is signalled, or the handler has still to find its queue
\* empty.  A key that arrives after the handler's last look and before it
\* returns is the case a test would hardly hit (KeyNotifyProcessHandler).
NoLostWakeup ==
  EfiKeyQueueForNotify # << >> => signaled \/ handler.pc \in {"pop", "walk", "call"}

\* The node the handler stands on is in the list whenever it reads it, though
\* the functions it calls register and unregister others meanwhile.
HandlerLinkLive ==
  /\ handler.pc = "call" => handler.Link \in Handles
  /\ handler.pc = "walk" => handler.Link \in Handles \cup {NULL}

\* While the handler walks the list, the functions that wait for its key are those
\* of the matching nodes ahead of it, and none is left behind at the end: whatever
\* the functions it calls register and unregister meanwhile, each one registered
\* for the key when the key was taken, or since, is called for that queued key
\* exactly once (KeyNotifyProcessHandler).
EveryFunctionHears ==
  handler.pc = "walk" =>
    waiting = {NotifyList[i].handle :
                 i \in {j \in Matches(handler.KeyData) :
                          handler.Link # NULL /\ NodeOf(handler.Link) <= j}}

\* After WaitForKey was signalled a reader finds a key: neither the timer nor
\* notification functions nor an overflow of the queue by ordinary keys takes
\* it away, only another reader or a reset does.  The exception is written out:
\* with partial keys supported, one that comes into the full queue may push the
\* promised key out, and the code neither tells nor clears the event.
PromiseKept == promised /\ ~crowded => ValueKeys(EfiKeyQueue) # {}

\* Once typing stops, every key queued for notification is handed out and the
\* handler returns, whatever the notification functions register, unregister,
\* read or reset meanwhile: only functions that go on registering for ever,
\* each time behind the node that is being visited, can keep it walking.
CallbackRegisters ==
  \E KeyData \in Wanted, fn \in Fn : KeypadRegisterKeyNotify("callback", KeyData, fn)

NotifyDrains ==
  \/ []<><<CallbackRegisters>>_vars
  \/ <>[](EfiKeyQueueForNotify = << >> /\ handler.pc = "idle" /\ ~signaled)
=============================================================================
