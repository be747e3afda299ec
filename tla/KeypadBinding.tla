--------------------------- MODULE KeypadBinding ---------------------------
(***************************************************************************)
(* Starting and stopping the keypad driver on a controller (Keypad.c):     *)
(* KeypadControllerDriverStart acquires its resources one by one, any      *)
(* acquisition may fail, and the periodic timer, armed half way through,   *)
(* fires between any two steps.  Start and Stop run at TPL_APPLICATION and *)
(* are preempted by KeypadTimerHandler and KeyNotifyProcessHandler.        *)
(*                                                                         *)
(* A resource is a string; "ConsoleIn" is the device structure itself,     *)
(* which every event has as its context and which holds the others.        *)
(***************************************************************************)
EXTENDS Naturals, Sequences

CONSTANT MaxRegistrations   \* bound on the notification functions registered

ASSUME RegistrationsAssumption == MaxRegistrations \in Nat

VARIABLES
  pc,           \* "stopped", "starting", "failing", "running", "stopping", "exception"
  todo,         \* the steps of Start, ErrorExit or Stop still to do
  held,         \* what the driver owns: events, protocols, memory
  armed,        \* SetTimer was called on TimerEvent
  registered,   \* length of ConsoleIn->NotifyList
  dispatch      \* KeyNotifyProcessEvent waits for its dispatch

bindVars == <<pc, todo, held, armed, registered, dispatch>>

Events == {"WaitForKey", "WaitForKeyEx", "TimerEvent", "KeyNotifyProcessEvent"}
Resources == Events \cup {"KeypadDevice", "ConsoleIn", "ControllerNameTable", "Installed"}

\* Mistake: the protocols are installed before the last event is created.
InstallEarly == <<"ConsoleIn", "WaitForKey", "WaitForKeyEx", "TimerEvent", "SetTimer",
                  "Installed", "KeyNotifyProcessEvent", "ControllerNameTable">>

\* What Start acquires after it has opened the keypad device protocol.
StartSteps == <<"ConsoleIn", "WaitForKey", "WaitForKeyEx", "TimerEvent", "SetTimer",
                "KeyNotifyProcessEvent", "Reset", "ControllerNameTable", "Installed">>

\* Mistake: the label forgets an event.
ErrorExitWithoutTimer ==
  <<"WaitForKey", "WaitForKeyEx", "KeyNotifyProcessEvent", "NotifyList",
    "ControllerNameTable", "ConsoleIn", "KeypadDevice">>

\* What the label ErrorExit releases, in its order.
ErrorExitSteps == <<"WaitForKey", "TimerEvent", "WaitForKeyEx", "KeyNotifyProcessEvent",
                    "NotifyList", "ControllerNameTable", "ConsoleIn", "KeypadDevice">>

\* What Stop releases once the protocols are uninstalled.
StopSteps == <<"KeypadDevice", "WaitForKey", "WaitForKeyEx", "KeyNotifyProcessEvent",
               "NotifyList", "ControllerNameTable", "ConsoleIn">>

BindInit ==
  /\ pc = "stopped" /\ todo = << >>
  /\ held = {} /\ armed = FALSE /\ registered = 0 /\ dispatch = FALSE

(***************************************************************************)
(* Start.                                                                  *)
(***************************************************************************)
\* OpenProtocol BY_DRIVER succeeds for one driver at a time; when it fails,
\* Start returns at once.
Start ==
  /\ pc = "stopped"
  /\ pc' = "starting"
  /\ todo' = StartSteps
  /\ held' = held \cup {"KeypadDevice"}
  /\ UNCHANGED <<armed, registered, dispatch>>

\* Reset and the two AddUnicodeString2 calls cannot make Start fail.
MayFail(step) == step \notin {"Reset", "ControllerNameTable"}

StartStep ==
  /\ pc = "starting" /\ todo # << >>
  /\ LET step == Head(todo) IN
     \/ /\ held' = IF step \in Resources THEN held \cup {step} ELSE held
        /\ armed' = (armed \/ step = "SetTimer")
        /\ todo' = Tail(todo)
        /\ UNCHANGED <<pc, dispatch>>
     \/ /\ MayFail(step)
        /\ pc' = "failing"
        /\ todo' = ErrorExitSteps
        /\ UNCHANGED <<held, armed, dispatch>>
  /\ UNCHANGED registered

Started ==
  /\ pc = "starting" /\ todo = << >>
  /\ pc' = "running"
  /\ UNCHANGED <<todo, held, armed, registered, dispatch>>

(***************************************************************************)
(* Releasing, after a failed Start or in Stop.  KbdFreeNotifyList is given *)
(* the address of the list inside ConsoleIn; without a ConsoleIn that      *)
(* address is not NULL either, and reading the list there is a fault.      *)
(***************************************************************************)
Release ==
  /\ pc \in {"failing", "stopping"} /\ todo # << >>
  /\ LET step == Head(todo) IN
     IF step = "NotifyList" /\ "ConsoleIn" \notin held
     THEN /\ pc' = "exception"
          /\ UNCHANGED <<todo, held, armed, registered, dispatch>>
     ELSE /\ held' = held \ {step}
          /\ armed' = (armed /\ step # "TimerEvent")
          /\ dispatch' = (dispatch /\ step # "KeyNotifyProcessEvent")
          /\ registered' = IF step = "NotifyList" THEN 0 ELSE registered
          /\ todo' = Tail(todo)
          /\ UNCHANGED pc

Released ==
  /\ pc \in {"failing", "stopping"} /\ todo = << >>
  /\ pc' = "stopped"
  /\ UNCHANGED <<todo, held, armed, registered, dispatch>>

(***************************************************************************)
(* Stop closes the timer first and uninstalls the protocols next; if that  *)
(* is refused it returns with the timer gone and everything else in place. *)
(***************************************************************************)
Stop ==
  /\ pc = "running"
  /\ armed' = FALSE
  /\ \/ /\ held' = held \ {"TimerEvent"}
        /\ UNCHANGED <<pc, todo>>
     \/ /\ held' = held \ {"TimerEvent", "Installed"}
        /\ pc' = "stopping"
        /\ todo' = StopSteps
  /\ UNCHANGED <<registered, dispatch>>

(***************************************************************************)
(* What runs in between.                                                   *)
(***************************************************************************)
\* The timer fires with ConsoleIn as its context, or a key matches nothing.
Timer ==
  /\ armed
  /\ registered > 0
  /\ dispatch' = TRUE
  /\ UNCHANGED <<pc, todo, held, armed, registered>>

\* A reader polls the device too, as long as the protocols are installed.
PollKeypad ==
  /\ "Installed" \in held
  /\ registered > 0
  /\ dispatch' = TRUE
  /\ UNCHANGED <<pc, todo, held, armed, registered>>

KeyNotifyProcessHandler ==
  /\ dispatch
  /\ dispatch' = FALSE
  /\ UNCHANGED <<pc, todo, held, armed, registered>>

\* Clients use the installed protocol between and during the driver's calls.
RegisterKeyNotify ==
  /\ "Installed" \in held
  /\ registered < MaxRegistrations
  /\ registered' = registered + 1
  /\ UNCHANGED <<pc, todo, held, armed, dispatch>>

\* The handle is looked for in the list.
Found == registered > 0

UnregisterKeyNotify ==
  /\ "Installed" \in held
  /\ Found
  /\ registered' = registered - 1
  /\ UNCHANGED <<pc, todo, held, armed, dispatch>>

\* A processor exception is the end.
Halted == pc = "exception" /\ UNCHANGED bindVars

BindNext ==
  \/ Start \/ StartStep \/ Started
  \/ Release \/ Released \/ Stop
  \/ Timer \/ PollKeypad \/ KeyNotifyProcessHandler
  \/ RegisterKeyNotify \/ UnregisterKeyNotify
  \/ Halted

BindSpec == BindInit /\ [][BindNext]_bindVars

(***************************************************************************)
(* Correctness.                                                            *)
(***************************************************************************)

\* Whenever an event exists, so does the structure its handler is given: no
\* order of failures, ticks and stops lets a handler run on freed memory.
ContextLive == held \cap Events # {} => "ConsoleIn" \in held

\* Whatever may signal KeyNotifyProcessEvent does it when the event exists: it
\* is created after the timer is armed and closed before the list is freed.
SignalsCreatedEvent ==
  (armed \/ "Installed" \in held) /\ registered > 0 => "KeyNotifyProcessEvent" \in held

\* A handler never runs on what is not there yet or no more: neither on a freed
\* structure nor through an event that does not exist.
HandlersSafe == ContextLive /\ SignalsCreatedEvent

\* When Start has failed or Stop has succeeded the driver owns nothing.
NothingLeaked ==
  pc = "stopped" => held = {} /\ ~armed /\ registered = 0 /\ ~dispatch
=============================================================================
