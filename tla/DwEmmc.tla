------------------------------- MODULE DwEmmc ------------------------------
(***************************************************************************)
(* The data path of the DesignWare host, DwEmmcDxe: DwEmmcReadBlockData    *)
(* and DwEmmcWriteBlockData move the words of a transfer between a buffer  *)
(* and the FIFO of the controller, polling its status registers; between   *)
(* transfers DwEmmcSetClock changes the clock of the card.                 *)
(*                                                                         *)
(* The controller and the card are external: they finish commands, fill    *)
(* or drain the FIFO, and raise errors at any moment.  A word is "new" if  *)
(* it belongs to the transfer that runs and "old" if an earlier transfer,  *)
(* given up half way, has left it in the FIFO.                             *)
(***************************************************************************)
EXTENDS Integers, Sequences

CONSTANTS
  MaxWords,     \* bound on the words of a transfer
  FifoWords,    \* the words the FIFO may hold before a writer waits (32)
  DataPolls,    \* polls of an empty FIFO before a read gives up (1000000)
  ResetPolls,   \* polls for the end of a FIFO reset (100000)
  Frequencies   \* what DwEmmcSetIos is asked for, in Hz

ASSUME WordAssumption == MaxWords \in Nat \ {0} /\ FifoWords \in Nat
ASSUME PollAssumption == DataPolls \in Nat \ {0} /\ ResetPolls \in Nat \ {0}
ASSUME FrequencyAssumption == Frequencies \subseteq Nat \ {0}

VARIABLES
  pc,        \* where the driver is
  op,        \* "read", "write" or "clock"
  length,    \* words of the transfer
  DataLen,   \* words still to move
  TimeOut,   \* the counter of the loop that has one
  Status,    \* what the last transfer returned
  got,       \* what the receiver, buffer or card, got in this transfer
  fifo,      \* external: the FIFO
  error,     \* external: an error bit of RINTSTS
  sending,   \* external: words the card has yet to send or receive
  busy,      \* external: the card holds the data line, DWEMMC_STS_DATA_BUSY
  clock      \* registers of the clock, and the divider in effect, 0 if it is off

vars == <<pc, op, length, DataLen, TimeOut, Status, got, fifo, error, sending, busy,
          clock>>
hardware == <<fifo, error, sending, busy, clock>>
driver == <<pc, op, length, DataLen, TimeOut, Status, got>>
transfer == <<op, length>>

Init ==
  /\ pc = "idle" /\ op = "read" /\ length = 0 /\ DataLen = 0 /\ TimeOut = 0
  /\ Status = "SUCCESS" /\ got = << >>
  /\ fifo = << >> /\ error = FALSE /\ sending = 0 /\ busy = FALSE
  /\ clock = [asked |-> 0, CLKENA |-> FALSE, CLKDIV |-> 0, running |-> 0, failed |-> FALSE]

Return(status) == pc' = "idle" /\ Status' = status

(***************************************************************************)
(* The driver.                                                             *)
(***************************************************************************)
\* What is in the FIFO now belongs to the past.  The caller has ended an
\* earlier transfer with CMD12.
Begin(o, n) ==
  /\ pc = "idle"
  /\ pc' = "wait" /\ op' = o /\ length' = n /\ DataLen' = n /\ got' = << >>
  /\ fifo' = [i \in DOMAIN fifo |-> "old"]
  /\ sending' = 0
  /\ UNCHANGED <<TimeOut, Status, error, busy, clock>>

\* The wait for a card that is still writing has no bound.
CardIdle ==
  /\ pc = "wait" /\ ~busy
  /\ pc' = "fifo"
  /\ UNCHANGED <<transfer, DataLen, TimeOut, Status, got, hardware>>

\* Mistake: the FIFO is taken as it is.
NeverDirty == FALSE

Dirty == fifo # << >>

TestFifo ==
  /\ pc = "fifo"
  /\ IF Dirty THEN pc' = "reset" /\ TimeOut' = ResetPolls
     ELSE pc' = "command" /\ UNCHANGED TimeOut
  /\ UNCHANGED <<transfer, DataLen, Status, got, hardware>>

\* The reset bit clears itself, perhaps too late.
ResetFifo ==
  /\ pc = "reset"
  /\ \/ /\ fifo' = << >> /\ pc' = "command"
        /\ UNCHANGED <<TimeOut, Status>>
     \/ /\ TimeOut' = TimeOut - 1
        /\ UNCHANGED fifo
        /\ IF TimeOut' = 0 THEN Return("DEVICE_ERROR") ELSE UNCHANGED <<pc, Status>>
  /\ UNCHANGED <<transfer, DataLen, got, error, sending, busy, clock>>

\* SendCommand: clears RINTSTS and waits for an error or the end of the command.
SendCommand ==
  /\ pc = "command"
  /\ \/ /\ pc' = (IF op = "read" THEN "check" ELSE "push")
        /\ TimeOut' = DataPolls
        /\ error' = FALSE /\ sending' = length
        /\ UNCHANGED Status
     \/ /\ Return("DEVICE_ERROR")
        /\ error' = TRUE
        /\ UNCHANGED <<TimeOut, sending>>
  /\ UNCHANGED <<transfer, DataLen, got, fifo, busy, clock>>

\* The loop of DwEmmcReadBlockData: look for an error, take what is there, and
\* give up after DataPolls looks at an empty FIFO.
CheckError ==
  /\ pc = "check"
  /\ IF error THEN Return("DEVICE_ERROR") ELSE pc' = "drain" /\ UNCHANGED Status
  /\ UNCHANGED <<transfer, DataLen, TimeOut, got, hardware>>

TakeWord ==
  /\ pc = "drain" /\ DataLen > 0 /\ fifo # << >>
  /\ got' = Append(got, Head(fifo)) /\ fifo' = Tail(fifo)
  /\ DataLen' = DataLen - 1
  /\ TimeOut' = DataPolls
  /\ UNCHANGED <<pc, transfer, Status, error, sending, busy, clock>>

\* Mistake: an error raised by the last words is not looked at.
LastWordsIgnoringError == "SUCCESS"

LastWords == IF error THEN "DEVICE_ERROR" ELSE "SUCCESS"

AllTaken ==
  /\ pc = "drain" /\ DataLen = 0
  /\ Return(LastWords)
  /\ UNCHANGED <<transfer, DataLen, TimeOut, got, hardware>>

\* Mistake: the counter starts again at every look.
NeverLess == DataPolls

Less == TimeOut - 1

NothingThere ==
  /\ pc = "drain" /\ DataLen > 0 /\ fifo = << >>
  /\ TimeOut' = Less
  /\ IF TimeOut' = 0 THEN Return("DEVICE_ERROR") ELSE pc' = "check" /\ UNCHANGED Status
  /\ UNCHANGED <<transfer, DataLen, got, hardware>>

Room == Len(fifo) <= FifoWords

\* The loop of DwEmmcWriteBlockData: it waits for room, and looks for an error
\* only when all words are in the FIFO.
PushWord ==
  /\ pc = "push" /\ DataLen > 0 /\ Room
  /\ fifo' = Append(fifo, "new")
  /\ DataLen' = DataLen - 1
  /\ UNCHANGED <<pc, transfer, TimeOut, Status, got, error, sending, busy, clock>>

\* The wait has no bound: after an error that stops the card it is forever.
WaitForRoom == pc = "push" /\ DataLen > 0 /\ ~Room /\ UNCHANGED vars

AllPushed ==
  /\ pc = "push" /\ DataLen = 0
  /\ pc' = "done"
  /\ UNCHANGED <<transfer, DataLen, TimeOut, Status, got, hardware>>

TransferOver ==
  /\ pc = "done"
  /\ \/ error /\ Return("DEVICE_ERROR")
     \/ ~error /\ sending = 0 /\ Return("SUCCESS")
  /\ UNCHANGED <<transfer, DataLen, TimeOut, got, hardware>>

(***************************************************************************)
(* The clock.  What is written to its registers takes effect with the next *)
(* command that updates the clock.                                         *)
(***************************************************************************)
Rate == 100000000 \div 2

\* The dividers that are slow enough; the loop takes the first.
Dividers(freq) == {d \in 1 .. 255 : Rate \div (2 * d) <= freq}

FirstDivider(freq) ==
  CHOOSE d \in Dividers(freq) : \A e \in Dividers(freq) : d <= e

\* EFI_NOT_FOUND changes nothing.
DwEmmcSetIos(freq) ==
  /\ pc = "idle" /\ Dividers(freq) # {}
  /\ pc' = "clockBusy" /\ op' = "clock"
  /\ clock' = [clock EXCEPT !.asked = freq]
  /\ UNCHANGED <<length, DataLen, TimeOut, Status, got, fifo, error, sending, busy>>

\* MmcHwInitializationState: the controller is reset, its FIFO too.
DwEmmcNotifyState ==
  /\ pc = "idle"
  /\ pc' = "clockBusy" /\ op' = "clock"
  /\ clock' = [clock EXCEPT !.asked = 400000]
  /\ fifo' = << >>
  /\ UNCHANGED <<length, DataLen, TimeOut, Status, got, error, sending, busy>>

\* Mistake: the clock is not stopped before its divider changes.
DivideFirst == "writeDivider"

StopFirst == "stop"

SetClockStep(at, next, new) == pc = at /\ pc' = next /\ clock' = new

\* The wait for an idle card has no bound, neither have the updates.
DwEmmcSetClock ==
  /\ \/ ~busy /\ SetClockStep("clockBusy", StopFirst, clock)
     \/ SetClockStep("stop", "updateStopped", [clock EXCEPT !.CLKENA = FALSE])
     \/ SetClockStep("writeDivider", "updateDivider",
                     [clock EXCEPT !.CLKDIV = FirstDivider(clock.asked)])
     \/ SetClockStep("start", "updateStarted", [clock EXCEPT !.CLKENA = TRUE])
  /\ UNCHANGED <<transfer, DataLen, TimeOut, Status, got, fifo, error, sending, busy>>

Updated == [clock EXCEPT !.running = IF clock.CLKENA THEN clock.CLKDIV ELSE 0]

\* A locked controller refuses; the assertion on that is left out of a RELEASE build.
Refused == [clock EXCEPT !.failed = TRUE]

DwEmmcUpdateClock ==
  /\ \E new \in {Updated, Refused} :
       \/ SetClockStep("updateStopped", "writeDivider", new)
       \/ SetClockStep("updateDivider", "start", new)
       \/ SetClockStep("updateStarted", "idle", new)
  /\ UNCHANGED <<transfer, DataLen, TimeOut, Status, got, fifo, error, sending, busy>>

Driver == \/ CardIdle \/ TestFifo \/ ResetFifo \/ SendCommand
          \/ CheckError \/ TakeWord \/ AllTaken \/ NothingThere
          \/ PushWord \/ WaitForRoom \/ AllPushed \/ TransferOver
          \/ DwEmmcSetClock \/ DwEmmcUpdateClock

(***************************************************************************)
(* The controller, while a transfer is on.                                 *)
(***************************************************************************)
TransferOn == pc \in {"check", "drain", "push", "done"} /\ ~error

Moving == TransferOn /\ sending > 0

CardSends ==
  /\ Moving /\ op = "read" /\ Len(fifo) <= FifoWords
  /\ fifo' = Append(fifo, "new") /\ sending' = sending - 1
  /\ UNCHANGED <<driver, error, busy, clock>>

CardReceives ==
  /\ Moving /\ op = "write" /\ fifo # << >>
  /\ got' = Append(got, Head(fifo)) /\ fifo' = Tail(fifo)
  /\ sending' = sending - 1 /\ busy' = TRUE
  /\ UNCHANGED <<pc, transfer, DataLen, TimeOut, Status, error, clock>>

CardReady ==
  /\ busy
  /\ busy' = FALSE
  /\ UNCHANGED <<driver, fifo, error, sending, clock>>

\* A checksum is known to be wrong only after the last word, and an error may come
\* after the driver's last look: it stays until the next command clears it.
TransferError ==
  /\ length > 0 /\ ~error
  /\ error' = TRUE
  /\ UNCHANGED <<driver, fifo, sending, busy, clock>>

Next ==
  \/ (\E o \in {"read", "write"}, n \in 1 .. MaxWords : Begin(o, n))
  \/ (\E freq \in Frequencies : DwEmmcSetIos(freq)) \/ DwEmmcNotifyState
  \/ Driver
  \/ CardSends \/ CardReceives \/ CardReady \/ TransferError

Spec == Init /\ [][Next]_vars

\* The driver's loops run.  Of the card only that it goes on to take the words
\* written for it unless it has raised an error, and that it is not busy for ever.
FairSpec == Spec /\ WF_vars(Driver) /\ WF_vars(CardReceives) /\ WF_vars(CardReady)

(***************************************************************************)
(* Correctness.                                                            *)
(***************************************************************************)

\* No receiver gets a word of an earlier transfer, wherever that one was given up:
\* neither a reader's leftovers nor a writer's reach the next transfer.
OnlyNewWords == \A i \in DOMAIN got : got[i] = "new"

\* When a transfer returns success, it has moved every word and the controller has
\* raised no error in it, not even with the last word.
SuccessIsComplete ==
  [][pc # "idle" /\ pc' = "idle" /\ op # "clock" /\ Status' = "SUCCESS"
       => Len(got') = length /\ ~error']_vars

\* The divider of the card's clock changes only while the clock is off, and when
\* SetClock is over the clock is no faster than asked, unless the controller has
\* refused an update.
ClockChangedSafely ==
  [][/\ clock.running # 0 /\ clock'.running # 0 /\ ~clock.failed
          => clock'.running = clock.running
     /\ pc' = "idle" /\ clock'.running # 0 /\ ~clock'.failed
          => Rate \div (2 * clock'.running) <= clock'.asked]_vars

\* A read ends even if the card never sends a word.  A write ends once its words
\* are in the FIFO, with success or with the error that stopped the card, and if it
\* does not end it is because an error has left the FIFO full for ever.
Wedged == op = "write" /\ pc = "push" /\ ~Room /\ error

TransfersEnd ==
  /\ op = "read" /\ pc # "idle" ~> pc = "idle"
  /\ op = "write" /\ pc # "idle" ~> pc = "idle" \/ Wedged
=============================================================================
