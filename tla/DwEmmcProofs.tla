---------------------------- MODULE DwEmmcProofs ----------------------------
(***************************************************************************)
(* The transfers and the clock of DwEmmcDxe for any number of words, any   *)
(* size of the FIFO, any number of polls and any frequencies.              *)
(*                                                                         *)
(* The transfers: from the command on, the FIFO holds words of this        *)
(* transfer only, and the words that a receiver has, those under way and   *)
(* those still to move add up to the transfer.  The clock: from the stop   *)
(* to the update that starts it, it is off unless an update was refused.   *)
(***************************************************************************)
EXTENDS DwEmmc, TLAPS, WellFoundedInduction

Words == Seq({"new", "old"})

ClockStages == {"clockBusy", "stop", "updateStopped", "writeDivider",
                "updateDivider", "start", "updateStarted"}

Stages == {"idle", "wait", "fifo", "reset", "command", "check", "drain", "push",
           "done"} \cup ClockStages

TypeOK ==
  /\ pc \in Stages /\ op \in {"read", "write", "clock"}
  /\ length \in Nat /\ DataLen \in Nat /\ sending \in Nat
  /\ got \in Words /\ fifo \in Words /\ error \in BOOLEAN

AllNew(s) == \A i \in DOMAIN s : s[i] = "new"

\* Nothing has moved before the command, and the FIFO is empty when it is sent.
NothingMoved ==
  pc \in {"wait", "fifo", "reset", "command"} =>
    /\ got = << >> /\ DataLen = length /\ op \in {"read", "write"}
    /\ pc = "command" => fifo = << >>

\* What a reader has and what it still wants.
ReadAddsUp ==
  pc \in {"check", "drain"} =>
    op = "read" /\ AllNew(fifo) /\ Len(got) + DataLen = length

\* What the card has and what it still wants.
WriteAddsUp ==
  pc \in {"push", "done"} =>
    op = "write" /\ AllNew(fifo) /\ Len(got) + sending = length

\* No transfer is on while the clock changes.
ClockAlone == pc \in ClockStages => op = "clock"

TransferInv == /\ TypeOK /\ AllNew(got) /\ NothingMoved /\ ReadAddsUp /\ WriteAddsUp
               /\ ClockAlone

\* What a step that ends a transfer must have made sure of.
Completes ==
  pc # "idle" /\ pc' = "idle" /\ op # "clock" /\ Status' = "SUCCESS"
    => Len(got') = length /\ error' = FALSE

(***************************************************************************)
(* Sequences of words.                                                     *)
(***************************************************************************)
\* No words at all.
LEMMA NoWords == << >> \in Words /\ AllNew(<< >>) /\ Len(<< >>) = 0
  BY DEF Words, AllNew

\* The number of words.
LEMMA HowMany == ASSUME NEW s \in Words PROVE Len(s) \in Nat
  BY DEF Words

\* A new word at the end leaves a sequence of new words.
LEMMA NewAppended ==
  ASSUME NEW s \in Words, AllNew(s)
  PROVE  /\ Append(s, "new") \in Words /\ AllNew(Append(s, "new"))
         /\ Len(Append(s, "new")) = Len(s) + 1
  BY DEF Words, AllNew

\* The first of new words is new, and so are the others.
LEMMA NewTaken ==
  ASSUME NEW s \in Words, s # << >>, AllNew(s)
  PROVE  Head(s) = "new" /\ Tail(s) \in Words /\ AllNew(Tail(s))
  <1>1. Len(s) \in Nat /\ Len(s) > 0 /\ Head(s) = s[1] /\ DOMAIN s = 1 .. Len(s)
    BY DEF Words
  <1>2. Tail(s) \in Words
    BY DEF Words
  <1>3. Len(Tail(s)) = Len(s) - 1 /\ \A i \in 1 .. Len(s) - 1 : Tail(s)[i] = s[i + 1]
    BY DEF Words
  <1>4. DOMAIN Tail(s) = 1 .. Len(s) - 1
    BY <1>2, <1>3 DEF Words
  <1>5. AllNew(Tail(s))
    BY <1>1, <1>3, <1>4 DEF AllNew
  <1> QED BY <1>1, <1>2, <1>5 DEF AllNew

(***************************************************************************)
(* The transfers.                                                          *)
(***************************************************************************)
\* The invariant holds at first.
LEMMA TransferInit == Init => TransferInv
  <1> SUFFICES ASSUME Init PROVE TransferInv
    OBVIOUS
  <1>1. TypeOK /\ AllNew(got)
    BY NoWords DEF Init, TypeOK, Stages
  <1>2. NothingMoved /\ ReadAddsUp /\ WriteAddsUp /\ ClockAlone
    BY NoWords DEF Init, NothingMoved, ReadAddsUp, WriteAddsUp, ClockAlone, ClockStages
  <1> QED BY <1>1, <1>2 DEF TransferInv

\* Up to the command: the words of the past become old, or go with a reset.
LEMMA BeginStep ==
  ASSUME TransferInv, NEW o \in {"read", "write"}, NEW n \in 1 .. MaxWords, Begin(o, n)
  PROVE  TransferInv' /\ Completes
  <1>1. n \in Nat
    BY WordAssumption
  <1>2. [i \in DOMAIN fifo |-> "old"] \in Words
    BY DEF Words, TransferInv, TypeOK
  <1>3. TypeOK' /\ AllNew(got)'
    BY <1>1, <1>2, NoWords DEF TransferInv, TypeOK, Begin, Stages
  <1>4. NothingMoved' /\ ReadAddsUp' /\ WriteAddsUp' /\ ClockAlone'
    BY DEF TransferInv, Begin, NothingMoved, ReadAddsUp, WriteAddsUp, ClockAlone,
           ClockStages
  <1>5. Completes
    BY DEF Begin, Completes
  <1> QED BY <1>3, <1>4, <1>5 DEF TransferInv

\* The card is idle and the FIFO tested, perhaps reset.
LEMMA TestStep ==
  ASSUME TransferInv, CardIdle \/ TestFifo \/ ResetFifo
  PROVE  TransferInv' /\ Completes
  <1>1. /\ pc \in {"wait", "fifo", "reset"} /\ pc' \in {"fifo", "reset", "command", "idle"}
        /\ pc' = "idle" => Status' = "DEVICE_ERROR"
        /\ pc' = "command" => fifo' = << >>
        /\ fifo' \in {fifo, << >>}
        /\ UNCHANGED <<transfer, DataLen, got, error, sending>>
    BY DEF CardIdle, TestFifo, ResetFifo, Dirty, Return, hardware, TransferInv, NothingMoved
  <1>2. TypeOK' /\ AllNew(got)'
    BY <1>1, NoWords DEF TransferInv, TypeOK, Stages, transfer
  <1>3. NothingMoved' /\ ReadAddsUp' /\ WriteAddsUp' /\ ClockAlone'
    BY <1>1 DEF TransferInv, NothingMoved, ReadAddsUp, WriteAddsUp, ClockAlone,
                ClockStages, transfer
  <1>4. Completes
    BY <1>1 DEF Completes
  <1> QED BY <1>2, <1>3, <1>4 DEF TransferInv

\* From here on the FIFO holds words of this transfer only: it is empty.
LEMMA CommandStep ==
  ASSUME TransferInv, SendCommand
  PROVE  TransferInv' /\ Completes
  <1>1. TypeOK' /\ AllNew(got)'
    BY DEF TransferInv, TypeOK, SendCommand, Stages, Return, transfer
  <1>2. got' = << >> /\ fifo' = << >> /\ DataLen' = length /\ length' = length
        /\ length \in Nat /\ op \in {"read", "write"} /\ op' = op
    BY DEF TransferInv, TypeOK, NothingMoved, SendCommand, transfer
  <1>3. \/ pc' = "idle" /\ Status' = "DEVICE_ERROR"
        \/ pc' = (IF op = "read" THEN "check" ELSE "push") /\ sending' = length
    BY DEF SendCommand, Return
  <1>4. NothingMoved' /\ ClockAlone'
    BY <1>2, <1>3 DEF NothingMoved, ClockAlone, ClockStages
  <1>5. ReadAddsUp' /\ WriteAddsUp'
    BY <1>2, <1>3, NoWords DEF ReadAddsUp, WriteAddsUp
  <1>6. Completes
    BY <1>2, <1>3 DEF Completes
  <1> QED BY <1>1, <1>4, <1>5, <1>6 DEF TransferInv

\* The loop of a reader.
LEMMA ReadStep ==
  ASSUME TransferInv, CheckError \/ TakeWord \/ AllTaken \/ NothingThere
  PROVE  TransferInv' /\ Completes
  <1>1. CASE TakeWord
    <2>1. Head(fifo) = "new" /\ Tail(fifo) \in Words /\ AllNew(Tail(fifo))
      BY <1>1, NewTaken DEF TransferInv, TypeOK, ReadAddsUp, TakeWord
    <2>2. got' \in Words /\ AllNew(got') /\ Len(got') = Len(got) + 1
      BY <1>1, <2>1, NewAppended DEF TransferInv, TypeOK, TakeWord
    <2>3. TypeOK'
      BY <1>1, <2>1, <2>2 DEF TransferInv, TypeOK, TakeWord, transfer
    <2>4. /\ DataLen' = DataLen - 1 /\ Len(got) \in Nat /\ DataLen \in Nat
          /\ length' = length /\ op' = op /\ fifo' = Tail(fifo)
      BY <1>1, HowMany DEF TransferInv, TypeOK, TakeWord, transfer
    <2>5. pc = "drain" /\ pc' = "drain" /\ ReadAddsUp
      BY <1>1 DEF TakeWord, TransferInv
    <2>7. ReadAddsUp'
      BY <2>1, <2>2, <2>4, <2>5 DEF ReadAddsUp
    <2>6. NothingMoved' /\ WriteAddsUp' /\ ClockAlone'
      BY <2>5 DEF NothingMoved, WriteAddsUp, ClockAlone, ClockStages
    <2>8. Completes
      BY <2>5 DEF Completes
    <2> QED BY <2>2, <2>3, <2>6, <2>7, <2>8 DEF TransferInv
  <1>2. CASE CheckError \/ AllTaken \/ NothingThere
    <2>1. /\ pc \in {"check", "drain"} /\ pc' \in {"check", "drain", "idle"}
          /\ pc' = "idle" /\ Status' = "SUCCESS" => DataLen = 0 /\ error = FALSE
          /\ UNCHANGED <<op, length, DataLen, got, fifo, error, sending>>
      BY <1>2 DEF CheckError, AllTaken, NothingThere, LastWords, Return, hardware, transfer,
                  TransferInv, TypeOK
    <2>2. TypeOK' /\ AllNew(got)'
      BY <2>1 DEF TransferInv, TypeOK, Stages
    <2>3. NothingMoved' /\ ReadAddsUp' /\ WriteAddsUp'
      BY <2>1 DEF TransferInv, NothingMoved, ReadAddsUp, WriteAddsUp
    <2>4. Len(got) \in Nat /\ length \in Nat /\ ReadAddsUp
      BY HowMany DEF TransferInv, TypeOK
    <2>5. pc' = "idle" /\ Status' = "SUCCESS" => Len(got') = length' /\ error' = FALSE
      BY <2>1, <2>4 DEF ReadAddsUp
    <2>6. ClockAlone' /\ Completes
      BY <2>1, <2>5 DEF ClockAlone, ClockStages, Completes
    <2> QED BY <2>2, <2>3, <2>6 DEF TransferInv
  <1> QED BY <1>1, <1>2

\* The loop of a writer, and its end.
LEMMA WriteStep ==
  ASSUME TransferInv, PushWord \/ WaitForRoom \/ AllPushed \/ TransferOver
  PROVE  TransferInv' /\ Completes
  <1>1. CASE PushWord
    <2>1. fifo' \in Words /\ AllNew(fifo')
      BY <1>1, NewAppended DEF TransferInv, TypeOK, WriteAddsUp, PushWord
    <2>2. TypeOK' /\ AllNew(got)'
      BY <1>1, <2>1 DEF TransferInv, TypeOK, PushWord, transfer
    <2>3. NothingMoved' /\ ReadAddsUp' /\ WriteAddsUp' /\ ClockAlone'
      BY <1>1, <2>1 DEF TransferInv, PushWord, NothingMoved, ReadAddsUp, WriteAddsUp,
                        ClockAlone, ClockStages, transfer
    <2>4. Completes
      BY <1>1 DEF PushWord, Completes
    <2> QED BY <2>2, <2>3, <2>4 DEF TransferInv
  <1>2. CASE WaitForRoom \/ AllPushed \/ TransferOver
    <2>1. /\ pc \in {"push", "done"} /\ pc' \in {"push", "done", "idle"}
          /\ pc' = "idle" /\ Status' = "SUCCESS" => sending = 0 /\ error = FALSE
          /\ UNCHANGED <<op, length, DataLen, got, fifo, error, sending>>
      BY <1>2 DEF WaitForRoom, AllPushed, TransferOver, Return, hardware, transfer, vars,
                  TransferInv, TypeOK
    <2>2. TypeOK' /\ AllNew(got)'
      BY <2>1 DEF TransferInv, TypeOK, Stages
    <2>3. NothingMoved' /\ ReadAddsUp' /\ WriteAddsUp'
      BY <2>1 DEF TransferInv, NothingMoved, ReadAddsUp, WriteAddsUp
    <2>4. Len(got) \in Nat /\ length \in Nat /\ WriteAddsUp
      BY HowMany DEF TransferInv, TypeOK
    <2>5. pc' = "idle" /\ Status' = "SUCCESS" => Len(got') = length' /\ error' = FALSE
      BY <2>1, <2>4 DEF WriteAddsUp
    <2>6. ClockAlone' /\ Completes
      BY <2>1, <2>5 DEF ClockAlone, ClockStages, Completes
    <2> QED BY <2>2, <2>3, <2>6 DEF TransferInv
  <1> QED BY <1>1, <1>2

\* Between transfers: only a reset of the controller touches the FIFO.
LEMMA BetweenStep ==
  ASSUME TransferInv, NEW freq,
         DwEmmcSetIos(freq) \/ DwEmmcNotifyState \/ DwEmmcSetClock \/ DwEmmcUpdateClock
  PROVE  TransferInv' /\ Completes
  <1>1. /\ pc \in {"idle"} \cup ClockStages /\ pc' \in {"idle"} \cup ClockStages
        /\ op' \in {op, "clock"} /\ fifo' \in {fifo, << >>}
        /\ pc = "idle" => op' = "clock"
        /\ UNCHANGED <<length, DataLen, Status, got, error, sending>>
    <2>1. CASE DwEmmcSetIos(freq)
      BY <2>1 DEF DwEmmcSetIos, ClockStages
    <2>2. CASE DwEmmcNotifyState
      BY <2>2 DEF DwEmmcNotifyState, ClockStages
    <2>3. CASE DwEmmcSetClock
      BY <2>3 DEF DwEmmcSetClock, SetClockStep, StopFirst, ClockStages, transfer
    <2>4. CASE DwEmmcUpdateClock
      BY <2>4 DEF DwEmmcUpdateClock, SetClockStep, ClockStages, transfer
    <2> QED BY <2>1, <2>2, <2>3, <2>4
  <1>2. TypeOK' /\ AllNew(got)'
    BY <1>1, NoWords DEF TransferInv, TypeOK, Stages
  <1>3. NothingMoved' /\ ReadAddsUp' /\ WriteAddsUp' /\ ClockAlone'
    BY <1>1 DEF TransferInv, NothingMoved, ReadAddsUp, WriteAddsUp, ClockAlone,
                ClockStages
  <1>4. Completes
    BY <1>1 DEF TransferInv, ClockAlone, Completes
  <1> QED BY <1>2, <1>3, <1>4 DEF TransferInv

\* The controller and the card, once the command is sent.
LEMMA HardwareStep ==
  ASSUME TransferInv, CardSends \/ CardReceives \/ CardReady \/ TransferError
  PROVE  TransferInv' /\ Completes
  <1>0. Completes
    BY DEF CardSends, CardReceives, CardReady, TransferError, driver, Completes
  <1>1. CASE CardSends
    <2>1. pc \in {"check", "drain"} /\ AllNew(fifo)
      BY <1>1 DEF TransferInv, ReadAddsUp, WriteAddsUp, CardSends, Moving, TransferOn
    <2>2. fifo' \in Words /\ AllNew(fifo')
      BY <1>1, <2>1, NewAppended DEF TransferInv, TypeOK, CardSends
    <2>3. TypeOK' /\ AllNew(got)'
      BY <1>1, <2>2 DEF TransferInv, TypeOK, CardSends, Moving, driver, transfer
    <2>4. NothingMoved' /\ ReadAddsUp' /\ WriteAddsUp' /\ ClockAlone'
      BY <1>1, <2>1, <2>2 DEF TransferInv, CardSends, NothingMoved, ReadAddsUp, WriteAddsUp,
                              ClockAlone, ClockStages, driver, transfer
    <2> QED BY <1>0, <2>3, <2>4 DEF TransferInv
  <1>2. CASE CardReceives
    <2>1. pc \in {"push", "done"} /\ AllNew(fifo)
      BY <1>2 DEF TransferInv, ReadAddsUp, WriteAddsUp, CardReceives, Moving, TransferOn
    <2>2. Head(fifo) = "new" /\ Tail(fifo) \in Words /\ AllNew(Tail(fifo))
      BY <1>2, <2>1, NewTaken DEF TransferInv, TypeOK, CardReceives
    <2>3. got' \in Words /\ AllNew(got') /\ Len(got') = Len(got) + 1
      BY <1>2, <2>2, NewAppended DEF TransferInv, TypeOK, CardReceives
    <2>4. TypeOK'
      BY <1>2, <2>2, <2>3 DEF TransferInv, TypeOK, CardReceives, Moving, transfer
    <2>5. WriteAddsUp'
      BY <1>2, <2>1, <2>2, <2>3, HowMany
         DEF TransferInv, TypeOK, WriteAddsUp, CardReceives, transfer
    <2>6. NothingMoved' /\ ReadAddsUp' /\ ClockAlone'
      BY <1>2, <2>1 DEF CardReceives, NothingMoved, ReadAddsUp, ClockAlone,
                        ClockStages
    <2> QED BY <1>0, <2>3, <2>4, <2>5, <2>6 DEF TransferInv
  <1>3. CASE CardReady
    BY <1>0, <1>3 DEF CardReady, TransferInv, TypeOK, NothingMoved, ReadAddsUp, WriteAddsUp,
                ClockAlone, driver, transfer
  <1>4. CASE TransferError
    <2>1. error' = TRUE /\ UNCHANGED <<driver, fifo, sending>>
      BY <1>4 DEF TransferError
    <2> QED BY <1>0, <2>1 DEF TransferInv, TypeOK, NothingMoved, ReadAddsUp, WriteAddsUp,
                        ClockAlone, ClockStages, driver, transfer
  <1> QED BY <1>1, <1>2, <1>3, <1>4

\* Every step keeps the invariant, and completes what it ends.
LEMMA TransferStep ==
  ASSUME TransferInv, [Next]_vars
  PROVE  TransferInv' /\ Completes
  <1>1. CASE Next
    BY <1>1, BeginStep, TestStep, CommandStep, ReadStep, WriteStep, BetweenStep,
       HardwareStep DEF Next, Driver
  <1>2. CASE UNCHANGED vars
    BY <1>2 DEF vars, TransferInv, TypeOK, NothingMoved, ReadAddsUp, WriteAddsUp,
                ClockAlone, Completes
  <1> QED BY <1>1, <1>2

\* No receiver gets a word that an earlier transfer has left in the FIFO
\* (DwEmmcReadBlockData, DwEmmcWriteBlockData).
THEOREM TransferOnlyNewWords == Spec => []OnlyNewWords
  <1>1. TransferInv => OnlyNewWords
    BY DEF TransferInv, AllNew, OnlyNewWords
  <1>2. TransferInv /\ [Next]_vars => TransferInv'
    BY TransferStep
  <1> QED BY TransferInit, <1>1, <1>2, PTL DEF Spec

\* A transfer that returns success has moved all its words, and no error was raised in
\* it by then.
THEOREM TransferSuccessIsComplete == Spec => SuccessIsComplete
  <1>1. TransferInv /\ [Next]_vars => TransferInv' /\ [Completes]_vars
    BY TransferStep
  <1>2. Completes <=> (pc # "idle" /\ pc' = "idle" /\ op # "clock" /\ Status' = "SUCCESS"
                         => Len(got') = length /\ ~error')
    BY DEF Completes
  <1> QED BY TransferInit, <1>1, <1>2, PTL DEF Spec, SuccessIsComplete

(***************************************************************************)
(* The clock.                                                              *)
(***************************************************************************)
Register == [asked : Nat, CLKENA : BOOLEAN, CLKDIV : Nat, running : Nat, failed : BOOLEAN]

\* Off, not under control, or slow enough.
Off == clock.running = 0 \/ clock.failed = TRUE

ClockInv ==
  /\ pc \in Stages /\ clock \in Register
  /\ pc \in ClockStages => Dividers(clock.asked) # {}
  /\ pc \in {"updateStopped", "writeDivider", "updateDivider", "start"} => clock.CLKENA = FALSE
  /\ pc \in {"writeDivider", "updateDivider", "start", "updateStarted"} => Off
  /\ pc \in {"updateDivider", "start", "updateStarted"} => clock.CLKDIV \in Dividers(clock.asked)
  /\ pc \notin ClockStages => Off \/ clock.running \in Dividers(clock.asked)

\* A set of numbers has a smallest one.
LEMMA Smallest ==
  ASSUME NEW S, S \subseteq Nat, S # {}
  PROVE  \E d \in S : \A e \in S : d <= e
  <1> DEFINE Below == {ss \in Nat \X Nat : ss[1] < ss[2]}
  <1>1. IsWellFoundedOn(Below, Nat)
    BY NatLessThanWellFounded DEF OpToRel
  <1> HIDE DEF Below
  <1>2. PICK d \in S : \A e \in S : ~(<<e, d>> \in Below)
    BY <1>1, WFMin
  <1>3. \A e \in S : e < d => <<e, d>> \in Below
    BY DEF Below
  <1>4. \A e \in S : ~(e < d)
    BY <1>2, <1>3
  <1>5. \A e \in S : d <= e
    BY <1>4
  <1> QED BY <1>5

\* The loop of DwEmmcSetClock finds a divider if there is one.
LEMMA DividerFound ==
  ASSUME NEW freq, Dividers(freq) # {}
  PROVE  FirstDivider(freq) \in Dividers(freq)
  <1>1. Dividers(freq) \subseteq Nat
    BY DEF Dividers
  <1>2. \E d \in Dividers(freq) : \A e \in Dividers(freq) : d <= e
    BY <1>1, Smallest
  <1> QED BY <1>2 DEF FirstDivider

\* The identification frequency has one.
LEMMA SlowDivider == Dividers(400000) # {}
  <1>1. 63 \in Dividers(400000)
    BY DEF Dividers, Rate
  <1> QED BY <1>1

\* What no step but those of the clock changes.
Elsewhere == /\ clock' = clock
             /\ pc' = pc \/ (pc \notin ClockStages /\ pc' \in Stages \ ClockStages)

ClockSafe ==
  /\ clock.running # 0 /\ clock'.running # 0 /\ ~clock.failed
       => clock'.running = clock.running
  /\ pc' = "idle" /\ clock'.running # 0 /\ ~clock'.failed
       => Rate \div (2 * clock'.running) <= clock'.asked

\* Steps of a transfer leave the clock alone.
LEMMA ElsewhereStep ==
  ASSUME [Next]_vars, ~(\E freq \in Frequencies : DwEmmcSetIos(freq)),
         ~DwEmmcNotifyState, ~DwEmmcSetClock, ~DwEmmcUpdateClock
  PROVE  Elsewhere
  <1>1. CASE \E o \in {"read", "write"}, n \in 1 .. MaxWords : Begin(o, n)
    BY <1>1 DEF Begin, Elsewhere, Stages, ClockStages
  <1>2. CASE CardIdle \/ TestFifo \/ ResetFifo \/ SendCommand
    BY <1>2 DEF CardIdle, TestFifo, ResetFifo, SendCommand, Return, hardware, Elsewhere,
                Stages, ClockStages
  <1>3. CASE CheckError \/ TakeWord \/ AllTaken \/ NothingThere
    BY <1>3 DEF CheckError, TakeWord, AllTaken, NothingThere, Return, hardware, Elsewhere,
                Stages, ClockStages
  <1>4. CASE PushWord \/ WaitForRoom \/ AllPushed \/ TransferOver
    BY <1>4 DEF PushWord, WaitForRoom, AllPushed, TransferOver, Return, hardware, vars,
                Elsewhere, Stages, ClockStages
  <1>5. CASE CardSends \/ CardReceives \/ CardReady \/ TransferError
    BY <1>5 DEF CardSends, CardReceives, CardReady, TransferError, driver, Elsewhere
  <1>6. CASE UNCHANGED vars
    BY <1>6 DEF vars, Elsewhere
  <1> QED BY <1>1, <1>2, <1>3, <1>4, <1>5, <1>6 DEF Next, Driver

\* Every step keeps the invariant and is safe.
LEMMA ClockStep ==
  ASSUME ClockInv, [Next]_vars
  PROVE  ClockInv' /\ ClockSafe
  <1>1. CASE Elsewhere
    <2>1. ClockInv'
      BY <1>1 DEF Elsewhere, ClockInv, Off, ClockStages
    <2>2. ASSUME pc' = "idle", clock.running # 0, ~clock.failed
          PROVE  clock.running \in Dividers(clock.asked)
      BY <1>1, <2>2 DEF Elsewhere, ClockInv, Off, ClockStages, Register
    <2>3. ClockSafe
      BY <1>1, <2>2 DEF Elsewhere, ClockSafe, Dividers
    <2> QED BY <2>1, <2>3
  <1>2. ASSUME NEW freq \in Frequencies, DwEmmcSetIos(freq) PROVE ClockInv' /\ ClockSafe
    <2>1. /\ clock' = [clock EXCEPT !.asked = freq] /\ pc' = "clockBusy"
          /\ Dividers(freq) # {} /\ freq \in Nat
      BY <1>2, FrequencyAssumption DEF DwEmmcSetIos
    <2> QED BY <2>1 DEF ClockInv, ClockSafe, Off, Register, Stages, ClockStages
  <1>3. CASE DwEmmcNotifyState
    <2>1. clock' = [clock EXCEPT !.asked = 400000] /\ pc' = "clockBusy"
      BY <1>3 DEF DwEmmcNotifyState
    <2> QED BY <2>1, SlowDivider DEF ClockInv, ClockSafe, Off, Register, Stages, ClockStages
  <1>4. CASE DwEmmcSetClock
    <2>1. FirstDivider(clock.asked) \in Dividers(clock.asked) \/ pc # "writeDivider"
      BY DividerFound DEF ClockInv, ClockStages
    <2>2. Dividers(clock.asked) \subseteq Nat
      BY DEF Dividers
    <2>3. CASE SetClockStep("clockBusy", StopFirst, clock)
      BY <2>3 DEF SetClockStep, StopFirst, ClockInv, ClockSafe, Off, Stages, ClockStages
    <2>4. CASE SetClockStep("stop", "updateStopped", [clock EXCEPT !.CLKENA = FALSE])
      BY <2>4 DEF SetClockStep, ClockInv, ClockSafe, Off, Register, Stages, ClockStages
    <2>5. CASE SetClockStep("writeDivider", "updateDivider",
                            [clock EXCEPT !.CLKDIV = FirstDivider(clock.asked)])
      BY <2>1, <2>2, <2>5
         DEF SetClockStep, ClockInv, ClockSafe, Off, Register, Stages, ClockStages
    <2>6. CASE SetClockStep("start", "updateStarted", [clock EXCEPT !.CLKENA = TRUE])
      BY <2>6 DEF SetClockStep, ClockInv, ClockSafe, Off, Register, Stages, ClockStages
    <2> QED BY <1>4, <2>3, <2>4, <2>5, <2>6 DEF DwEmmcSetClock
  <1>5. CASE DwEmmcUpdateClock
    <2>1. PICK new \in {Updated, Refused} :
            \/ SetClockStep("updateStopped", "writeDivider", new)
            \/ SetClockStep("updateDivider", "start", new)
            \/ SetClockStep("updateStarted", "idle", new)
      BY <1>5 DEF DwEmmcUpdateClock
    <2>2. /\ clock' = new /\ new \in Register
          /\ new.asked = clock.asked /\ new.CLKDIV = clock.CLKDIV
          /\ new.CLKENA = clock.CLKENA
          /\ \/ new.running = 0 /\ clock.CLKENA = FALSE
             \/ new.running = clock.CLKDIV /\ clock.CLKENA = TRUE
             \/ new.running = clock.running /\ new.failed = TRUE
      <3>1. clock \in Register /\ clock' = new
        BY <2>1 DEF SetClockStep, ClockInv
      <3>2. CASE new = Updated
        BY <3>1, <3>2 DEF Updated, Register
      <3>3. CASE new = Refused
        BY <3>1, <3>3 DEF Refused, Register
      <3> QED BY <3>2, <3>3
    <2>3. CASE pc = "updateStopped" /\ pc' = "writeDivider"
      BY <2>2, <2>3 DEF ClockInv, ClockSafe, Off, Stages, ClockStages
    <2>4. CASE pc = "updateDivider" /\ pc' = "start"
      BY <2>2, <2>4 DEF ClockInv, ClockSafe, Off, Stages, ClockStages
    <2>5. CASE pc = "updateStarted" /\ pc' = "idle"
      <3>1. ClockInv'
        BY <2>2, <2>5 DEF ClockInv, Off, Stages, ClockStages, Register
      <3>2. ClockSafe
        BY <2>2, <2>5 DEF ClockInv, ClockSafe, Off, Register, Dividers
      <3> QED BY <3>1, <3>2
    <2> QED BY <2>1, <2>3, <2>4, <2>5 DEF SetClockStep
  <1> QED BY <1>1, <1>2, <1>3, <1>4, <1>5, ElsewhereStep

\* The clock of the card is off while its divider changes, and no faster than asked
\* when DwEmmcSetClock is over, unless the controller has refused an update.
THEOREM ClockIsChangedSafely == Spec => ClockChangedSafely
  <1>1. Init => ClockInv
    BY DEF Init, ClockInv, Off, Register, Stages, ClockStages
  <1>2. ClockInv /\ [Next]_vars => ClockInv'
    BY ClockStep
  <1>3. ClockInv /\ [Next]_vars => [ClockSafe]_vars
    BY ClockStep
  <1> QED BY <1>1, <1>2, <1>3, PTL DEF Spec, ClockChangedSafely, ClockSafe
=============================================================================
