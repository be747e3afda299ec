------------------------- MODULE MmcIdentification -------------------------
(***************************************************************************)
(* InitializeMmcDevice: the commands that take a card from power up to the *)
(* transfer state, for SD, MMC and eMMC cards, with every call of the host *)
(* able to fail.                                                           *)
(*                                                                         *)
(* The calls are a table: a row says which call the driver makes at a      *)
(* label, and where it goes on if the call succeeds and if it fails.       *)
(* "FAIL" and "SUCCESS" are the ends of InitializeMmcDevice.  Branches on  *)
(* what a card has answered are actions of their own.                      *)
(*                                                                         *)
(* The card is external: it answers the commands its state allows and none *)
(* other.  So is the host, of one of two sorts: one that sends a command   *)
(* when it is told to, and DwEmmcDxe, which holds a command with data back *)
(* until the data are asked for (DwEmmcSendCommand).                       *)
(***************************************************************************)
EXTENDS Integers

CONSTANTS
  Kinds,            \* the cards: of "SD1", "SD2", "SDHC", "MMC", "EMMC", "SDIO"
  MAX_RETRY_COUNT,  \* polls for power up
  HasSetIos,        \* the host has SetIos
  Hosts             \* the sorts of host, see HostSorts

SD == {"SD1", "SD2", "SDHC"}

ASSUME KindAssumption == Kinds \subseteq SD \cup {"MMC", "EMMC", "SDIO"}
ASSUME RetryAssumption == MAX_RETRY_COUNT \in Nat \ {0}

\* holds: the host is DwEmmcDxe; fails: its calls may fail though the card answers.
HostSorts == [holds : BOOLEAN, fails : BOOLEAN]

ASSUME HostAssumption == HasSetIos \in BOOLEAN /\ Hosts \subseteq HostSorts

VARIABLES
  label,      \* where InitializeMmcDevice is
  Timeout,    \* of the power up loops, and the timing modes left to try
  IsHCS,      \* the card has answered CMD8 in MmcIdentificationMode
  CardType,   \* CardInfo.CardType
  hostState,  \* MmcHostInstance->State
  sized,      \* this identification has set BlockIo.Media
  sort,       \* external: the sort of host; fixed here
  host,       \* external: bus width, the command held
  card        \* external: kind, state, app (CMD55 was last), bus width, four (SCR)

identVars == <<label, Timeout, IsHCS, CardType, hostState, sized, sort, host, card>>

Fresh == [kind : Kinds, state : {"idle"}, app : {FALSE}, width : {1}, four : BOOLEAN]

IdentInit ==
  /\ label = "hw" /\ hostState = "HwInit" /\ sized = FALSE
  /\ Timeout = MAX_RETRY_COUNT /\ IsHCS = FALSE /\ CardType = "unknown"
  /\ sort \in Hosts
  /\ host = [width |-> 1, held |-> "none"]
  /\ card \in Fresh

HoldsData == sort.holds
MayFail == sort.fails

(***************************************************************************)
(* The card.                                                               *)
(***************************************************************************)
\* The commands a card answers in a state, and the state the answer leaves it in.
\* A high capacity card does not power up unless ACMD41 says IsHCS.
Answers(c, cmd, next) ==
  LET from(states) == c.state \in states IN
  CASE cmd = "CMD0" -> next = "idle"
    [] cmd = "CMD1" -> /\ c.kind \in {"MMC", "EMMC"}
                       /\ \/ from({"idle"}) /\ next \in {"idle", "ready"}
                          \/ from({"ready"}) /\ next = "ready"
    [] cmd = "CMD5" -> c.kind = "SDIO" /\ next = c.state
    [] cmd = "CMD8" -> \/ c.kind \in {"SD2", "SDHC"} /\ from({"idle"}) /\ next = "idle"
                       \/ c.kind = "EMMC" /\ from({"tran"}) /\ next = "data"
    [] cmd = "CMD55" -> c.kind \in SD /\ next = c.state
    [] cmd = "ACMD41" -> /\ c.app /\ from({"idle"})
                         /\ next \in {"idle"} \cup IF c.kind = "SDHC" /\ ~IsHCS THEN {}
                                                  ELSE {"ready"}
    [] cmd = "CMD2" -> from({"ready"}) /\ next = "ident"
    [] cmd = "CMD3" -> from({"ident"}) /\ next = "stby"
    [] cmd = "CMD9" -> from({"stby"}) /\ next = "stby"
    [] cmd = "CMD7" -> from({"stby"}) /\ next = "tran"
    [] cmd = "CMD13" -> from({"stby", "tran", "data", "prg"}) /\ next = c.state
    [] cmd = "CMD16" -> from({"tran"}) /\ next = "tran"
    [] cmd = "CMD23" -> c.kind \in {"MMC", "EMMC"} /\ from({"tran"}) /\ next = "tran"
    [] cmd = "ACMD51" -> c.app /\ from({"tran"}) /\ next = "data"
    [] cmd = "ACMD6" -> c.app /\ from({"tran"}) /\ next = "tran"
    [] cmd = "CMD6 switch" -> c.kind \in SD /\ ~c.app /\ from({"tran"}) /\ next = "data"
    [] cmd \in {"CMD6 1-bit", "CMD6 timing", "CMD6 8-bit"} ->
         c.kind = "EMMC" /\ from({"tran"}) /\ next = "prg"
    [] OTHER -> FALSE

CardStates == {"idle", "ready", "ident", "stby", "tran", "data", "prg"}

WidthAfter(c, cmd) ==
  CASE cmd = "ACMD6" -> 4 [] cmd = "CMD6 1-bit" -> 1 [] cmd = "CMD6 8-bit" -> 8
    [] OTHER -> c.width

Does(cmd, next) ==
  card' = [card EXCEPT !.state = next, !.app = (cmd = "CMD55"),
                       !.width = WidthAfter(card, cmd)]

\* A switch is programmed, and data end, in the card's own time.
CardDone ==
  /\ card.state = "prg" \/ (card.state = "data" /\ label = "in data")
  /\ card' = [card EXCEPT !.state = "tran"]
  /\ UNCHANGED <<label, Timeout, IsHCS, CardType, hostState, sized, host>>

(***************************************************************************)
(* The driver's calls.                                                     *)
(***************************************************************************)
Row(at, call, arg, width, ok, fail) ==
  [at |-> at, call |-> call, arg |-> arg, width |-> width, ok |-> ok, fail |-> fail]

Send(at, cmd, ok, fail) == Row(at, "send", cmd, 0, ok, fail)
Notify(at, state, ok) == Row(at, "notify", state, 0, ok, "FAIL")
ReadData(at, ok) == Row(at, "read", "", 0, ok, "FAIL")
SetIos(at, width, ok, fail) == Row(at, "ios", "", width, ok, fail)

\* MmcIdentificationMode up to the discovery of the card.
Probe == {
  Notify("hw", "HwInit", "cmd0"),
  Send("cmd0", "CMD0", "idle", "FAIL"),
  Notify("idle", "Idle", "cmd1"),
  Send("cmd1", "CMD1", "ocr1", "cmd5"),
  Send("cmd5", "CMD5", "FAIL", "cmd8"),
  Send("cmd8", "CMD8", "cmd55", "cmd55"),
  Send("cmd55", "CMD55", "acmd41", "cmd1 mmc"),
  Send("acmd41", "ACMD41", "ocr", "retry"),
  Send("cmd1 mmc", "CMD1", "ocr", "retry")}

\* The rest of it for SD and MMC cards, and InitializeSdMmcDevice.
SdMmc == {
  Notify("ready", "Ready", "cmd2"),
  Send("cmd2", "CMD2", "ident", "FAIL"),
  Notify("ident", "Identification", "cmd3"),
  Send("cmd3", "CMD3", "stby", "FAIL"),
  Notify("stby", "StandBy", "tran"),
  Notify("tran", "Transfer", "device"),
  Send("cmd9", "CMD9", "cmd7", "FAIL"),
  Send("cmd7", "CMD7", "cmd55 scr", "FAIL"),
  Send("cmd55 scr", "CMD55", "app", "FAIL"),
  Send("acmd51", "ACMD51", "scr", "FAIL"),
  ReadData("scr", "ccc"),
  Send("switch", "CMD6 switch", "switched", "FAIL"),
  ReadData("switched", "scr width"),
  Send("cmd55 width", "CMD55", "acmd6", "FAIL"),
  Send("acmd6", "ACMD6", "ios", "FAIL"),
  SetIos("ios4", 4, "cmd16", "FAIL"),
  Send("cmd16", "CMD16", "block count", "FAIL"),
  Send("cmd23", "CMD23", "SUCCESS", "FAIL")}

\* EmmcIdentificationMode and InitializeEmmcDevice.  Errors of CMD7 and CMD8
\* are only logged.
Emmc == {
  Send("emmc cmd2", "CMD2", "emmc cmd3", "FAIL"),
  Send("emmc cmd3", "CMD3", "emmc cmd9", "FAIL"),
  Send("emmc cmd9", "CMD9", "emmc cmd7", "FAIL"),
  Send("emmc cmd7", "CMD7", "emmc ios", "emmc ios"),
  SetIos("ios1", 1, "width 1", "FAIL"),
  Send("width 1", "CMD6 1-bit", "in prg 1", "FAIL"),
  Send("emmc cmd8", "CMD8", "ecsd", "ecsd"),
  ReadData("ecsd", "in data"),
  Send("timing", "CMD6 timing", "in prg timing", "FAIL"),
  SetIos("ios8", 8, "width 8", "next mode"),
  Send("width 8", "CMD6 8-bit", "in prg 8", "FAIL")}

Rows == Probe \cup SdMmc \cup Emmc

\* Mistake: the second application command goes out without its prefix.
ProgramWithoutPrefix ==
  {r \in Rows : r.at # "cmd55 width"} \cup {Send("cmd55 width", "ACMD6", "ios", "FAIL")}

\* Mistake: the card is told of the wider bus and the host is not.
ProgramWithoutIos ==
  {r \in Rows : r.at # "acmd6"} \cup {Send("acmd6", "ACMD6", "cmd16", "FAIL")}

Program == Rows

To(next) == label' = next

\* The answers that are received and whose receipt may fail; for CMD8, the echo
\* of a card that cannot be used.
Received == {"cmd1", "cmd8", "acmd41", "cmd1 mmc", "cmd2", "cmd3", "cmd9", "cmd55 scr",
             "emmc cmd2", "emmc cmd9"}

Held(cmd) == HoldsData /\ cmd \in {"ACMD51", "CMD6 switch"}

Answered(cmd) == \E next \in CardStates : Answers(card, cmd, next)

\* What the driver notes when a command has been answered.
Note(answered) ==
  /\ IsHCS' = (IsHCS \/ (label = "cmd8" /\ answered))
  /\ CardType' = IF label # "cmd55" THEN CardType
                 ELSE IF ~answered THEN "MMC_CARD"
                 ELSE IF IsHCS THEN "SD_CARD_2" ELSE "SD_CARD"
  /\ Timeout' = IF label = "cmd8" THEN MAX_RETRY_COUNT ELSE Timeout
  /\ UNCHANGED hostState

SendCommand(r) ==
  /\ r.call = "send" /\ ~Held(r.arg)
  /\ \/ \E next \in CardStates :
          /\ Answers(card, r.arg, next)
          /\ Does(r.arg, next)
          /\ \/ /\ To(r.ok) /\ Note(TRUE)
                /\ sized' = (sized \/ label = "cmd9")
             \/ /\ MayFail /\ label \in Received
                /\ To("FAIL") /\ Note(TRUE)
                /\ UNCHANGED sized
     \/ /\ ~Answered(r.arg) \/ MayFail
        /\ To(r.fail) /\ Note(FALSE)
        /\ UNCHANGED <<sized, card>>
  /\ UNCHANGED host

HoldCommand(r) ==
  /\ r.call = "send" /\ Held(r.arg)
  /\ host' = [host EXCEPT !.held = r.arg]
  /\ To(r.ok)
  /\ UNCHANGED <<Timeout, IsHCS, CardType, hostState, sized, card>>

\* MmcNotifyState changes State before it tells the host; at "ident" the host is
\* told directly.
NotifyState(r) ==
  /\ r.call = "notify"
  /\ hostState' = IF label = "ident" THEN hostState ELSE r.arg
  /\ To(r.ok) \/ (MayFail /\ To(r.fail))
  /\ UNCHANGED <<Timeout, IsHCS, CardType, sized, host, card>>

\* DwEmmcReadBlockData sends the command it holds, whichever that is.
ReadBlockData(r) ==
  /\ r.call = "read"
  /\ LET sends == IF HoldsData THEN Answers(card, host.held, "data")
                  ELSE card.state = "data" IN
     \/ /\ sends
        /\ card' = [card EXCEPT !.app = FALSE,
                                !.state = IF card.kind = "EMMC" THEN "data" ELSE "tran"]
        /\ To(r.ok)
     \/ ~sends /\ To(r.fail) /\ UNCHANGED card
     \/ MayFail /\ To(r.fail) /\ UNCHANGED card
  /\ UNCHANGED <<Timeout, IsHCS, CardType, hostState, sized, host>>

SetHostIos(r) ==
  /\ r.call = "ios"
  /\ \/ /\ host' = [host EXCEPT !.width = r.width]
        /\ To(r.ok)
     \/ /\ MayFail
        /\ To(r.fail)
        /\ UNCHANGED host
  /\ UNCHANGED <<Timeout, IsHCS, CardType, hostState, sized, card>>

\* The call of the row of this label.
MakeCall ==
  \E r \in Program :
    /\ r.at = label
    /\ \/ SendCommand(r) \/ HoldCommand(r) \/ NotifyState(r) \/ ReadBlockData(r)
       \/ SetHostIos(r)

(***************************************************************************)
(* Branches.                                                               *)
(***************************************************************************)
\* Mistake: a turn of a loop is not counted.
NotCounted == Timeout

Remaining == Timeout - 1

Exhausted == Remaining = 0

PowerUp == card.state = "ready"

\* After CMD1: wait for power up; an eMMC card is told by its OCR.
Ocr1 ==
  /\ label = "ocr1"
  /\ Timeout' = Remaining
  /\ To(IF PowerUp THEN IF card.kind = "EMMC" THEN "emmc cmd2" ELSE "cmd5"
        ELSE IF Exhausted THEN "FAIL" ELSE "cmd1")
  /\ UNCHANGED <<IsHCS, CardType, hostState, sized, host, card>>

\* After ACMD41, or CMD1 for an MMC card.
Ocr ==
  /\ label = "ocr"
  /\ To(IF PowerUp THEN "ready" ELSE "retry")
  /\ CardType' = IF PowerUp /\ CardType = "SD_CARD_2" /\ card.kind = "SDHC"
                 THEN "SD_CARD_2_HIGH" ELSE CardType
  /\ UNCHANGED <<Timeout, IsHCS, hostState, sized, host, card>>

Retry ==
  /\ label \in {"retry", "next mode"}
  /\ Timeout' = Remaining
  /\ To(IF Exhausted THEN "FAIL" ELSE IF label = "retry" THEN "cmd55" ELSE "ios8")
  /\ UNCHANGED <<IsHCS, CardType, hostState, sized, host, card>>

\* What the device is, or has said of itself, decides the next call.
Decide ==
  /\ \/ /\ label = "device" /\ CardType # "EMMC_CARD" /\ To("cmd9")
     \/ /\ label = "device" /\ CardType = "EMMC_CARD"
        /\ To("cmd16") \/ (HasSetIos /\ To("timing"))    \* DEVICE_TYPE
     \/ label = "app" /\ To("acmd51")
     \/ label = "app" /\ MayFail /\ To("cmd16")             \* no APP_CMD in the status
     \/ label = "ccc" /\ label' \in {"switch", "scr width"}    \* CCC of the CSD
     \/ label = "scr width" /\ To(IF card.four THEN "cmd55 width" ELSE "ios")
     \/ label = "ios" /\ To(IF HasSetIos THEN "ios4" ELSE "cmd16")
     \/ label = "emmc ios" /\ To(IF HasSetIos THEN "ios1" ELSE "emmc cmd8")
     \/ label = "block count" /\ To(IF CardType = "MMC_CARD" THEN "cmd23" ELSE "SUCCESS")
  /\ UNCHANGED <<Timeout, IsHCS, CardType, hostState, sized, host, card>>

\* EmmcGetDeviceState until the card has left the programming or data state.
Wait(at, for, then) == [at |-> at, for |-> for, then |-> then]

Waits == {
  Wait("in prg 1", "prg", "emmc cmd8"),
  Wait("in data", "data", "tran"),
  Wait("in prg timing", "prg", "ios8"),
  Wait("in prg 8", "prg", "cmd16")}

Poll ==
  /\ \E w \in Waits :
       /\ w.at = label
       /\ \/ /\ card.state = w.for
             /\ UNCHANGED <<label, Timeout, CardType, sized>>
          \/ /\ card.state = "tran"
             /\ To(w.then)
             /\ Timeout' = IF label = "in prg timing" THEN 4 ELSE Timeout
             /\ sized' = (sized \/ label = "in data")
             /\ CardType' = IF label = "in data" THEN "EMMC_CARD" ELSE CardType
          \/ /\ MayFail
             /\ To("FAIL")
             /\ UNCHANGED <<Timeout, CardType, sized>>
  /\ UNCHANGED <<IsHCS, hostState, host, card>>

Driver == MakeCall \/ Ocr1 \/ Ocr \/ Retry \/ Decide \/ Poll

Done == label \in {"SUCCESS", "FAIL"}

\* Another card, or the same again; CardType and what the host holds stay.
Another ==
  /\ Done
  /\ card' \in Fresh
  /\ label' = "hw" /\ hostState' = "HwInit" /\ sized' = FALSE
  /\ Timeout' = MAX_RETRY_COUNT /\ IsHCS' = FALSE
  /\ host' = [host EXCEPT !.width = 1]
  /\ UNCHANGED CardType

IdentNext == (Driver \/ CardDone \/ Another) /\ UNCHANGED sort

IdentSpec == IdentInit /\ [][IdentNext]_identVars

\* The driver goes on, and a card finishes what it has begun.
IdentFairSpec == /\ IdentSpec
                 /\ WF_identVars(Driver /\ UNCHANGED sort)
                 /\ WF_identVars(CardDone /\ UNCHANGED sort)

(***************************************************************************)
(* Correctness.                                                            *)
(***************************************************************************)
\* Where the code does not set both sides to one width.
OneLineLeftBehind ==
  card.kind \in SD /\ ~card.four /\ card.width = 1 /\ host.width = 4

\* InitializeMmcDevice succeeds only with a card that is selected, whose data are
\* in Media, and that is of the kind the driver takes it for: errors the code only
\* logs (CMD7 and CMD8 of an eMMC card) and types left from an earlier card do not
\* get through.  The card uses as many data lines as the host, if the host can be
\* told (SetIos), but for one sort: an SD card whose SCR has no four-line mode is
\* left at one line, and the host is set to four all the same.
SuccessIsTransfer ==
  label = "SUCCESS" =>
    /\ card.state = "tran" /\ hostState = "Transfer" /\ sized
    /\ CardType = "EMMC_CARD" <=> card.kind = "EMMC"
    /\ CardType = "SD_CARD_2_HIGH" <=> card.kind = "SDHC"
    /\ HasSetIos => host.width = card.width \/ OneLineLeftBehind

Good == {"SD1", "SD2", "SDHC", "EMMC"}

\* A card of a supported kind is identified unless a call fails or the card takes
\* too long: each command finds the card in a state in which it answers it.  Not
\* so an eMMC card on DwEmmcDxe, whose ECSD is never sent as data.
GoodCardIdentified ==
  label = "FAIL" /\ ~MayFail /\ card.kind \in Good /\ Timeout > 0
    => HoldsData /\ card.kind = "EMMC"

\* An identification ends, although it waits for the card in loops without bound.
IdentificationEnds == []<>Done
=============================================================================
