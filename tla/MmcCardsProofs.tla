--------------------------- MODULE MmcCardsProofs ---------------------------
(***************************************************************************)
(* The two flags of an MMC host instance agree, for any set of cards: one  *)
(* is read by the card detection only, the other by the clients only, and  *)
(* each step of Start changes one of them.  After that, what an            *)
(* identification that ends has done to the card.                          *)
(***************************************************************************)
EXTENDS MmcCards, MmcIdentification, TLAPS

\* The outcomes of an identification are typed, and none changes the flags.
LEMMA CheckCardsTyping ==
  ASSUME TypeOK, CheckCards
  PROVE  /\ selected' \in {slot, NoCard}
         /\ Initialized' \in BOOLEAN /\ MediaPresent' \in BOOLEAN
         /\ MediaId' \in 0 .. IdLimit - 1
         /\ State' \in {"HwInit", "Identification", "Transfer"}
         /\ described' \in Card \cup {NoCard} /\ wiped' \in BOOLEAN
  <1>1. NextId \in 0 .. IdLimit - 1
    BY IdAssumption DEF TypeOK, NextId
  <1> QED BY <1>1 DEF TypeOK, CheckCards, Changed, NewPresence, IdentificationMode, SetMedia,
                      CardIn, media

\* A step of Start keeps the types.
LEMMA AppTyping ==
  ASSUME TypeOK, App
  PROVE  TypeOK'
  <1>1. NextId \in 0 .. IdLimit - 1
    BY IdAssumption DEF TypeOK, NextId
  <1>2. CASE ClearInitialized
    BY <1>2 DEF TypeOK, ClearInitialized, cards, binding, media
  <1>3. CASE TestPresence
    BY <1>3 DEF TypeOK, TestPresence, cards, binding, flags, media
  <1>4. CASE SetPresence
    BY <1>4 DEF TypeOK, SetPresence, NewPresence, cards, binding
  <1>5. CASE ToggleInitialized
    BY <1>5 DEF TypeOK, ToggleInitialized, cards, binding, media
  <1>6. CASE Identify
    BY <1>6 DEF TypeOK, Identify, IdentificationMode, CardIn, binding, flags, media
  <1>7. CASE Describe
    <2>1. CASE UNCHANGED media
      BY <1>7, <2>1 DEF TypeOK, Describe, SetMedia, binding, media
    <2>2. CASE SetMedia /\ UNCHANGED wiped
      BY <1>1, <1>7, <2>2 DEF TypeOK, Describe, SetMedia, binding, media
    <2> QED BY <1>7, <2>1, <2>2 DEF Describe
  <1> QED BY <1>2, <1>3, <1>4, <1>5, <1>6, <1>7 DEF App

\* Every step keeps the types.
LEMMA TypeStep == TypeOK /\ [Next]_vars => TypeOK'
  <1> SUFFICES ASSUME TypeOK, [Next]_vars PROVE TypeOK'
    OBVIOUS
  <1>1. ASSUME NEW c \in Card, InsertCard(c) PROVE TypeOK'
    <2>1. selected \in {NoCard}
      BY <1>1 DEF TypeOK, InsertCard
    <2> QED BY <1>1, <2>1 DEF TypeOK, InsertCard, binding, flags, media
  <1>2. CASE RemoveCard
    BY <1>2 DEF TypeOK, RemoveCard, binding, flags, media
  <1>3. CASE Tick
    <2>1. CheckCards /\ UNCHANGED <<slot, binding, pc>>
      BY <1>3 DEF Tick
    <2>2. request' \in [named : Card \cup {NoCard}, reached : SUBSET Card,
                        interrupted : BOOLEAN]
      BY <1>3 DEF Tick, TypeOK
    <2>3. torn' \in BOOLEAN
      <3>1. torn' = Tearing \/ torn' = torn
        BY <1>3 DEF Tick
      <3>2. Tearing \in BOOLEAN
        BY DEF Tearing
      <3> QED BY <3>1, <3>2 DEF TypeOK
    <2>4. UNCHANGED <<slot, bound, pool, pc>>
      BY <2>1 DEF binding
    <2>5. /\ selected' \in {slot, NoCard}
          /\ Initialized' \in BOOLEAN /\ MediaPresent' \in BOOLEAN
          /\ MediaId' \in 0 .. IdLimit - 1
          /\ State' \in {"HwInit", "Identification", "Transfer"}
          /\ described' \in Card \cup {NoCard} /\ wiped' \in BOOLEAN
      BY <2>1, CheckCardsTyping
    <2> QED BY <2>2, <2>3, <2>4, <2>5 DEF TypeOK
  <1>4. CASE App
    BY <1>4, AppTyping
  <1>5. CASE Start
    <2>1. 0 \in 0 .. IdLimit - 1
      BY IdAssumption
    <2> QED BY <1>5, <2>1 DEF TypeOK, Start, cards, flags, media
  <1>6. CASE Stop
    BY <1>6 DEF TypeOK, Stop, cards, flags, media
  <1>7. CASE Reset
    BY <1>7 DEF TypeOK, Reset, cards, binding
  <1>8. CASE Request
    BY <1>8 DEF TypeOK, Request, NoRequest, cards, binding, flags, media
  <1>9. CASE Transfer
    <2>1. {selected} \ {NoCard} \subseteq Card
      BY DEF TypeOK
    <2>2. request'.named = request.named
          /\ request'.reached = request.reached \cup ({selected} \ {NoCard})
          /\ request' \in [named : Card \cup {NoCard}, reached : SUBSET Card,
                           interrupted : BOOLEAN]
      BY <1>9, <2>1 DEF TypeOK, Transfer
    <2> QED BY <1>9, <2>2 DEF TypeOK, Transfer, cards, binding, flags, media
  <1>10. CASE RequestDone
    BY <1>10 DEF TypeOK, RequestDone, NoRequest, cards, binding, flags, media
  <1>11. CASE UNCHANGED vars
    BY <1>11 DEF TypeOK, vars, cards, binding, media
  <1> QED BY <1>1, <1>2, <1>3, <1>4, <1>5, <1>6, <1>7, <1>8, <1>9, <1>10, <1>11 DEF Next

\* Every variable of the card detection has its type in every reachable state;
\* MediaId stays within the width of a UINT32 however often cards change.
THEOREM CardsTypeOK == Spec => []TypeOK
  <1>1. Init => TypeOK
    <2>1. 0 \in 0 .. IdLimit - 1
      BY IdAssumption
    <2>2. NoRequest \in [named : Card \cup {NoCard}, reached : SUBSET Card,
                         interrupted : BOOLEAN]
      BY DEF NoRequest
    <2> QED BY <2>1, <2>2 DEF Init, TypeOK
  <1> QED BY <1>1, TypeStep, PTL DEF Spec

(***************************************************************************)
(* MediaAgrees is not inductive: inside Start the flags differ at one      *)
(* label, and a change that is seen at some labels sets them straight and  *)
(* at the others leaves them torn.                                         *)
(***************************************************************************)
\* The flags at each label of Start, unless they are torn.  Reset, which is for
\* a caller of Start's level, does not come between.
StartFlags ==
  /\ InStart => ~wiped
  /\ ~torn => /\ pc = "inserted" => ~Initialized /\ ~MediaPresent
              /\ pc \in {"checked", "marked"} => MediaPresent = Initialized
              /\ pc = "toggled" => MediaPresent = ~Initialized
              /\ pc \in {"identify", "describe"} => Initialized /\ MediaPresent

\* When the timer sees a change, it leaves the two flags equal, whatever they were.
LEMMA CheckCardsAgrees ==
  ASSUME TypeOK, CheckCards, Changed
  PROVE  MediaPresent' = Initialized' /\ ~wiped'
  <1>1. CASE NewPresence
    BY <1>1 DEF TypeOK, CheckCards, NewPresence, SetMedia
  <1>2. CASE ~NewPresence
    BY <1>2 DEF TypeOK, CheckCards, NewPresence
  <1> QED BY <1>1, <1>2

\* Every step keeps the strengthened invariant.
LEMMA AgreesStep ==
  TypeOK /\ StartFlags /\ MediaAgrees /\ [Next]_vars => StartFlags' /\ MediaAgrees'
  <1> SUFFICES ASSUME TypeOK, StartFlags, MediaAgrees, [Next]_vars
               PROVE  StartFlags' /\ MediaAgrees'
    OBVIOUS
  <1>1. ASSUME NEW c \in Card, InsertCard(c) PROVE StartFlags' /\ MediaAgrees'
    BY <1>1 DEF StartFlags, MediaAgrees, InStart, InsertCard, binding, flags, media
  <1>2. CASE RemoveCard
    BY <1>2 DEF StartFlags, MediaAgrees, InStart, RemoveCard, binding, flags, media
  <1>3. CASE Tick
    <2>1. pool /\ CheckCards /\ UNCHANGED <<binding, pc>>
      BY <1>3 DEF Tick
    <2>2. CASE Changed
      <3>1. torn' = Tearing
        BY <1>3, <2>2 DEF Tick
      <3>2. MediaPresent' = Initialized' /\ ~wiped'
        BY <2>1, <2>2, CheckCardsAgrees
      <3>3. TypeOK'
        BY TypeStep
      <3> QED BY <2>1, <3>1, <3>2, <3>3
              DEF TypeOK, StartFlags, MediaAgrees, InStart, Tearing, binding
    <2>3. CASE ~Changed
      <3>1. torn' = torn /\ UNCHANGED <<Initialized, media>>
        BY <1>3, <2>3 DEF Tick, CheckCards
      <3> QED BY <2>1, <3>1 DEF StartFlags, MediaAgrees, InStart, binding, media
    <2> QED BY <2>2, <2>3
  <1>4. CASE App
    <2>1. CASE ClearInitialized
      BY <2>1 DEF TypeOK, StartFlags, MediaAgrees, InStart, ClearInitialized, binding, media
    <2>2. CASE TestPresence
      BY <2>2 DEF TypeOK, StartFlags, MediaAgrees, InStart, TestPresence, binding, flags, media
    <2>3. CASE SetPresence
      BY <2>3 DEF TypeOK, StartFlags, MediaAgrees, InStart, SetPresence, NewPresence, binding
    <2>4. CASE ToggleInitialized
      BY <2>4 DEF TypeOK, StartFlags, MediaAgrees, InStart, ToggleInitialized, binding, media
    <2>5. CASE Identify
      BY <2>5 DEF TypeOK, StartFlags, MediaAgrees, InStart, Identify, binding, flags, media
    <2>6. CASE Describe
      BY <2>6 DEF TypeOK, StartFlags, MediaAgrees, InStart, Describe, SetMedia, binding, media
    <2> QED BY <1>4, <2>1, <2>2, <2>3, <2>4, <2>5, <2>6 DEF App
  <1>5. CASE Start
    BY <1>5 DEF TypeOK, StartFlags, MediaAgrees, InStart, Start, flags, media
  <1>6. CASE Stop
    BY <1>6 DEF StartFlags, MediaAgrees, InStart, Stop, flags, media
  <1>7. CASE Reset
    BY <1>7 DEF TypeOK, StartFlags, MediaAgrees, InStart, Reset, binding
  <1>8. CASE Request
    BY <1>8 DEF StartFlags, MediaAgrees, InStart, Request, binding, flags, media
  <1>9. CASE Transfer
    BY <1>9 DEF StartFlags, MediaAgrees, InStart, Transfer, binding, flags, media
  <1>10. CASE RequestDone
    BY <1>10 DEF StartFlags, MediaAgrees, InStart, RequestDone, binding, flags, media
  <1>11. CASE UNCHANGED vars
    BY <1>11 DEF StartFlags, MediaAgrees, InStart, vars, binding, media
  <1> QED BY <1>1, <1>2, <1>3, <1>4, <1>5, <1>6, <1>7, <1>8, <1>9, <1>10, <1>11 DEF Next

\* For any cards, and with ticks between any two steps of Start or of a client:
\* the card detection and the clients do not disagree about a card being there,
\* but for a Reset the timer has not seen, and after a change that was seen where
\* Start was between the two flags.
THEOREM CardsMediaAgrees == Spec => []MediaAgrees
  <1>1. Init => StartFlags /\ MediaAgrees
    BY DEF Init, StartFlags, MediaAgrees, InStart
  <1> QED BY <1>1, AgreesStep, CardsTypeOK, PTL DEF Spec

(***************************************************************************)
(* NamedMediaOnly rests on what the card that answers has to do with what  *)
(* the media say: the card selected is the one described, and the request  *)
(* named it.  Since Stop never gives the host back, Start runs once, when  *)
(* no card has been selected.                                              *)
(***************************************************************************)
SelectedDescribed ==
  /\ selected \in {NoCard, described}
  /\ ~bound => selected = NoCard /\ ~pool /\ ~InStart

RequestNamed ==
  /\ pc = "transfer" /\ ~request.interrupted => request.named = described
  /\ pc # "transfer" => request = NoRequest

Named == SelectedDescribed /\ RequestNamed /\ NamedMediaOnly

\* An identification selects the card it describes, or none, and leaves both
\* alone if nothing has changed in the slot.
LEMMA CheckCardsSelects ==
  ASSUME TypeOK, CheckCards, selected \in {NoCard, described}
  PROVE  /\ selected' \in {NoCard, described'}
         /\ ~Changed => selected' = selected /\ described' = described
  <1>1. CASE Changed /\ NewPresence
    BY <1>1 DEF CheckCards, IdentificationMode, SetMedia
  <1>2. CASE Changed /\ ~NewPresence
    BY <1>2 DEF CheckCards
  <1>3. CASE ~Changed
    BY <1>3 DEF CheckCards, media
  <1> QED BY <1>1, <1>2, <1>3

\* A step of Start, when no request runs.
LEMMA AppNamed ==
  ASSUME TypeOK, Named, App
  PROVE  Named'
  <1>1. request' = request /\ request = NoRequest /\ bound' = bound
    BY DEF App, Named, RequestNamed, ClearInitialized, TestPresence, SetPresence,
           ToggleInitialized, Identify, Describe, binding
  <1>2. pc' # "transfer"
    BY DEF App, ClearInitialized, TestPresence, SetPresence, ToggleInitialized,
           Identify, Describe
  <1>3. selected' \in {NoCard, described'}
    BY DEF App, Named, SelectedDescribed, ClearInitialized, TestPresence, SetPresence,
           ToggleInitialized, Identify, IdentificationMode, Describe, SetMedia, cards, flags, media
  <1>4. bound
    BY DEF App, Named, SelectedDescribed, InStart, ClearInitialized, TestPresence,
           SetPresence, ToggleInitialized, Identify, Describe
  <1> QED BY <1>1, <1>2, <1>3, <1>4 DEF Named, SelectedDescribed, RequestNamed,
                                        NamedMediaOnly, NoRequest

\* Every step keeps the strengthened invariant.
LEMMA NamedStep == TypeOK /\ Named /\ [Next]_vars => Named'
  <1> SUFFICES ASSUME TypeOK, Named, [Next]_vars PROVE Named'
    OBVIOUS
  <1> USE DEF Named, SelectedDescribed, RequestNamed, NamedMediaOnly, InStart
  <1>1. ASSUME NEW c \in Card, InsertCard(c) PROVE Named'
    BY <1>1 DEF InsertCard, binding, flags, media
  <1>2. CASE RemoveCard
    BY <1>2 DEF RemoveCard, binding, flags, media
  <1>3. CASE Tick
    <2>1. bound /\ CheckCards /\ UNCHANGED <<binding, pc>>
      BY <1>3 DEF Tick
    <2>2. /\ selected' \in {NoCard, described'}
          /\ ~Changed => selected' = selected /\ described' = described
      BY <2>1, CheckCardsSelects
    <2>3. CASE pc = "transfer" /\ Changed
      <3>1. request'.interrupted
        BY <1>3, <2>3 DEF Tick, TypeOK
      <3> QED BY <2>1, <2>2, <2>3, <3>1 DEF binding
    <2>4. CASE ~(pc = "transfer" /\ Changed)
      <3>1. request' = request
        BY <1>3, <2>4 DEF Tick
      <3> QED BY <2>1, <2>2, <2>4, <3>1 DEF binding
    <2> QED BY <2>3, <2>4
  <1>4. CASE App
    BY <1>4, AppNamed
  <1>5. CASE Start
    <2>1. selected' = NoCard /\ bound' /\ request' = request /\ pc' # "transfer"
      BY <1>5 DEF Start, cards
    <2>2. request = NoRequest
      BY <1>5 DEF Start
    <2> QED BY <2>1, <2>2 DEF NoRequest
  <1>6. CASE Stop
    BY <1>6 DEF Stop, cards, flags, media
  <1>7. CASE Reset
    <2>1. selected = NoCard
      BY <1>7 DEF Reset, CardIn, TypeOK
    <2> QED BY <1>7, <2>1 DEF Reset, cards, binding
  <1>8. CASE Request
    <2>1. request'.named = described /\ request'.reached = {}
      BY <1>8 DEF Request, NoRequest
    <2> QED BY <1>8, <2>1 DEF Request, cards, binding, flags, media
  <1>9. CASE Transfer
    <2>1. /\ request'.named = request.named
          /\ request'.interrupted = request.interrupted
          /\ request'.reached = request.reached \cup ({selected} \ {NoCard})
      BY <1>9 DEF Transfer, TypeOK
    <2>2. ~request.interrupted => {selected} \ {NoCard} \subseteq {request.named}
      BY <1>9 DEF Transfer
    <2> QED BY <1>9, <2>1, <2>2 DEF Transfer, cards, binding, flags, media
  <1>10. CASE RequestDone
    BY <1>10 DEF RequestDone, NoRequest, cards, binding, flags, media
  <1>11. CASE UNCHANGED vars
    BY <1>11 DEF vars, binding, flags, media
  <1> QED BY <1>1, <1>2, <1>3, <1>4, <1>5, <1>6, <1>7, <1>8, <1>9, <1>10, <1>11 DEF Next

\* Data never go to a card other than the one whose MediaId the request named, for
\* any cards and any interleaving with failed identifications, Start, Reset and
\* swaps, until the timer sees a change while the request runs.
THEOREM CardsNamedMediaOnly == Spec => []NamedMediaOnly
  <1>1. Init => Named
    BY DEF Init, Named, SelectedDescribed, RequestNamed, NamedMediaOnly, NoRequest, InStart
  <1>2. Named => NamedMediaOnly
    BY DEF Named
  <1> QED BY <1>1, <1>2, NamedStep, CardsTypeOK, PTL DEF Spec

(***************************************************************************)
(* Identification: what is known at each label of InitializeMmcDevice.     *)
(***************************************************************************)
Idle == {"hw", "cmd0", "idle", "cmd1"}

\* After the discovery, up to the selection of an SD or MMC card.
Unselected == {"ready", "cmd2", "ident", "cmd3", "stby", "cmd9", "cmd7"}

\* Of an SD card alone, and of an eMMC card alone.
OfSd == {"app", "acmd51", "scr", "ccc", "switch", "switched", "scr width",
         "cmd55 width", "acmd6", "ios", "ios4"}
OfEmmc == {"emmc cmd2", "emmc cmd3", "emmc cmd9", "emmc cmd7", "emmc ios", "ios1",
           "width 1", "in prg 1", "emmc cmd8", "ecsd", "in data"}
Faster == {"timing", "in prg timing", "ios8", "next mode", "width 8", "in prg 8"}

\* The last of both.
Ending == {"cmd16", "block count", "SUCCESS"}

\* What MmcNotifyState has told the host.
Informed == {"device", "cmd9", "cmd7", "cmd55 scr"} \cup OfSd \cup Faster \cup Ending

CardTypes ==
  /\ card \in [kind : Kinds, state : CardStates, app : BOOLEAN, width : {1, 4, 8},
               four : BOOLEAN]
  /\ host = [width |-> host.width, held |-> host.held]

SdTypes == {"SD_CARD", "SD_CARD_2", "SD_CARD_2_HIGH"}

\* The driver takes the card for what it is.
Fits ==
  IF card.kind \in SD
  THEN CardType \in SdTypes /\ (CardType = "SD_CARD_2_HIGH" <=> card.kind = "SDHC")
  ELSE (CardType = "EMMC_CARD" /\ card.kind = "EMMC") \/ CardType = "MMC_CARD"

\* CMD55 has been answered, and CMD8 if IsHCS.
Asked == card.kind \in SD /\ CardType = IF IsHCS THEN "SD_CARD_2" ELSE "SD_CARD"

Kind ==
  /\ label = "acmd41" => Asked
  /\ label = "cmd1 mmc" => CardType = "MMC_CARD"
  /\ label = "ocr" => \/ Asked /\ (card.kind = "SDHC" /\ card.state = "ready" => IsHCS)
                      \/ card.kind \notin SD /\ CardType = "MMC_CARD"
  /\ label \in Unselected \cup Informed \cup {"tran"} => Fits
  /\ label \in Unselected \cup {"cmd55 scr"} => CardType # "EMMC_CARD"
  /\ label \in OfSd => card.kind \in SD
  /\ label \in OfEmmc => card.kind = "EMMC"
  /\ label \in Faster => CardType = "EMMC_CARD"
  /\ label \in Ending => card.kind \in SD \/ CardType = "EMMC_CARD"
  /\ label # "cmd23"

CardState ==
  /\ label \in Idle => card.state = "idle"
  /\ label = "ocr1" => card.state \in {"idle", "ready"}
  /\ label \in {"ready", "cmd2", "emmc cmd2"} => card.state = "ready"
  /\ label \in {"ident", "cmd3", "emmc cmd3"} => card.state = "ident"
  /\ label \in {"stby", "cmd9", "cmd7", "emmc cmd9", "emmc cmd7"} => card.state = "stby"
  /\ label \in {"tran", "device"} =>
       card.state = IF CardType = "EMMC_CARD" THEN "tran" ELSE "stby"
  /\ label \in {"cmd55 scr", "timing", "ios8", "next mode", "width 8"} \cup Ending
       => card.state = "tran"
  /\ label \in OfSd =>
       card.state = IF label \in {"scr", "switched"} /\ ~HoldsData
                    THEN "data" ELSE "tran"

Described ==
  /\ label \in Informed => hostState = "Transfer"
  /\ label \in Informed \ {"device", "cmd9"} => sized
  /\ label \in {"tran", "device"} /\ CardType = "EMMC_CARD" => sized

Widths ==
  /\ label \notin {"ios", "ios4", "width 8", "in prg 8", "FAIL"} \cup Ending
       => host.width = 1 /\ card.width = 1
  /\ label \in {"ios", "ios4"} =>
       /\ host.width = 1 /\ card.kind \in SD
       /\ card.width = 4 \/ (card.width = 1 /\ ~card.four)
  /\ label = "width 8" => host.width = 8
  /\ label = "in prg 8" => host.width = 8 /\ card.width = 8
  /\ label \in Ending /\ HasSetIos
       => \/ host.width = card.width
          \/ host.width = 4 /\ card.width = 1 /\ card.kind \in SD /\ ~card.four

\* An application command follows CMD55, and what the host holds is the command whose
\* data are asked for.
Prefixed ==
  /\ label \in {"acmd41", "app", "acmd51", "acmd6"} => card.app
  /\ label \in {"ccc", "switch", "switched"} => ~card.app
  /\ HoldsData /\ label = "scr" => card.app /\ host.held = "ACMD51"
  /\ HoldsData /\ label = "switched" => host.held = "CMD6 switch"

\* Where every call succeeds, an eMMC card powers up at the first command, and a card
\* of a supported kind answers all that follow.
Smooth ==
  ~MayFail =>
    /\ card.kind = "EMMC" =>
         /\ label \notin Unselected \cup {"cmd5", "cmd8", "cmd55", "acmd41", "cmd1 mmc",
                                         "ocr", "retry", "cmd55 scr"}
         /\ label \in {"tran", "device"} => CardType = "EMMC_CARD"
         /\ label \in {"emmc ios", "ios1", "width 1", "emmc cmd8"} => card.state = "tran"
         /\ label = "ecsd" /\ ~HoldsData => card.state = "data"
    /\ label = "FAIL" /\ card.kind \in Good /\ Timeout > 0
         => HoldsData /\ card.kind = "EMMC"

IdentInv == /\ CardTypes /\ Kind /\ CardState /\ Described /\ Widths /\ Prefixed
            /\ Smooth

\* An identification fails when a call does, or when the card is none that it is for.
LEMMA Failing ==
  ASSUME CardTypes', UNCHANGED sort, label' = "FAIL",
         MayFail \/ card'.kind \notin Good \/ ~(Timeout' > 0)
           \/ (HoldsData /\ card'.kind = "EMMC")
  PROVE  IdentInv'
  BY DEF IdentInv, Kind, CardState, Described, Widths, Prefixed, Smooth, Idle, Unselected,
         OfSd, OfEmmc, Faster, Ending, Informed, MayFail, HoldsData

(***************************************************************************)
(* Identification: commands.                                               *)
(***************************************************************************)
\* What a card that answers does, and what the driver notes.
Replied(cmd, next) ==
  /\ next \in CardStates /\ Answers(card, cmd, next)
  /\ card'.kind = card.kind /\ card'.state = next /\ card'.app = (cmd = "CMD55")
  /\ card'.width = WidthAfter(card, cmd) /\ card'.four = card.four

\* The card answers and the driver goes on.
GoesOn(cmd, ok, next) ==
  /\ Replied(cmd, next) /\ Note(TRUE)
  /\ label' = ok /\ sized' = (sized \/ label = "cmd9")
  /\ CardTypes' /\ UNCHANGED <<host, hostState>>

\* It does not answer, or the command fails though it would.
Misses(cmd, fail) ==
  /\ label' = fail /\ Note(FALSE)
  /\ CardTypes' /\ UNCHANGED <<host, hostState, sized, card>>
  /\ MayFail \/ ~\E next \in CardStates : Answers(card, cmd, next)

\* A command that is sent is answered or not, or the answer does not arrive.
LEMMA Sent ==
  ASSUME CardTypes, UNCHANGED sort, NEW at, NEW cmd, NEW ok, NEW fail, label = at,
         SendCommand(Send(at, cmd, ok, fail))
  PROVE  (\E next : GoesOn(cmd, ok, next)) \/ Misses(cmd, fail) \/ IdentInv'
  <1> DEFINE r == Send(at, cmd, ok, fail)
  <1>1. r.arg = cmd /\ r.ok = ok /\ r.fail = fail
    BY DEF Send, Row
  <1> HIDE DEF r
  <1>2. UNCHANGED <<host, hostState>>
    BY DEF SendCommand, Note
  <1>3. CASE \E next \in CardStates :
               /\ Answers(card, cmd, next) /\ Does(cmd, next)
               /\ \/ label' = ok /\ Note(TRUE) /\ sized' = (sized \/ label = "cmd9")
                  \/ MayFail /\ label' = "FAIL" /\ Note(TRUE) /\ sized' = sized
    <2>1. PICK next \in CardStates :
            /\ Answers(card, cmd, next) /\ Does(cmd, next)
            /\ \/ label' = ok /\ Note(TRUE) /\ sized' = (sized \/ label = "cmd9")
               \/ MayFail /\ label' = "FAIL" /\ Note(TRUE) /\ sized' = sized
      BY <1>3
    <2>2. WidthAfter(card, cmd) \in {1, 4, 8}
      BY DEF CardTypes, WidthAfter
    <2>3. /\ card'.kind = card.kind /\ card'.state = next /\ card'.app = (cmd = "CMD55")
          /\ card'.width = WidthAfter(card, cmd) /\ card'.four = card.four
      BY <2>1 DEF CardTypes, Does
    <2>4. CardTypes'
      BY <1>2, <2>1, <2>2 DEF CardTypes, Does
    <2>5. MayFail /\ label' = "FAIL" => IdentInv'
      BY <2>4, Failing
    <2> QED BY <1>2, <2>1, <2>3, <2>4, <2>5 DEF Replied, GoesOn
  <1>4. CASE /\ \/ ~\E next \in CardStates : Answers(card, cmd, next)
                \/ MayFail
             /\ label' = fail /\ Note(FALSE) /\ sized' = sized /\ card' = card
    <2>1. CardTypes'
      BY <1>2, <1>4 DEF CardTypes
    <2> QED BY <1>2, <1>4, <2>1 DEF Misses, Answered
  <1>5. r = Send(at, cmd, ok, fail)
    BY DEF r
  <1> QED BY <1>1, <1>3, <1>4, <1>5 DEF SendCommand, To, Answered

\* The commands that a card answers, and what it does.
LEMMA Answering ==
  ASSUME NEW next
  PROVE  /\ Answers(card, "CMD0", next) <=> next = "idle"
         /\ Answers(card, "CMD1", next) <=>
              /\ card.kind \in {"MMC", "EMMC"}
              /\ \/ card.state = "idle" /\ next \in {"idle", "ready"}
                 \/ card.state = "ready" /\ next = "ready"
         /\ Answers(card, "CMD5", next) <=> card.kind = "SDIO" /\ next = card.state
         /\ Answers(card, "CMD8", next) <=>
              \/ card.kind \in {"SD2", "SDHC"} /\ card.state = "idle" /\ next = "idle"
              \/ card.kind = "EMMC" /\ card.state = "tran" /\ next = "data"
         /\ Answers(card, "CMD55", next) <=>
              card.kind \in SD /\ next = card.state
         /\ Answers(card, "ACMD41", next) <=>
              /\ card.app /\ card.state = "idle"
              /\ next = "idle" \/ (next = "ready" /\ (card.kind = "SDHC" => IsHCS))
         /\ Answers(card, "CMD2", next) <=> card.state = "ready" /\ next = "ident"
         /\ Answers(card, "CMD3", next) <=> card.state = "ident" /\ next = "stby"
         /\ Answers(card, "CMD9", next) <=> card.state = "stby" /\ next = "stby"
         /\ Answers(card, "CMD7", next) <=> card.state = "stby" /\ next = "tran"
         /\ Answers(card, "CMD16", next) <=> card.state = "tran" /\ next = "tran"
         /\ Answers(card, "ACMD51", next) <=>
              card.app /\ card.state = "tran" /\ next = "data"
         /\ Answers(card, "ACMD6", next) <=>
              card.app /\ card.state = "tran" /\ next = "tran"
         /\ Answers(card, "CMD6 switch", next) <=>
              card.kind \in SD /\ ~card.app /\ card.state = "tran" /\ next = "data"
         /\ \A cmd \in {"CMD6 1-bit", "CMD6 timing", "CMD6 8-bit"} :
              Answers(card, cmd, next) <=>
                card.kind = "EMMC" /\ card.state = "tran" /\ next = "prg"
         /\ ~Answers(card, "none", next)
  BY DEF Answers

\* The commands without data are not held back.
LEMMA NotHeld ==
  ASSUME NEW at, NEW cmd, NEW ok, NEW fail, cmd \notin {"ACMD51", "CMD6 switch"}
  PROVE  Send(at, cmd, ok, fail).arg \notin {"ACMD51", "CMD6 switch"}
  BY DEF Send, Row

\* The call of a row of each sort.
LEMMA SendCall ==
  ASSUME NEW at, NEW cmd, NEW ok, NEW fail
  PROVE  Send(at, cmd, ok, fail).call = "send"
  BY DEF Send, Row

LEMMA NotifyCall ==
  ASSUME NEW at, NEW state, NEW ok
  PROVE  Notify(at, state, ok).call = "notify"
  BY DEF Notify, Row

LEMMA ReadCall ==
  ASSUME NEW at, NEW ok
  PROVE  ReadData(at, ok).call = "read"
  BY DEF ReadData, Row

LEMMA IosCall ==
  ASSUME NEW at, NEW width, NEW ok, NEW fail
  PROVE  SetIos(at, width, ok, fail).call = "ios"
  BY DEF SetIos, Row

\* The commands of the discovery: the card is of the kind that its answers tell.
LEMMA ProbeSends ==
  ASSUME IdentInv, UNCHANGED sort, NEW r \in Probe, r.at = label, SendCommand(r)
  PROVE  IdentInv'
  <1>1. CardTypes
    BY DEF IdentInv
  <1>2. \/ r = Send("cmd0", "CMD0", "idle", "FAIL")
        \/ r = Send("cmd1", "CMD1", "ocr1", "cmd5")
        \/ r = Send("cmd5", "CMD5", "FAIL", "cmd8")
        \/ r = Send("cmd8", "CMD8", "cmd55", "cmd55")
        \/ r = Send("cmd55", "CMD55", "acmd41", "cmd1 mmc")
        \/ r = Send("acmd41", "ACMD41", "ocr", "retry")
        \/ r = Send("cmd1 mmc", "CMD1", "ocr", "retry")
    <2>1. r.call = "send"
      BY DEF SendCommand
    <2> QED BY <2>1, NotifyCall, ReadCall, IosCall DEF Probe
  <1> USE DEF Kind, Fits, Asked, SdTypes, CardState, Described, Widths, Prefixed,
              Smooth, Idle, Unselected, OfSd, OfEmmc, Faster, Ending, Informed, SD,
              Good, MayFail, HoldsData
  <1>3. CASE r = Send("cmd0", "CMD0", "idle", "FAIL")
    <2>1. label = "cmd0"
      BY <1>3 DEF Send, Row
    <2>2. ASSUME NEW next, GoesOn("CMD0", "idle", next)
          PROVE  IdentInv'
      <3>1. next = "idle"
        BY <2>1, <2>2, Answering DEF GoesOn, Replied
      <3> QED BY <2>1, <2>2, <3>1
              DEF IdentInv, GoesOn, Replied, Note, WidthAfter
    <2>3. ASSUME Misses("CMD0", "FAIL")
          PROVE  IdentInv'
      <3>1. MayFail \/ card.kind \notin Good
        BY <2>1, <2>3, Answering DEF IdentInv, CardTypes, Misses, CardStates
      <3> QED BY <2>3, <3>1, Failing DEF Misses
    <2> QED BY <1>1, <1>3, <2>1, <2>2, <2>3, Sent
  <1>4. CASE r = Send("cmd1", "CMD1", "ocr1", "cmd5")
    <2>1. label = "cmd1"
      BY <1>4 DEF Send, Row
    <2>2. ASSUME NEW next, GoesOn("CMD1", "ocr1", next)
          PROVE  IdentInv'
      <3>1. card.kind \in {"MMC", "EMMC"} /\ next \in {"idle", "ready"}
        BY <2>1, <2>2, Answering DEF GoesOn, Replied
      <3> QED BY <2>1, <2>2, <3>1
              DEF IdentInv, GoesOn, Replied, Note, WidthAfter
    <2>3. ASSUME Misses("CMD1", "cmd5")
          PROVE  IdentInv'
      <3>1. MayFail \/ card.kind # "EMMC"
        BY <2>1, <2>3, Answering DEF IdentInv, Misses, CardStates
      <3> QED BY <2>1, <2>3, <3>1 DEF IdentInv, Misses, Note
    <2> QED BY <1>1, <1>4, <2>1, <2>2, <2>3, Sent
  <1>5. CASE r = Send("cmd5", "CMD5", "FAIL", "cmd8")
    <2>1. label = "cmd5"
      BY <1>5 DEF Send, Row
    <2>2. ASSUME NEW next, GoesOn("CMD5", "FAIL", next)
          PROVE  IdentInv'
      BY <2>2, Answering, Failing DEF GoesOn, Replied
    <2>3. ASSUME Misses("CMD5", "cmd8")
          PROVE  IdentInv'
      BY <2>1, <2>3, Answering DEF IdentInv, Misses, Note, CardStates
    <2> QED BY <1>1, <1>5, <2>1, <2>2, <2>3, Sent
  <1>6. CASE r = Send("cmd8", "CMD8", "cmd55", "cmd55")
    <2>1. label = "cmd8"
      BY <1>6 DEF Send, Row
    <2>2. ASSUME NEW next, GoesOn("CMD8", "cmd55", next)
          PROVE  IdentInv'
      <3>1. next \in {"idle", "data"}
        BY <2>1, <2>2, Answering DEF GoesOn, Replied
      <3> QED BY <2>1, <2>2, <3>1
              DEF IdentInv, GoesOn, Replied, Note, WidthAfter
    <2>3. ASSUME Misses("CMD8", "cmd55")
          PROVE  IdentInv'
      BY <2>1, <2>3, Answering DEF IdentInv, Misses, Note, CardStates
    <2> QED BY <1>1, <1>6, <2>1, <2>2, <2>3, Sent
  <1>7. CASE r = Send("cmd55", "CMD55", "acmd41", "cmd1 mmc")
    <2>1. label = "cmd55"
      BY <1>7 DEF Send, Row
    <2>2. ASSUME NEW next, GoesOn("CMD55", "acmd41", next)
          PROVE  IdentInv'
      <3>1. card.kind \in SD /\ next = card.state
        BY <2>1, <2>2, Answering DEF GoesOn, Replied
      <3> QED BY <2>1, <2>2, <3>1
              DEF IdentInv, GoesOn, Replied, Note, WidthAfter
    <2>3. ASSUME Misses("CMD55", "cmd1 mmc")
          PROVE  IdentInv'
      BY <2>1, <2>3, Answering DEF IdentInv, Misses, Note, CardStates
    <2> QED BY <1>1, <1>7, <2>1, <2>2, <2>3, Sent
  <1>8. CASE r = Send("acmd41", "ACMD41", "ocr", "retry")
    <2>1. label = "acmd41"
      BY <1>8 DEF Send, Row
    <2>2. ASSUME NEW next, GoesOn("ACMD41", "ocr", next)
          PROVE  IdentInv'
      <3>1. (next = "ready" /\ card.kind = "SDHC" => IsHCS)
        BY <2>1, <2>2, Answering DEF GoesOn, Replied
      <3> QED BY <2>1, <2>2, <3>1
              DEF IdentInv, GoesOn, Replied, Note, WidthAfter
    <2>3. ASSUME Misses("ACMD41", "retry")
          PROVE  IdentInv'
      BY <2>1, <2>3, Answering DEF IdentInv, Misses, Note, CardStates
    <2> QED BY <1>1, <1>8, <2>1, <2>2, <2>3, Sent
  <1>9. CASE r = Send("cmd1 mmc", "CMD1", "ocr", "retry")
    <2>1. label = "cmd1 mmc"
      BY <1>9 DEF Send, Row
    <2>2. ASSUME NEW next, GoesOn("CMD1", "ocr", next)
          PROVE  IdentInv'
      <3>1. card.kind \in {"MMC", "EMMC"} /\ next \in {"idle", "ready"}
        BY <2>1, <2>2, Answering DEF GoesOn, Replied
      <3> QED BY <2>1, <2>2, <3>1
              DEF IdentInv, GoesOn, Replied, Note, WidthAfter
    <2>3. ASSUME Misses("CMD1", "retry")
          PROVE  IdentInv'
      BY <2>1, <2>3, Answering DEF IdentInv, Misses, Note, CardStates
    <2> QED BY <1>1, <1>9, <2>1, <2>2, <2>3, Sent
  <1> QED BY <1>2, <1>3, <1>4, <1>5, <1>6, <1>7, <1>8, <1>9

\* The commands for SD and MMC cards.
LEMMA SdMmcSends ==
  ASSUME IdentInv, UNCHANGED sort, NEW r \in SdMmc, r.at = label, SendCommand(r)
  PROVE  IdentInv'
  <1>1. CardTypes
    BY DEF IdentInv
  <1>2. \/ r = Send("cmd2", "CMD2", "ident", "FAIL")
        \/ r = Send("cmd3", "CMD3", "stby", "FAIL")
        \/ r = Send("cmd9", "CMD9", "cmd7", "FAIL")
        \/ r = Send("cmd7", "CMD7", "cmd55 scr", "FAIL")
        \/ r = Send("cmd55 scr", "CMD55", "app", "FAIL")
        \/ r = Send("acmd51", "ACMD51", "scr", "FAIL")
        \/ r = Send("switch", "CMD6 switch", "switched", "FAIL")
        \/ r = Send("cmd55 width", "CMD55", "acmd6", "FAIL")
        \/ r = Send("acmd6", "ACMD6", "ios", "FAIL")
        \/ r = Send("cmd16", "CMD16", "block count", "FAIL")
        \/ r = Send("cmd23", "CMD23", "SUCCESS", "FAIL")
    <2>1. r.call = "send"
      BY DEF SendCommand
    <2> QED BY <2>1, NotifyCall, ReadCall, IosCall DEF SdMmc
  <1> USE DEF Kind, Fits, Asked, SdTypes, CardState, Described, Widths, Prefixed,
              Smooth, Idle, Unselected, OfSd, OfEmmc, Faster, Ending, Informed, SD,
              Good, MayFail, HoldsData
  <1>3. CASE r = Send("cmd2", "CMD2", "ident", "FAIL")
    <2>1. label = "cmd2"
      BY <1>3 DEF Send, Row
    <2>2. ASSUME NEW next, GoesOn("CMD2", "ident", next)
          PROVE  IdentInv'
      <3>1. next = "ident"
        BY <2>1, <2>2, Answering DEF GoesOn, Replied
      <3> QED BY <2>1, <2>2, <3>1
              DEF IdentInv, GoesOn, Replied, Note, WidthAfter
    <2>3. ASSUME Misses("CMD2", "FAIL")
          PROVE  IdentInv'
      <3>1. MayFail \/ card.kind \notin Good
        BY <2>1, <2>3, Answering DEF IdentInv, CardTypes, Misses, CardStates
      <3> QED BY <2>3, <3>1, Failing DEF Misses
    <2> QED BY <1>1, <1>3, <2>1, <2>2, <2>3, Sent
  <1>4. CASE r = Send("cmd3", "CMD3", "stby", "FAIL")
    <2>1. label = "cmd3"
      BY <1>4 DEF Send, Row
    <2>2. ASSUME NEW next, GoesOn("CMD3", "stby", next)
          PROVE  IdentInv'
      <3>1. next = "stby"
        BY <2>1, <2>2, Answering DEF GoesOn, Replied
      <3> QED BY <2>1, <2>2, <3>1
              DEF IdentInv, GoesOn, Replied, Note, WidthAfter
    <2>3. ASSUME Misses("CMD3", "FAIL")
          PROVE  IdentInv'
      <3>1. MayFail \/ card.kind \notin Good
        BY <2>1, <2>3, Answering DEF IdentInv, CardTypes, Misses, CardStates
      <3> QED BY <2>3, <3>1, Failing DEF Misses
    <2> QED BY <1>1, <1>4, <2>1, <2>2, <2>3, Sent
  <1>5. CASE r = Send("cmd9", "CMD9", "cmd7", "FAIL")
    <2>1. label = "cmd9"
      BY <1>5 DEF Send, Row
    <2>2. ASSUME NEW next, GoesOn("CMD9", "cmd7", next)
          PROVE  IdentInv'
      <3>1. next = "stby"
        BY <2>1, <2>2, Answering DEF GoesOn, Replied
      <3> QED BY <2>1, <2>2, <3>1
              DEF IdentInv, GoesOn, Replied, Note, WidthAfter
    <2>3. ASSUME Misses("CMD9", "FAIL")
          PROVE  IdentInv'
      <3>1. MayFail \/ card.kind \notin Good
        BY <2>1, <2>3, Answering DEF IdentInv, CardTypes, Misses, CardStates
      <3> QED BY <2>3, <3>1, Failing DEF Misses
    <2> QED BY <1>1, <1>5, <2>1, <2>2, <2>3, Sent
  <1>6. CASE r = Send("cmd7", "CMD7", "cmd55 scr", "FAIL")
    <2>1. label = "cmd7"
      BY <1>6 DEF Send, Row
    <2>2. ASSUME NEW next, GoesOn("CMD7", "cmd55 scr", next)
          PROVE  IdentInv'
      <3>1. next = "tran"
        BY <2>1, <2>2, Answering DEF GoesOn, Replied
      <3> QED BY <2>1, <2>2, <3>1
              DEF IdentInv, GoesOn, Replied, Note, WidthAfter
    <2>3. ASSUME Misses("CMD7", "FAIL")
          PROVE  IdentInv'
      <3>1. MayFail \/ card.kind \notin Good
        BY <2>1, <2>3, Answering DEF IdentInv, CardTypes, Misses, CardStates
      <3> QED BY <2>3, <3>1, Failing DEF Misses
    <2> QED BY <1>1, <1>6, <2>1, <2>2, <2>3, Sent
  <1>7. CASE r = Send("cmd55 scr", "CMD55", "app", "FAIL")
    <2>1. label = "cmd55 scr"
      BY <1>7 DEF Send, Row
    <2>2. ASSUME NEW next, GoesOn("CMD55", "app", next)
          PROVE  IdentInv'
      <3>1. card.kind \in SD /\ next = "tran"
        BY <2>1, <2>2, Answering DEF IdentInv, GoesOn, Replied
      <3>2. Kind'
        BY <2>1, <2>2, <3>1 DEF IdentInv, GoesOn, Replied, Note, WidthAfter
      <3>3. CardState'
        BY <2>1, <2>2, <3>1 DEF IdentInv, GoesOn, Replied, Note, WidthAfter
      <3>4. Described' /\ Widths' /\ Prefixed' /\ Smooth'
        BY <2>1, <2>2, <3>1 DEF IdentInv, GoesOn, Replied, Note, WidthAfter
      <3> QED BY <2>2, <3>2, <3>3, <3>4 DEF IdentInv, GoesOn
    <2>3. ASSUME Misses("CMD55", "FAIL")
          PROVE  IdentInv'
      <3>1. MayFail \/ card.kind \notin Good
        BY <2>1, <2>3, Answering DEF IdentInv, CardTypes, Misses, CardStates
      <3> QED BY <2>3, <3>1, Failing DEF Misses
    <2> QED BY <1>1, <1>7, <2>1, <2>2, <2>3, Sent
  <1>8. CASE r = Send("acmd51", "ACMD51", "scr", "FAIL")
    <2>1. label = "acmd51" /\ ~HoldsData
      BY <1>8 DEF Send, Row, SendCommand, Held
    <2>2. ASSUME NEW next, GoesOn("ACMD51", "scr", next)
          PROVE  IdentInv'
      <3>1. card.app /\ next = "data"
        BY <2>1, <2>2, Answering DEF GoesOn, Replied
      <3> QED BY <2>1, <2>2, <3>1
              DEF IdentInv, GoesOn, Replied, Note, WidthAfter
    <2>3. ASSUME Misses("ACMD51", "FAIL")
          PROVE  IdentInv'
      <3>1. MayFail \/ card.kind \notin Good
        BY <2>1, <2>3, Answering DEF IdentInv, CardTypes, Misses, CardStates
      <3> QED BY <2>3, <3>1, Failing DEF Misses
    <2> QED BY <1>1, <1>8, <2>1, <2>2, <2>3, Sent
  <1>9. CASE r = Send("switch", "CMD6 switch", "switched", "FAIL")
    <2>1. label = "switch" /\ ~HoldsData
      BY <1>9 DEF Send, Row, SendCommand, Held
    <2>2. ASSUME NEW next, GoesOn("CMD6 switch", "switched", next)
          PROVE  IdentInv'
      <3>1. next = "data"
        BY <2>1, <2>2, Answering DEF GoesOn, Replied
      <3> QED BY <2>1, <2>2, <3>1
              DEF IdentInv, GoesOn, Replied, Note, WidthAfter
    <2>3. ASSUME Misses("CMD6 switch", "FAIL")
          PROVE  IdentInv'
      <3>1. MayFail \/ card.kind \notin Good
        BY <2>1, <2>3, Answering DEF IdentInv, CardTypes, Misses, CardStates
      <3> QED BY <2>3, <3>1, Failing DEF Misses
    <2> QED BY <1>1, <1>9, <2>1, <2>2, <2>3, Sent
  <1>10. CASE r = Send("cmd55 width", "CMD55", "acmd6", "FAIL")
    <2>1. label = "cmd55 width"
      BY <1>10 DEF Send, Row
    <2>2. ASSUME NEW next, GoesOn("CMD55", "acmd6", next)
          PROVE  IdentInv'
      <3>1. card.kind \in SD /\ next = "tran"
        BY <2>1, <2>2, Answering DEF IdentInv, GoesOn, Replied
      <3>2. Kind'
        BY <2>1, <2>2, <3>1 DEF IdentInv, GoesOn, Replied, Note, WidthAfter
      <3>3. CardState'
        BY <2>1, <2>2, <3>1 DEF IdentInv, GoesOn, Replied, Note, WidthAfter
      <3>4. Described' /\ Widths' /\ Prefixed' /\ Smooth'
        BY <2>1, <2>2, <3>1 DEF IdentInv, GoesOn, Replied, Note, WidthAfter
      <3> QED BY <2>2, <3>2, <3>3, <3>4 DEF IdentInv, GoesOn
    <2>3. ASSUME Misses("CMD55", "FAIL")
          PROVE  IdentInv'
      <3>1. MayFail \/ card.kind \notin Good
        BY <2>1, <2>3, Answering DEF IdentInv, CardTypes, Misses, CardStates
      <3> QED BY <2>3, <3>1, Failing DEF Misses
    <2> QED BY <1>1, <1>10, <2>1, <2>2, <2>3, Sent
  <1>11. CASE r = Send("acmd6", "ACMD6", "ios", "FAIL")
    <2>1. label = "acmd6"
      BY <1>11 DEF Send, Row
    <2>2. ASSUME NEW next, GoesOn("ACMD6", "ios", next)
          PROVE  IdentInv'
      <3>1. next = "tran"
        BY <2>1, <2>2, Answering DEF GoesOn, Replied
      <3> QED BY <2>1, <2>2, <3>1
              DEF IdentInv, GoesOn, Replied, Note, WidthAfter
    <2>3. ASSUME Misses("ACMD6", "FAIL")
          PROVE  IdentInv'
      <3>1. MayFail \/ card.kind \notin Good
        BY <2>1, <2>3, Answering DEF IdentInv, CardTypes, Misses, CardStates
      <3> QED BY <2>3, <3>1, Failing DEF Misses
    <2> QED BY <1>1, <1>11, <2>1, <2>2, <2>3, Sent
  <1>12. CASE r = Send("cmd16", "CMD16", "block count", "FAIL")
    <2>1. label = "cmd16"
      BY <1>12 DEF Send, Row
    <2>2. ASSUME NEW next, GoesOn("CMD16", "block count", next)
          PROVE  IdentInv'
      <3>1. next = "tran"
        BY <2>1, <2>2, Answering DEF GoesOn, Replied
      <3> QED BY <2>1, <2>2, <3>1
              DEF IdentInv, GoesOn, Replied, Note, WidthAfter
    <2>3. ASSUME Misses("CMD16", "FAIL")
          PROVE  IdentInv'
      <3>1. MayFail \/ card.kind \notin Good
        BY <2>1, <2>3, Answering DEF IdentInv, CardTypes, Misses, CardStates
      <3> QED BY <2>3, <3>1, Failing DEF Misses
    <2> QED BY <1>1, <1>12, <2>1, <2>2, <2>3, Sent
  <1>13. CASE r = Send("cmd23", "CMD23", "SUCCESS", "FAIL")
    <2>1. label = "cmd23"
      BY <1>13 DEF Send, Row
    <2> QED BY <2>1 DEF IdentInv
  <1> QED BY <1>2, <1>3, <1>4, <1>5, <1>6, <1>7, <1>8, <1>9, <1>10, <1>11, <1>12, <1>13

\* The commands for eMMC cards.
LEMMA EmmcSends ==
  ASSUME IdentInv, UNCHANGED sort, NEW r \in Emmc, r.at = label, SendCommand(r)
  PROVE  IdentInv'
  <1>1. CardTypes
    BY DEF IdentInv
  <1>2. \/ r = Send("emmc cmd2", "CMD2", "emmc cmd3", "FAIL")
        \/ r = Send("emmc cmd3", "CMD3", "emmc cmd9", "FAIL")
        \/ r = Send("emmc cmd9", "CMD9", "emmc cmd7", "FAIL")
        \/ r = Send("emmc cmd7", "CMD7", "emmc ios", "emmc ios")
        \/ r = Send("width 1", "CMD6 1-bit", "in prg 1", "FAIL")
        \/ r = Send("emmc cmd8", "CMD8", "ecsd", "ecsd")
        \/ r = Send("timing", "CMD6 timing", "in prg timing", "FAIL")
        \/ r = Send("width 8", "CMD6 8-bit", "in prg 8", "FAIL")
    <2>1. r.call = "send"
      BY DEF SendCommand
    <2> QED BY <2>1, NotifyCall, ReadCall, IosCall DEF Emmc
  <1> USE DEF Kind, Fits, Asked, SdTypes, CardState, Described, Widths, Prefixed,
              Smooth, Idle, Unselected, OfSd, OfEmmc, Faster, Ending, Informed, SD,
              Good, MayFail, HoldsData
  <1>3. CASE r = Send("emmc cmd2", "CMD2", "emmc cmd3", "FAIL")
    <2>1. label = "emmc cmd2"
      BY <1>3 DEF Send, Row
    <2>2. ASSUME NEW next, GoesOn("CMD2", "emmc cmd3", next)
          PROVE  IdentInv'
      <3>1. next = "ident"
        BY <2>1, <2>2, Answering DEF GoesOn, Replied
      <3> QED BY <2>1, <2>2, <3>1
              DEF IdentInv, GoesOn, Replied, Note, WidthAfter
    <2>3. ASSUME Misses("CMD2", "FAIL")
          PROVE  IdentInv'
      <3>1. MayFail \/ card.kind \notin Good
        BY <2>1, <2>3, Answering DEF IdentInv, CardTypes, Misses, CardStates
      <3> QED BY <2>3, <3>1, Failing DEF Misses
    <2> QED BY <1>1, <1>3, <2>1, <2>2, <2>3, Sent
  <1>4. CASE r = Send("emmc cmd3", "CMD3", "emmc cmd9", "FAIL")
    <2>1. label = "emmc cmd3"
      BY <1>4 DEF Send, Row
    <2>2. ASSUME NEW next, GoesOn("CMD3", "emmc cmd9", next)
          PROVE  IdentInv'
      <3>1. next = "stby"
        BY <2>1, <2>2, Answering DEF GoesOn, Replied
      <3> QED BY <2>1, <2>2, <3>1
              DEF IdentInv, GoesOn, Replied, Note, WidthAfter
    <2>3. ASSUME Misses("CMD3", "FAIL")
          PROVE  IdentInv'
      <3>1. MayFail \/ card.kind \notin Good
        BY <2>1, <2>3, Answering DEF IdentInv, CardTypes, Misses, CardStates
      <3> QED BY <2>3, <3>1, Failing DEF Misses
    <2> QED BY <1>1, <1>4, <2>1, <2>2, <2>3, Sent
  <1>5. CASE r = Send("emmc cmd9", "CMD9", "emmc cmd7", "FAIL")
    <2>1. label = "emmc cmd9"
      BY <1>5 DEF Send, Row
    <2>2. ASSUME NEW next, GoesOn("CMD9", "emmc cmd7", next)
          PROVE  IdentInv'
      <3>1. next = "stby"
        BY <2>1, <2>2, Answering DEF GoesOn, Replied
      <3> QED BY <2>1, <2>2, <3>1
              DEF IdentInv, GoesOn, Replied, Note, WidthAfter
    <2>3. ASSUME Misses("CMD9", "FAIL")
          PROVE  IdentInv'
      <3>1. MayFail \/ card.kind \notin Good
        BY <2>1, <2>3, Answering DEF IdentInv, CardTypes, Misses, CardStates
      <3> QED BY <2>3, <3>1, Failing DEF Misses
    <2> QED BY <1>1, <1>5, <2>1, <2>2, <2>3, Sent
  <1>6. CASE r = Send("emmc cmd7", "CMD7", "emmc ios", "emmc ios")
    <2>1. label = "emmc cmd7"
      BY <1>6 DEF Send, Row
    <2>2. ASSUME NEW next, GoesOn("CMD7", "emmc ios", next)
          PROVE  IdentInv'
      <3>1. next = "tran"
        BY <2>1, <2>2, Answering DEF GoesOn, Replied
      <3> QED BY <2>1, <2>2, <3>1
              DEF IdentInv, GoesOn, Replied, Note, WidthAfter
    <2>3. ASSUME Misses("CMD7", "emmc ios")
          PROVE  IdentInv'
      <3>1. MayFail
        BY <2>1, <2>3, Answering DEF IdentInv, Misses, CardStates
      <3> QED BY <2>1, <2>3, <3>1 DEF IdentInv, Misses, Note
    <2> QED BY <1>1, <1>6, <2>1, <2>2, <2>3, Sent
  <1>7. CASE r = Send("width 1", "CMD6 1-bit", "in prg 1", "FAIL")
    <2>1. label = "width 1"
      BY <1>7 DEF Send, Row
    <2>2. ASSUME NEW next, GoesOn("CMD6 1-bit", "in prg 1", next)
          PROVE  IdentInv'
      <3>1. next = "prg"
        BY <2>1, <2>2, Answering DEF GoesOn, Replied
      <3> QED BY <2>1, <2>2, <3>1
              DEF IdentInv, GoesOn, Replied, Note, WidthAfter
    <2>3. ASSUME Misses("CMD6 1-bit", "FAIL")
          PROVE  IdentInv'
      <3>1. MayFail \/ card.kind \notin Good
        BY <2>1, <2>3, Answering DEF IdentInv, CardTypes, Misses, CardStates
      <3> QED BY <2>3, <3>1, Failing DEF Misses
    <2> QED BY <1>1, <1>7, <2>1, <2>2, <2>3, Sent
  <1>8. CASE r = Send("emmc cmd8", "CMD8", "ecsd", "ecsd")
    <2>1. label = "emmc cmd8"
      BY <1>8 DEF Send, Row
    <2>2. ASSUME NEW next, GoesOn("CMD8", "ecsd", next)
          PROVE  IdentInv'
      <3>1. next = "data"
        BY <2>1, <2>2, Answering DEF IdentInv, GoesOn, Replied
      <3> QED BY <2>1, <2>2, <3>1
              DEF IdentInv, GoesOn, Replied, Note, WidthAfter
    <2>3. ASSUME Misses("CMD8", "ecsd")
          PROVE  IdentInv'
      <3>1. MayFail
        BY <2>1, <2>3, Answering DEF IdentInv, Misses, CardStates
      <3> QED BY <2>1, <2>3, <3>1 DEF IdentInv, Misses, Note
    <2> QED BY <1>1, <1>8, <2>1, <2>2, <2>3, Sent
  <1>9. CASE r = Send("timing", "CMD6 timing", "in prg timing", "FAIL")
    <2>1. label = "timing"
      BY <1>9 DEF Send, Row
    <2>2. ASSUME NEW next, GoesOn("CMD6 timing", "in prg timing", next)
          PROVE  IdentInv'
      <3>1. next = "prg"
        BY <2>1, <2>2, Answering DEF GoesOn, Replied
      <3> QED BY <2>1, <2>2, <3>1
              DEF IdentInv, GoesOn, Replied, Note, WidthAfter
    <2>3. ASSUME Misses("CMD6 timing", "FAIL")
          PROVE  IdentInv'
      <3>1. MayFail \/ card.kind \notin Good
        BY <2>1, <2>3, Answering DEF IdentInv, CardTypes, Misses, CardStates
      <3> QED BY <2>3, <3>1, Failing DEF Misses
    <2> QED BY <1>1, <1>9, <2>1, <2>2, <2>3, Sent
  <1>10. CASE r = Send("width 8", "CMD6 8-bit", "in prg 8", "FAIL")
    <2>1. label = "width 8"
      BY <1>10 DEF Send, Row
    <2>2. ASSUME NEW next, GoesOn("CMD6 8-bit", "in prg 8", next)
          PROVE  IdentInv'
      <3>1. next = "prg"
        BY <2>1, <2>2, Answering DEF GoesOn, Replied
      <3> QED BY <2>1, <2>2, <3>1
              DEF IdentInv, GoesOn, Replied, Note, WidthAfter
    <2>3. ASSUME Misses("CMD6 8-bit", "FAIL")
          PROVE  IdentInv'
      <3>1. MayFail \/ card.kind \notin Good
        BY <2>1, <2>3, Answering DEF IdentInv, CardTypes, Misses, CardStates
      <3> QED BY <2>3, <3>1, Failing DEF Misses
    <2> QED BY <1>1, <1>10, <2>1, <2>2, <2>3, Sent
  <1> QED BY <1>2, <1>3, <1>4, <1>5, <1>6, <1>7, <1>8, <1>9, <1>10

\* MmcNotifyState changes the state of the instance, then tells the host.
LEMMA Told ==
  ASSUME CardTypes, NEW at, NEW state, NEW ok, label = at,
         NotifyState(Notify(at, state, ok))
  PROVE  /\ CardTypes' /\ UNCHANGED <<Timeout, IsHCS, CardType, sized, host, card>>
         /\ hostState' = IF at = "ident" THEN hostState ELSE state
         /\ label' = ok \/ (MayFail /\ label' = "FAIL")
  BY DEF NotifyState, Notify, Row, To, CardTypes

\* The six notifications.
LEMMA NotifySteps ==
  ASSUME IdentInv, UNCHANGED sort, NEW r \in Program, r.at = label,
         NotifyState(r)
  PROVE  IdentInv'
  <1>0. CardTypes
    BY DEF IdentInv
  <1>1. \/ r = Notify("hw", "HwInit", "cmd0")
        \/ r = Notify("idle", "Idle", "cmd1")
        \/ r = Notify("ready", "Ready", "cmd2")
        \/ r = Notify("ident", "Identification", "cmd3")
        \/ r = Notify("stby", "StandBy", "tran")
        \/ r = Notify("tran", "Transfer", "device")
    <2>1. r.call = "notify"
      BY DEF NotifyState
    <2> QED BY <2>1, SendCall, NotifyCall, ReadCall, IosCall
            DEF Program, Rows, Probe, SdMmc, Emmc
  <1> USE DEF Kind, Fits, Asked, SdTypes, CardState, Described, Widths, Prefixed,
              Smooth, Idle, Unselected, OfSd, OfEmmc, Faster, Ending, Informed, SD,
              Good, MayFail, HoldsData
  <1>2. CASE r = Notify("hw", "HwInit", "cmd0")
    <2>1. label = "hw"
      BY <1>2 DEF Notify, Row
    <2>2. NotifyState(Notify("hw", "HwInit", "cmd0"))
      BY <1>2
    <2>3. /\ CardTypes' /\ UNCHANGED <<Timeout, IsHCS, CardType, sized, host, card>>
          /\ hostState' = "HwInit"
          /\ label' = "cmd0" \/ (MayFail /\ label' = "FAIL")
      BY <1>0, <2>1, <2>2, Told
    <2>4. label' = "cmd0" => IdentInv'
      BY <2>1, <2>3 DEF IdentInv
    <2>5. MayFail /\ label' = "FAIL" => IdentInv'
      BY <2>3, Failing
    <2> QED BY <2>3, <2>4, <2>5
  <1>3. CASE r = Notify("idle", "Idle", "cmd1")
    <2>1. label = "idle"
      BY <1>3 DEF Notify, Row
    <2>2. NotifyState(Notify("idle", "Idle", "cmd1"))
      BY <1>3
    <2>3. /\ CardTypes' /\ UNCHANGED <<Timeout, IsHCS, CardType, sized, host, card>>
          /\ hostState' = "Idle"
          /\ label' = "cmd1" \/ (MayFail /\ label' = "FAIL")
      BY <1>0, <2>1, <2>2, Told
    <2>4. label' = "cmd1" => IdentInv'
      BY <2>1, <2>3 DEF IdentInv
    <2>5. MayFail /\ label' = "FAIL" => IdentInv'
      BY <2>3, Failing
    <2> QED BY <2>3, <2>4, <2>5
  <1>4. CASE r = Notify("ready", "Ready", "cmd2")
    <2>1. label = "ready"
      BY <1>4 DEF Notify, Row
    <2>2. NotifyState(Notify("ready", "Ready", "cmd2"))
      BY <1>4
    <2>3. /\ CardTypes' /\ UNCHANGED <<Timeout, IsHCS, CardType, sized, host, card>>
          /\ hostState' = "Ready"
          /\ label' = "cmd2" \/ (MayFail /\ label' = "FAIL")
      BY <1>0, <2>1, <2>2, Told
    <2>4. label' = "cmd2" => IdentInv'
      BY <2>1, <2>3 DEF IdentInv
    <2>5. MayFail /\ label' = "FAIL" => IdentInv'
      BY <2>3, Failing
    <2> QED BY <2>3, <2>4, <2>5
  <1>5. CASE r = Notify("ident", "Identification", "cmd3")
    <2>1. label = "ident"
      BY <1>5 DEF Notify, Row
    <2>2. NotifyState(Notify("ident", "Identification", "cmd3"))
      BY <1>5
    <2>3. /\ CardTypes' /\ UNCHANGED <<Timeout, IsHCS, CardType, sized, host, card>>
          /\ hostState' = hostState
          /\ label' = "cmd3" \/ (MayFail /\ label' = "FAIL")
      BY <1>0, <2>1, <2>2, Told
    <2>4. label' = "cmd3" => IdentInv'
      BY <2>1, <2>3 DEF IdentInv
    <2>5. MayFail /\ label' = "FAIL" => IdentInv'
      BY <2>3, Failing
    <2> QED BY <2>3, <2>4, <2>5
  <1>6. CASE r = Notify("stby", "StandBy", "tran")
    <2>1. label = "stby"
      BY <1>6 DEF Notify, Row
    <2>2. NotifyState(Notify("stby", "StandBy", "tran"))
      BY <1>6
    <2>3. /\ CardTypes' /\ UNCHANGED <<Timeout, IsHCS, CardType, sized, host, card>>
          /\ hostState' = "StandBy"
          /\ label' = "tran" \/ (MayFail /\ label' = "FAIL")
      BY <1>0, <2>1, <2>2, Told
    <2>4. label' = "tran" => IdentInv'
      BY <2>1, <2>3 DEF IdentInv
    <2>5. MayFail /\ label' = "FAIL" => IdentInv'
      BY <2>3, Failing
    <2> QED BY <2>3, <2>4, <2>5
  <1>7. CASE r = Notify("tran", "Transfer", "device")
    <2>1. label = "tran"
      BY <1>7 DEF Notify, Row
    <2>2. NotifyState(Notify("tran", "Transfer", "device"))
      BY <1>7
    <2>3. /\ CardTypes' /\ UNCHANGED <<Timeout, IsHCS, CardType, sized, host, card>>
          /\ hostState' = "Transfer"
          /\ label' = "device" \/ (MayFail /\ label' = "FAIL")
      BY <1>0, <2>1, <2>2, Told
    <2>4. label' = "device" => IdentInv'
      BY <2>1, <2>3 DEF IdentInv
    <2>5. MayFail /\ label' = "FAIL" => IdentInv'
      BY <2>3, Failing
    <2> QED BY <2>3, <2>4, <2>5
  <1> QED BY <1>1, <1>2, <1>3, <1>4, <1>5, <1>6, <1>7

\* A host that holds commands back holds the one of this label.
LEMMA HoldSteps ==
  ASSUME IdentInv, UNCHANGED sort, NEW r \in Program, r.at = label,
         HoldCommand(r)
  PROVE  IdentInv'
  <1>1. \/ r = Send("acmd51", "ACMD51", "scr", "FAIL")
        \/ r = Send("switch", "CMD6 switch", "switched", "FAIL")
    <2>1. r.call = "send" /\ r.arg \in {"ACMD51", "CMD6 switch"}
      BY DEF HoldCommand, Held
    <2>2. r \notin Probe
      BY <2>1, NotHeld, NotifyCall DEF Probe
    <2>3. r \notin Emmc
      BY <2>1, NotHeld, IosCall, ReadCall DEF Emmc
    <2>4. r \in SdMmc
      BY <2>2, <2>3 DEF Program, Rows
    <2> QED BY <2>1, <2>4, NotHeld, NotifyCall, ReadCall, IosCall DEF SdMmc
  <1>2. /\ HoldsData
        /\ \/ /\ label = "acmd51" /\ label' = "scr"
              /\ host' = [host EXCEPT !.held = "ACMD51"]
           \/ /\ label = "switch" /\ label' = "switched"
              /\ host' = [host EXCEPT !.held = "CMD6 switch"]
        /\ UNCHANGED <<Timeout, IsHCS, CardType, hostState, sized, card>>
    <2>1. CASE r = Send("acmd51", "ACMD51", "scr", "FAIL")
      <3>1. r.at = "acmd51" /\ r.arg = "ACMD51" /\ r.ok = "scr"
        BY <2>1 DEF Send, Row
      <3> QED BY <3>1 DEF HoldCommand, Held, To
    <2>2. CASE r = Send("switch", "CMD6 switch", "switched", "FAIL")
      <3>1. r.at = "switch" /\ r.arg = "CMD6 switch" /\ r.ok = "switched"
        BY <2>2 DEF Send, Row
      <3> QED BY <3>1 DEF HoldCommand, Held, To
    <2> QED BY <1>1, <2>1, <2>2
  <1> USE DEF Kind, Fits, Asked, SdTypes, CardState, Described, Widths, Prefixed,
              Smooth, Idle, Unselected, OfSd, OfEmmc, Faster, Ending, Informed, SD,
              Good, MayFail, HoldsData
  <1>3. /\ CardTypes' /\ host'.width = host.width
        /\ host'.held = IF label = "acmd51" THEN "ACMD51" ELSE "CMD6 switch"
    BY <1>2 DEF IdentInv, CardTypes
  <1>4. Kind' /\ Described' /\ Smooth'
    BY <1>2, <1>3 DEF IdentInv
  <1>5. CardState' /\ Widths' /\ Prefixed'
    BY <1>2, <1>3 DEF IdentInv
  <1> QED BY <1>3, <1>4, <1>5 DEF IdentInv

\* Data that are asked for come from a card that has them to send.
LEMMA ReadSteps ==
  ASSUME IdentInv, UNCHANGED sort, NEW r \in Program, r.at = label,
         ReadBlockData(r)
  PROVE  IdentInv'
  <1>1. \/ r = ReadData("scr", "ccc") \/ r = ReadData("switched", "scr width")
        \/ r = ReadData("ecsd", "in data")
    <2>1. r.call = "read"
      BY DEF ReadBlockData
    <2> QED BY <2>1, SendCall, NotifyCall, ReadCall, IosCall
            DEF Program, Rows, Probe, SdMmc, Emmc
  <1>2. /\ r.fail = "FAIL"
        /\ \/ label = "scr" /\ r.ok = "ccc"
           \/ label = "switched" /\ r.ok = "scr width"
           \/ label = "ecsd" /\ r.ok = "in data"
    <2>1. CASE r = ReadData("scr", "ccc")
      BY <2>1 DEF ReadData, Row
    <2>2. CASE r = ReadData("switched", "scr width")
      BY <2>2 DEF ReadData, Row
    <2>3. CASE r = ReadData("ecsd", "in data")
      BY <2>3 DEF ReadData, Row
    <2> QED BY <1>1, <2>1, <2>2, <2>3
  <1> DEFINE sends == IF HoldsData THEN Answers(card, host.held, "data")
                      ELSE card.state = "data"
  <1>3. /\ UNCHANGED <<Timeout, IsHCS, CardType, hostState, sized, host>>
        /\ \/ /\ label' = r.ok
              /\ card' = [card EXCEPT !.app = FALSE,
                                      !.state = IF card.kind = "EMMC" THEN "data" ELSE "tran"]
           \/ label' = "FAIL" /\ card' = card /\ (~sends \/ MayFail)
    BY <1>2 DEF ReadBlockData, To
  <1> USE DEF Kind, Fits, Asked, SdTypes, CardState, Described, Widths, Prefixed,
              Smooth, Idle, Unselected, OfSd, OfEmmc, Faster, Ending, Informed, SD,
              Good, MayFail, HoldsData
  <1>4. CASE /\ label' = r.ok
             /\ card' = [card EXCEPT !.app = FALSE,
                                     !.state = IF card.kind = "EMMC" THEN "data" ELSE "tran"]
    <2>1. /\ card'.kind = card.kind /\ card'.app = FALSE /\ card'.width = card.width
          /\ card'.state = IF card.kind = "EMMC" THEN "data" ELSE "tran"
          /\ card'.four = card.four
      BY <1>4 DEF IdentInv, CardTypes
    <2>2. CardTypes'
      <3>1. card' = [kind |-> card'.kind, state |-> card'.state, app |-> card'.app,
                     width |-> card'.width, four |-> card'.four]
        BY <1>4 DEF IdentInv, CardTypes
      <3> QED BY <1>3, <2>1, <3>1 DEF IdentInv, CardTypes, CardStates
    <2>3. Kind' /\ CardState' /\ Described'
      BY <1>2, <1>3, <1>4, <2>1 DEF IdentInv
    <2>4. Widths' /\ Prefixed' /\ Smooth'
      BY <1>2, <1>3, <1>4, <2>1 DEF IdentInv
    <2> QED BY <2>2, <2>3, <2>4 DEF IdentInv
  <1>5. CASE label' = "FAIL" /\ card' = card /\ (~sends \/ MayFail)
    <2>1. CardTypes'
      BY <1>3, <1>5 DEF IdentInv, CardTypes
    <2>2. /\ Answers(card, "ACMD51", "data") <=> card.app /\ card.state = "tran"
          /\ Answers(card, "CMD6 switch", "data")
               <=> card.kind \in SD /\ ~card.app /\ card.state = "tran"
      BY Answering
    <2>3. MayFail \/ (HoldsData /\ card.kind = "EMMC")
      BY <1>2, <1>5, <2>2 DEF IdentInv
    <2> QED BY <1>5, <2>1, <2>3, Failing
  <1> QED BY <1>3, <1>4, <1>5

\* The bus width of the host is set when the card has been told of it, or before.
LEMMA IosSteps ==
  ASSUME IdentInv, UNCHANGED sort, NEW r \in Program, r.at = label,
         SetHostIos(r)
  PROVE  IdentInv'
  <1>1. \/ r = SetIos("ios4", 4, "cmd16", "FAIL")
        \/ r = SetIos("ios1", 1, "width 1", "FAIL")
        \/ r = SetIos("ios8", 8, "width 8", "next mode")
    <2>1. r.call = "ios"
      BY DEF SetHostIos
    <2> QED BY <2>1, SendCall, NotifyCall, ReadCall, IosCall
            DEF Program, Rows, Probe, SdMmc, Emmc
  <1>2. /\ UNCHANGED <<Timeout, IsHCS, CardType, hostState, sized, card>>
        /\ \/ label = "ios4" /\ label' = "cmd16" /\ host' = [host EXCEPT !.width = 4]
           \/ label = "ios1" /\ label' = "width 1" /\ host' = [host EXCEPT !.width = 1]
           \/ label = "ios8" /\ label' = "width 8" /\ host' = [host EXCEPT !.width = 8]
           \/ label = "ios8" /\ label' = "next mode" /\ host' = host
           \/ label' = "FAIL" /\ MayFail /\ host' = host
    <2>1. CASE r = SetIos("ios4", 4, "cmd16", "FAIL")
      <3>1. r.at = "ios4" /\ r.width = 4 /\ r.ok = "cmd16" /\ r.fail = "FAIL"
        BY <2>1 DEF SetIos, Row
      <3> QED BY <3>1 DEF SetHostIos, To
    <2>2. CASE r = SetIos("ios1", 1, "width 1", "FAIL")
      <3>1. r.at = "ios1" /\ r.width = 1 /\ r.ok = "width 1" /\ r.fail = "FAIL"
        BY <2>2 DEF SetIos, Row
      <3> QED BY <3>1 DEF SetHostIos, To
    <2>3. CASE r = SetIos("ios8", 8, "width 8", "next mode")
      <3>1. r.at = "ios8" /\ r.width = 8 /\ r.ok = "width 8" /\ r.fail = "next mode"
        BY <2>3 DEF SetIos, Row
      <3> QED BY <3>1 DEF SetHostIos, To
    <2> QED BY <1>1, <2>1, <2>2, <2>3
  <1> USE DEF Kind, Fits, Asked, SdTypes, CardState, Described, Widths, Prefixed,
              Smooth, Idle, Unselected, OfSd, OfEmmc, Faster, Ending, Informed, SD,
              Good, MayFail, HoldsData
  <1>3. CardTypes'
    BY <1>2 DEF IdentInv, CardTypes
  <1>4. CASE label' = "FAIL" /\ MayFail
    BY <1>3, <1>4, Failing
  <1>5. CASE label' # "FAIL"
    <2>1. /\ host'.held = host.held
          /\ host'.width = CASE label' = "cmd16" -> 4 [] label' = "width 1" -> 1
                             [] label' = "width 8" -> 8
                             [] label' = "next mode" -> host.width
      BY <1>2, <1>5 DEF IdentInv, CardTypes
    <2>2. Kind' /\ CardState' /\ Described'
      BY <1>2, <1>5, <2>1 DEF IdentInv
    <2>3. Widths' /\ Prefixed' /\ Smooth'
      BY <1>2, <1>5, <2>1 DEF IdentInv
    <2> QED BY <1>3, <2>2, <2>3 DEF IdentInv
  <1> QED BY <1>2, <1>4, <1>5

\* A poll that finds the card still busy changes nothing.
LEMMA Stutters ==
  ASSUME IdentInv, UNCHANGED identVars
  PROVE  IdentInv'
  <1>1. UNCHANGED <<label, CardType, IsHCS, Timeout, hostState, sized, sort, host, card>>
    BY DEF identVars
  <1>2. CardTypes'
    BY <1>1 DEF IdentInv, CardTypes
  <1>3. Kind'
    BY <1>1 DEF IdentInv, Kind, Fits, Asked
  <1>4. CardState' /\ Described'
    BY <1>1 DEF IdentInv, CardState, Described, HoldsData
  <1>5. Widths' /\ Prefixed'
    BY <1>1 DEF IdentInv, Widths, Prefixed, HoldsData
  <1>6. Smooth'
    BY <1>1 DEF IdentInv, Smooth, MayFail, HoldsData
  <1> QED BY <1>2, <1>3, <1>4, <1>5, <1>6 DEF IdentInv

\* The branches: power up, the retries, what the card has said of itself.
LEMMA BranchSteps ==
  ASSUME IdentInv, UNCHANGED sort,
         Ocr1 \/ Ocr \/ Retry \/ Decide
  PROVE  IdentInv'
  <1>0. CardTypes' /\ UNCHANGED <<host, card, hostState, sized, IsHCS>>
    BY DEF IdentInv, CardTypes, Ocr1, Ocr, Retry, Decide
  <1> USE DEF Kind, Fits, Asked, SdTypes, CardState, Described, Widths, Prefixed,
              Smooth, Idle, Unselected, OfSd, OfEmmc, Faster, Ending, Informed, SD,
              Good, MayFail, HoldsData
  <1>1. CASE Ocr1
    <2>1. /\ label = "ocr1" /\ CardType' = CardType /\ Timeout' = Timeout - 1
          /\ \/ card.state = "ready" /\ card.kind = "EMMC" /\ label' = "emmc cmd2"
             \/ card.state = "ready" /\ card.kind # "EMMC" /\ label' = "cmd5"
             \/ card.state # "ready" /\ Timeout - 1 = 0 /\ label' = "FAIL"
             \/ card.state # "ready" /\ label' = "cmd1"
      BY <1>1 DEF Ocr1, To, PowerUp, Exhausted, Remaining
    <2>2. CASE label' = "FAIL"
      BY <1>0, <2>1, <2>2, Failing
    <2>3. CASE label' # "FAIL"
      <3>1. Kind'
        BY <1>0, <2>1, <2>3 DEF IdentInv
      <3>2. CardState' /\ Described'
        BY <1>0, <2>1, <2>3 DEF IdentInv
      <3>3. Widths' /\ Prefixed' /\ Smooth'
        BY <1>0, <2>1, <2>3 DEF IdentInv
      <3> QED BY <1>0, <3>1, <3>2, <3>3 DEF IdentInv
    <2> QED BY <2>2, <2>3
  <1>2. CASE Ocr
    <2>1. /\ label = "ocr" /\ Timeout' = Timeout
          /\ label' = IF card.state = "ready" THEN "ready" ELSE "retry"
          /\ CardType' = IF /\ card.state = "ready" /\ card.kind = "SDHC"
                            /\ CardType = "SD_CARD_2"
                         THEN "SD_CARD_2_HIGH" ELSE CardType
      BY <1>2 DEF Ocr, To, PowerUp
    <2>2. Kind' /\ CardState' /\ Described'
      BY <1>0, <2>1 DEF IdentInv
    <2>3. Widths' /\ Prefixed' /\ Smooth'
      BY <1>0, <2>1 DEF IdentInv
    <2> QED BY <1>0, <2>2, <2>3 DEF IdentInv
  <1>3. CASE Retry
    <2>1. /\ label \in {"retry", "next mode"} /\ CardType' = CardType
          /\ \/ label' = "FAIL" /\ Timeout' = 0
             \/ label' = IF label = "retry" THEN "cmd55" ELSE "ios8"
      BY <1>3 DEF Retry, To, Exhausted, Remaining
    <2>2. CASE label' = "FAIL"
      <3>1. Timeout' = 0
        BY <2>1, <2>2
      <3>2. ~(Timeout' > 0)
        BY <3>1
      <3> QED BY <1>0, <2>2, <3>2, Failing
    <2>3. CASE label' # "FAIL"
      <3>1. Kind' /\ CardState' /\ Described'
        BY <1>0, <2>1, <2>3 DEF IdentInv
      <3>2. Widths' /\ Prefixed' /\ Smooth'
        BY <1>0, <2>1, <2>3 DEF IdentInv
      <3> QED BY <1>0, <3>1, <3>2 DEF IdentInv
    <2> QED BY <2>2, <2>3
  <1>4. CASE Decide
    <2>1. /\ UNCHANGED <<Timeout, CardType>>
          /\ \/ label = "device" /\ CardType # "EMMC_CARD" /\ label' = "cmd9"
             \/ label = "device" /\ CardType = "EMMC_CARD" /\ label' \in {"cmd16", "timing"}
             \/ label = "app" /\ label' = "acmd51"
             \/ label = "app" /\ MayFail /\ label' = "cmd16"
             \/ label = "ccc" /\ label' \in {"switch", "scr width"}
             \/ label = "scr width" /\ card.four /\ label' = "cmd55 width"
             \/ label = "scr width" /\ ~card.four /\ label' = "ios"
             \/ label = "ios" /\ label' = IF HasSetIos THEN "ios4" ELSE "cmd16"
             \/ label = "emmc ios" /\ label' = IF HasSetIos THEN "ios1" ELSE "emmc cmd8"
             \/ label = "block count" /\ CardType = "MMC_CARD" /\ label' = "cmd23"
             \/ label = "block count" /\ CardType # "MMC_CARD" /\ label' = "SUCCESS"
      BY <1>4 DEF Decide, To
    <2>2. Kind'
      BY <1>0, <2>1 DEF IdentInv
    <2>3. CardState' /\ Described'
      BY <1>0, <2>1 DEF IdentInv
    <2>4. Widths'
      BY <1>0, <2>1 DEF IdentInv
    <2>5. Prefixed' /\ Smooth'
      BY <1>0, <2>1 DEF IdentInv
    <2> QED BY <1>0, <2>2, <2>3, <2>4, <2>5 DEF IdentInv
  <1> QED BY <1>1, <1>2, <1>3, <1>4

\* The four waits for a card that is programming or sending data.
LEMMA PollSteps ==
  ASSUME IdentInv, UNCHANGED sort, Poll
  PROVE  IdentInv'
  <1>0. CardTypes' /\ UNCHANGED <<host, card, hostState, IsHCS>>
    BY DEF IdentInv, CardTypes, Poll
  <1>1. PICK w \in Waits :
          /\ w.at = label
          /\ \/ card.state = w.for /\ UNCHANGED <<label, Timeout, CardType, sized>>
             \/ /\ card.state = "tran" /\ label' = w.then
                /\ sized' = (sized \/ label = "in data")
                /\ CardType' = IF label = "in data" THEN "EMMC_CARD" ELSE CardType
             \/ MayFail /\ label' = "FAIL"
    BY DEF Poll, To
  <1>2. \/ w = Wait("in prg 1", "prg", "emmc cmd8")
        \/ w = Wait("in data", "data", "tran")
        \/ w = Wait("in prg timing", "prg", "ios8")
        \/ w = Wait("in prg 8", "prg", "cmd16")
    BY DEF Waits
  <1>3. \/ label = "in prg 1" /\ w.then = "emmc cmd8"
        \/ label = "in data" /\ w.then = "tran"
        \/ label = "in prg timing" /\ w.then = "ios8"
        \/ label = "in prg 8" /\ w.then = "cmd16"
    <2>1. CASE w = Wait("in prg 1", "prg", "emmc cmd8")
      BY <1>1, <2>1 DEF Wait
    <2>2. CASE w = Wait("in data", "data", "tran")
      BY <1>1, <2>2 DEF Wait
    <2>3. CASE w = Wait("in prg timing", "prg", "ios8")
      BY <1>1, <2>3 DEF Wait
    <2>4. CASE w = Wait("in prg 8", "prg", "cmd16")
      BY <1>1, <2>4 DEF Wait
    <2> QED BY <1>2, <2>1, <2>2, <2>3, <2>4
  <1>4. CASE UNCHANGED <<label, Timeout, CardType, sized>>
    BY <1>0, <1>4, Stutters DEF identVars
  <1> USE DEF Kind, Fits, Asked, SdTypes, CardState, Described, Widths, Prefixed,
              Smooth, Idle, Unselected, OfSd, OfEmmc, Faster, Ending, Informed, SD,
              Good, MayFail, HoldsData
  <1>5. CASE /\ card.state = "tran" /\ label' = w.then
             /\ sized' = (sized \/ label = "in data")
             /\ CardType' = IF label = "in data" THEN "EMMC_CARD" ELSE CardType
    <2>1. Kind' /\ CardState' /\ Described'
      BY <1>0, <1>3, <1>5 DEF IdentInv
    <2>2. Widths' /\ Prefixed' /\ Smooth'
      BY <1>0, <1>3, <1>5 DEF IdentInv
    <2> QED BY <1>0, <2>1, <2>2 DEF IdentInv
  <1>6. CASE MayFail /\ label' = "FAIL"
    BY <1>0, <1>6, Failing
  <1> QED BY <1>1, <1>4, <1>5, <1>6

\* The card finishes in its own time.
LEMMA CardSteps ==
  ASSUME IdentInv, UNCHANGED sort, CardDone
  PROVE  IdentInv'
  <1>1. /\ card.state = "prg" \/ (card.state = "data" /\ label = "in data")
        /\ card' = [card EXCEPT !.state = "tran"]
        /\ UNCHANGED <<label, Timeout, IsHCS, CardType, hostState, sized, host>>
    BY DEF CardDone
  <1>2. /\ card'.kind = card.kind /\ card'.app = card.app /\ card'.width = card.width
        /\ card'.state = "tran" /\ card'.four = card.four
    BY <1>1 DEF IdentInv, CardTypes
  <1>0. CardTypes'
    BY <1>1 DEF IdentInv, CardTypes, CardStates
  <1> USE DEF Kind, Fits, Asked, SdTypes, CardState, Described, Widths, Prefixed,
              Smooth, Idle, Unselected, OfSd, OfEmmc, Faster, Ending, Informed, SD,
              Good, MayFail, HoldsData
  <1>3. Kind' /\ CardState' /\ Described'
    BY <1>1, <1>2 DEF IdentInv
  <1>4. Widths' /\ Prefixed' /\ Smooth'
    BY <1>1, <1>2 DEF IdentInv
  <1> QED BY <1>0, <1>3, <1>4 DEF IdentInv

\* A new identification, after any other.
LEMMA FreshInv ==
  ASSUME label = "hw", card \in Fresh,
         host = [width |-> 1, held |-> host.held]
  PROVE  IdentInv
  <1>1. card.state = "idle" /\ card.width = 1 /\ host.width = 1
    BY DEF Fresh
  <1>2. CardTypes
    BY DEF CardTypes, Fresh, CardStates
  <1>3. Kind /\ CardState /\ Described
    BY <1>1 DEF Kind, CardState, Described, Idle, Unselected, OfSd, OfEmmc, Faster, Ending,
              Informed
  <1>4. Widths /\ Prefixed /\ Smooth
    BY <1>1 DEF Widths, Prefixed, Smooth, Unselected, Ending
  <1> QED BY <1>2, <1>3, <1>4 DEF IdentInv

\* What an earlier identification has left does not matter to the next.
LEMMA AnotherStep ==
  ASSUME IdentInv, Another
  PROVE  IdentInv'
  <1>1. label' = "hw" /\ card' \in Fresh /\ host' = [host EXCEPT !.width = 1]
    BY DEF Another
  <1>2. host' = [width |-> 1, held |-> host'.held]
    BY <1>1 DEF IdentInv, CardTypes
  <1>3. Fresh' = Fresh
    BY DEF Fresh
  <1> QED BY <1>1, <1>2 DEF IdentInv, CardTypes, Kind, CardState, Described, Widths,
             Prefixed, Smooth, Idle, Unselected, OfSd, OfEmmc, Faster, Ending, Informed,
             Fresh, CardStates

\* What is known at each label, in every behaviour.
LEMMA IdentInvHolds == IdentSpec => []IdentInv
  <1>1. IdentInit => IdentInv
    <2> SUFFICES ASSUME IdentInit
                 PROVE  IdentInv
      OBVIOUS
    <2>1. label = "hw" /\ card \in Fresh /\ host = [width |-> 1, held |-> "none"]
      BY DEF IdentInit
    <2> QED BY <2>1, FreshInv
  <1>2. IdentInv /\ [IdentNext]_(identVars) => IdentInv'
    <2> SUFFICES ASSUME IdentInv, [IdentNext]_(identVars)
                 PROVE  IdentInv'
      OBVIOUS
    <2>1. CASE MakeCall /\ UNCHANGED sort
      <3>1. PICK r \in Program :
              /\ r.at = label
              /\ \/ SendCommand(r) \/ HoldCommand(r) \/ NotifyState(r)
                 \/ ReadBlockData(r) \/ SetHostIos(r)
        BY <2>1 DEF MakeCall
      <3>2. CASE SendCommand(r)
        <4>1. r \in Probe \/ r \in SdMmc \/ r \in Emmc
          BY DEF Program, Rows
        <4> QED BY <2>1, <3>1, <3>2, <4>1, ProbeSends, SdMmcSends, EmmcSends
      <3>3. CASE HoldCommand(r)
        BY <2>1, <3>1, <3>3, HoldSteps
      <3>4. CASE NotifyState(r)
        BY <2>1, <3>1, <3>4, NotifySteps
      <3>5. CASE ReadBlockData(r)
        BY <2>1, <3>1, <3>5, ReadSteps
      <3>6. CASE SetHostIos(r)
        BY <2>1, <3>1, <3>6, IosSteps
      <3> QED BY <3>1, <3>2, <3>3, <3>4, <3>5, <3>6
    <2>2. CASE /\ Ocr1 \/ Ocr \/ Retry \/ Decide
               /\ UNCHANGED sort
      BY <2>2, BranchSteps
    <2>3. CASE Poll /\ UNCHANGED sort
      BY <2>3, PollSteps
    <2>4. CASE CardDone /\ UNCHANGED sort
      BY <2>4, CardSteps
    <2>5. CASE Another
      BY <2>5, AnotherStep
    <2>6. CASE UNCHANGED identVars
      BY <2>6, Stutters DEF identVars
    <2> QED BY <2>1, <2>2, <2>3, <2>4, <2>5, <2>6 DEF IdentNext, Driver
  <1> QED BY <1>1, <1>2, PTL DEF IdentSpec

\* An identification that succeeds leaves the card selected, its data described, of the
\* kind the driver takes it for, and as wide as the host, but for an SD card of one line,
\* which is left against a host of four: for every set of cards, number of polls and
\* sort of host.
THEOREM IdentSuccessIsTransfer == IdentSpec => []SuccessIsTransfer
  <1>1. IdentInv => SuccessIsTransfer
    BY DEF IdentInv, SuccessIsTransfer, Kind, Fits, SdTypes, CardState, Described,
           Widths, Ending, Informed, SD, OneLineLeftBehind
  <1> QED BY <1>1, IdentInvHolds, PTL

\* A card of a supported kind is identified where no call fails and it powers up in
\* time, unless it is an eMMC card on DwEmmcDxe.
THEOREM IdentGoodCardIdentified == IdentSpec => []GoodCardIdentified
  <1>1. IdentInv => GoodCardIdentified
    BY DEF IdentInv, GoodCardIdentified, Smooth
  <1> QED BY <1>1, IdentInvHolds, PTL
=============================================================================
