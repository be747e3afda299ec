----------------------------- MODULE MmcCards ------------------------------
(***************************************************************************)
(* Cards coming and going under the MMC driver: the driver binding (Mmc.c),*)
(* the periodic CheckCardsCallback, and the clients of the block device.   *)
(*                                                                         *)
(* Start, Stop, Reset and requests run at TPL_APPLICATION, one at a time,  *)
(* step by step.  CheckCardsCallback runs at TPL_CALLBACK as the handler   *)
(* of a periodic timer, at once as a whole, between any two such steps;    *)
(* Start also calls it directly, at TPL_APPLICATION, where the timer       *)
(* preempts it.                                                            *)
(*                                                                         *)
(* One host with one slot and SD cards.  An identification is reduced to   *)
(* whether it fails in MmcIdentificationMode, before or after it has set   *)
(* the media, or not at all.  The host and the cards are external: a card  *)
(* answers transfer commands only when an identification has selected it.  *)
(***************************************************************************)
EXTENDS Naturals

CONSTANTS
  Card,             \* the cards
  NoCard,           \* nothing in the slot, nothing identified
  IdLimit           \* 2^32: MediaId is a UINT32

ASSUME CardAssumption == NoCard \notin Card
ASSUME IdAssumption == IdLimit \in Nat \ {0}

VARIABLES
  slot,          \* external: what is in the slot
  selected,      \* external: the card in transfer state
  bound,         \* the driver has the host protocol open
  pool,          \* the instance is in mMmcHostPool
  Initialized, MediaPresent, MediaId, State,   \* of the instance
  described,     \* the card whose size Media describes
  wiped,         \* history: Reset has found the slot empty before the timer has
  torn,          \* history: the timer has seen a change where Start was between the two flags
  pc,            \* what runs at TPL_APPLICATION
  request        \* the request that runs: the card it names, the cards it reached,
                 \* whether the timer has seen a change meanwhile

vars == <<slot, selected, bound, pool, Initialized, MediaPresent, MediaId, State,
          described, wiped, torn, pc, request>>
media == <<MediaPresent, MediaId, described, wiped>>
flags == <<Initialized, media, torn>>
cards == <<slot, selected>>
binding == <<bound, pool>>

NoRequest == [named |-> NoCard, reached |-> {}, interrupted |-> FALSE]

Init ==
  /\ slot \in Card \cup {NoCard} /\ selected = NoCard
  /\ bound = FALSE /\ pool = FALSE
  /\ Initialized = FALSE /\ MediaPresent = FALSE /\ MediaId = 0 /\ State = "HwInit"
  /\ described = NoCard /\ wiped = FALSE /\ torn = FALSE
  /\ pc = "idle" /\ request = NoRequest

CardIn == slot # NoCard      \* IsCardPresent

(***************************************************************************)
(* The environment.                                                        *)
(***************************************************************************)
InsertCard(c) ==
  /\ slot = NoCard
  /\ slot' = c
  /\ UNCHANGED <<selected, binding, flags, State, pc, request>>

RemoveCard ==
  /\ CardIn
  /\ slot' = NoCard /\ selected' = NoCard
  /\ UNCHANGED <<binding, flags, State, pc, request>>

(***************************************************************************)
(* InitializeMmcDevice in two parts: up to the transfer state, and from    *)
(* reading the card's data on.  Its result is ignored, so a failure is     *)
(* only what is left undone.                                               *)
(***************************************************************************)
NextId == (MediaId + 1) % IdLimit

\* MmcIdentificationMode: unless the host fails before, CMD0 deselects the card;
\* then it fails or gets a card that is there to the transfer state.
IdentificationMode ==
  \/ State' = "HwInit" /\ UNCHANGED selected
  \/ /\ State' \in {"Identification"} \cup IF CardIn THEN {"Transfer"} ELSE {}
     /\ selected' = NoCard

\* Mistake: the media keep the record of the card before.
SetMediaKeepingRecord ==
  /\ UNCHANGED <<described, MediaId>>
  /\ MediaPresent' = TRUE

\* InitializeSdMmcDevice: CMD9 gives the size, CMD7 selects the card.
SetMedia ==
  /\ described' = slot
  /\ MediaPresent' = TRUE
  /\ MediaId' = NextId

(***************************************************************************)
(* CheckCardsCallback.                                                     *)
(***************************************************************************)
\* Mistake: only an insertion is noticed.
Inserted == CardIn /\ ~Initialized

Changed == CardIn = ~Initialized

\* Mistake: the media follow the flag after it was changed.
PresenceAfterToggle == Initialized

NewPresence == ~Initialized

\* As the timer runs it.  The outcomes of an identification: it fails before
\* the media are set, or it sets them and then may still fail to select.
CheckCards ==
  IF Changed
  THEN /\ Initialized' = ~Initialized /\ wiped' = FALSE
       /\ IF NewPresence
          THEN \/ /\ IdentificationMode
                  /\ MediaPresent' = NewPresence
                  /\ UNCHANGED <<MediaId, described>>
               \/ /\ CardIn
                  /\ SetMedia
                  /\ State' = "Transfer"
                  /\ selected' \in {NoCard, slot}
          ELSE /\ MediaPresent' = NewPresence /\ State' = "HwInit"
               /\ UNCHANGED <<MediaId, described, selected>>
  ELSE UNCHANGED <<Initialized, media, State, selected>>

InStart == pc \in {"inserted", "checked", "marked", "toggled", "identify", "describe"}

\* Where Start has read or written one of the two flags and is to write the other:
\* a change that is seen here turns them both, and Start then turns one.
Tearing == pc \in {"inserted", "toggled", "identify", "describe"}

\* The timer is armed when the driver is loaded, long before any Start.
Tick ==
  /\ pool
  /\ CheckCards
  /\ torn' = IF Changed THEN Tearing ELSE torn
  /\ request' = IF pc = "transfer" /\ Changed THEN [request EXCEPT !.interrupted = TRUE]
                ELSE request
  /\ UNCHANGED <<slot, binding, pc>>

(***************************************************************************)
(* Start: a second OpenProtocol BY_DRIVER answers EFI_ALREADY_STARTED, and *)
(* Start succeeds with nothing done; so it does when there is no memory.   *)
(***************************************************************************)
Start ==
  /\ pc = "idle" /\ ~bound
  /\ bound' = TRUE
  /\ \/ UNCHANGED <<pool, pc, flags, State>>
     \/ /\ pool' = TRUE /\ pc' = "inserted"
        /\ Initialized' = FALSE /\ State' = "HwInit"
        /\ MediaPresent' = FALSE /\ MediaId' = 0 /\ described' = NoCard
        /\ wiped' = FALSE /\ torn' = FALSE
  /\ UNCHANGED <<cards, request>>

ClearInitialized ==
  /\ pc = "inserted"
  /\ Initialized' = FALSE /\ pc' = "checked"
  /\ UNCHANGED <<cards, binding, media, torn, State, request>>

\* The test, then the three assignments it guards.
TestPresence ==
  /\ pc = "checked"
  /\ pc' = IF Changed THEN "marked" ELSE "idle"
  /\ UNCHANGED <<cards, binding, flags, State, request>>

SetPresence ==
  /\ pc = "marked"
  /\ State' = "HwInit" /\ MediaPresent' = NewPresence /\ torn' = FALSE
  /\ pc' = "toggled"
  /\ UNCHANGED <<cards, binding, Initialized, MediaId, described, wiped, request>>

ToggleInitialized ==
  /\ pc = "toggled"
  /\ Initialized' = ~Initialized
  /\ pc' = IF MediaPresent THEN "identify" ELSE "idle"
  /\ UNCHANGED <<cards, binding, media, torn, State, request>>

Identify ==
  /\ pc = "identify"
  /\ IdentificationMode
  /\ pc' = IF State' = "Transfer" THEN "describe" ELSE "idle"
  /\ UNCHANGED <<slot, binding, flags, request>>

\* CMD9 was answered before a card that is gone now was removed, or it fails.
Describe ==
  /\ pc = "describe"
  /\ \/ SetMedia /\ selected' \in {NoCard, slot} /\ UNCHANGED wiped
     \/ UNCHANGED <<media, selected>>
  /\ pc' = "idle"
  /\ UNCHANGED <<slot, binding, Initialized, torn, State, request>>

(***************************************************************************)
(* Stop closes the host protocol for an agent that is no handle, which is  *)
(* refused; it destroys the instance all the same and returns that error.  *)
(***************************************************************************)
Stop ==
  /\ pc = "idle" /\ pool
  /\ pool' = FALSE
  /\ UNCHANGED <<cards, bound, flags, State, pc, request>>

(***************************************************************************)
(* The block device: MmcReset, and a request of MmcIoBlocks that names the *)
(* media a client knows.                                                   *)
(***************************************************************************)
Reset ==
  /\ pc = "idle" /\ pool
  /\ ~CardIn
  /\ MediaPresent' = FALSE /\ described' = NoCard
  /\ wiped' = Initialized
  /\ State' = "HwInit"
  /\ UNCHANGED <<cards, binding, Initialized, torn, MediaId, pc, request>>

\* The client names the current MediaId; the others are refused.
Request ==
  /\ pc = "idle" /\ pool /\ MediaPresent
  /\ pc' = "transfer"
  /\ request' = [NoRequest EXCEPT !.named = described]
  /\ UNCHANGED <<cards, binding, flags, State>>

\* One piece of the request: the card that is selected now gets it.
Transfer ==
  /\ pc = "transfer"
  /\ request' = [request EXCEPT !.reached = @ \cup ({selected} \ {NoCard})]
  /\ UNCHANGED <<cards, binding, flags, State, pc>>

RequestDone ==
  /\ pc = "transfer"
  /\ pc' = "idle" /\ request' = NoRequest
  /\ UNCHANGED <<cards, binding, flags, State>>

App == \/ ClearInitialized \/ TestPresence \/ SetPresence \/ ToggleInitialized
       \/ Identify \/ Describe

Next ==
  \/ (\E c \in Card : InsertCard(c)) \/ RemoveCard
  \/ Tick \/ App
  \/ Start \/ Stop \/ Reset
  \/ Request \/ Transfer \/ RequestDone

Spec == Init /\ [][Next]_vars

\* The timer is periodic, and the processor runs what it is given.
FairSpec == Spec /\ WF_vars(Tick) /\ WF_vars(App)

(***************************************************************************)
(* Correctness.                                                            *)
(***************************************************************************)
TypeOK ==
  /\ slot \in Card \cup {NoCard} /\ selected \in {slot, NoCard}
  /\ bound \in BOOLEAN /\ pool \in BOOLEAN
  /\ Initialized \in BOOLEAN /\ MediaPresent \in BOOLEAN
  /\ MediaId \in 0 .. IdLimit - 1
  /\ State \in {"HwInit", "Identification", "Transfer"}
  /\ described \in Card \cup {NoCard}
  /\ pc \in {"idle", "inserted", "checked", "marked", "toggled", "identify", "describe",
             "transfer"}
  /\ wiped \in BOOLEAN /\ torn \in BOOLEAN
  /\ request \in [named : Card \cup {NoCard}, reached : SUBSET Card, interrupted : BOOLEAN]

\* Initialized, which only CheckCardsCallback looks at, and MediaPresent, which
\* only the clients look at, say the same whenever no Start is running, wherever
\* ticks have fallen: but for a Reset that found the slot empty before the timer
\* did, and until the next change that is seen after one was seen where Start was
\* between the two flags.  There the code leaves them apart, and a tick between
\* Start's test and its first assignment it bears.
MediaAgrees ==
  pool /\ ~InStart /\ ~torn => MediaPresent = (Initialized /\ ~wiped)

\* A card that stays in the slot becomes present to the clients, but in those two
\* cases: with the flags torn the timer may take the card for one it knows, and
\* after such a Reset it takes the new card for the old one.
InsertionFollowed == []([](pool /\ CardIn /\ ~wiped /\ ~torn) => <>MediaPresent)

\* A slot that stays empty becomes absent, whether or not clients Reset it, unless
\* the flags are torn: then the code may tell the clients of a card for ever.
RemovalFollowed == []([](pool /\ ~CardIn /\ ~torn) => <>~MediaPresent)

\* What the clients are told follows the slot in both directions, but where the
\* timer has seen a change with Start between the two flags, or Reset before it.
PresenceFollowed == InsertionFollowed /\ RemovalFollowed

\* Data of a request go only to the card whose MediaId it names, whatever failed
\* before and however cards are swapped, unless the timer sees a change while the
\* request runs: MmcIoBlocks looks at the MediaId once.
NamedMediaOnly == request.interrupted \/ request.reached \subseteq {request.named}
=============================================================================
