---------------------------- MODULE MmcBlockIo -----------------------------
(***************************************************************************)
(* One request of the block device of the MMC driver: MmcIoBlocks checks   *)
(* it, waits for the card, and hands it to MmcTransferBlock piece by piece *)
(* (one piece of all the blocks when the host does multiple blocks, one    *)
(* block at a time otherwise).  Every call of the host protocol is a step  *)
(* and may fail; the card and the host are external.                       *)
(*                                                                         *)
(* The argument of a command is the block it starts at: whether the card   *)
(* counts in bytes or in sectors is left out.                              *)
(***************************************************************************)
EXTENDS Integers

CONSTANTS
  BlockSize,      \* Media->BlockSize, in bytes
  LastBlocks,     \* the values Media->LastBlock may have
  LbaLimit,       \* 2^64: an EFI_LBA is below it and its sums wrap at it
  Lbas,           \* first blocks the callers ask for
  MaxBufferSize,  \* bound on BufferSize
  ReadyPolls,     \* polls of the card before a transfer (20)
  BusyPolls,      \* polls of the card after it (MMCI0_TIMEOUT)
  Hosts           \* the sorts of host: sets of calls that may fail

Calls == {"status", "command", "data", "stop", "notify"}

ASSUME SizeAssumption == BlockSize \in Nat \ {0} /\ MaxBufferSize \in Nat
ASSUME LbaAssumption == /\ LbaLimit \in Nat
                        /\ Lbas \subseteq 0 .. LbaLimit - 1
                        /\ LastBlocks \subseteq 0 .. LbaLimit - 2
ASSUME PollsAssumption == ReadyPolls \in Nat /\ BusyPolls \in Nat
ASSUME FailAssumption == Hosts \subseteq SUBSET Calls

Request == [Transfer : {"READ", "WRITE"},
            current : BOOLEAN,            \* MediaId is the id of the media
            null : BOOLEAN,               \* Buffer is NULL
            aligned : BOOLEAN,            \* Buffer is aligned to IoAlign
            Lba : Lbas,
            BufferSize : 0 .. MaxBufferSize]

VARIABLES
  Media,      \* [MediaPresent, ReadOnly, LastBlock]; fixed here
  IsMultiBlock, \* what the host answers; fixed here
  HostFails,  \* the calls of this host that may fail; fixed here
  State,      \* MmcHostInstance->State: "Transfer" or "Programming"
  pc,         \* where MmcIoBlocks or MmcTransferBlock is
  req,        \* the request, the last one when pc = "idle"
  Lba,        \* the block the next piece starts at
  Buffer,     \* the offset in the buffer the next piece starts at
  left,       \* BytesRemainingToBeTransfered
  Timeout,    \* the counter of the poll loop that runs
  Response,   \* the last answer to CMD13: the card is ready or in tran state
  Status,     \* what the last request returned
  open,       \* the card is inside a transfer of multiple blocks
  asked,      \* blocks asked of the card: [Lba, Buffer]
  count,      \* how many blocks were asked of it
  moved       \* the asked blocks whose data were transferred

vars == <<Media, IsMultiBlock, HostFails, State, pc, req, Lba, Buffer, left, Timeout,
          Response, Status, open, asked, count, moved>>
piece == <<Lba, Buffer, left>>
fixed == <<Media, IsMultiBlock, HostFails>>

Init ==
  /\ Media \in [MediaPresent : BOOLEAN, ReadOnly : BOOLEAN, LastBlock : LastBlocks]
  /\ IsMultiBlock \in BOOLEAN
  /\ HostFails \in Hosts
  /\ State = "Transfer"
  /\ pc = "idle"
  /\ req \in {r \in Request : r.BufferSize = 0}
  /\ Lba = 0 /\ Buffer = 0 /\ left = 0
  /\ Timeout = 0 /\ Response = FALSE /\ Status = "SUCCESS"
  /\ open = FALSE /\ asked = {} /\ count = 0 /\ moved = {}

(***************************************************************************)
(* The checks of MmcIoBlocks, in their order.                              *)
(***************************************************************************)
\* Mistake: the buffer may reach one block past the last.
PastEndByOne(r) ==
  (r.Lba + r.BufferSize \div BlockSize) % LbaLimit > (Media.LastBlock + 2) % LbaLimit

\* The range check: the sum is of the width of EFI_LBA.
PastEnd(r) ==
  (r.Lba + r.BufferSize \div BlockSize) % LbaLimit > (Media.LastBlock + 1) % LbaLimit

Answer(r) ==
  IF ~r.current THEN "MEDIA_CHANGED"
  ELSE IF r.null THEN "INVALID_PARAMETER"
  ELSE IF ~Media.MediaPresent THEN "NO_MEDIA"
  ELSE IF PastEnd(r) THEN "INVALID_PARAMETER"
  ELSE IF r.Transfer = "WRITE" /\ Media.ReadOnly THEN "WRITE_PROTECTED"
  ELSE IF r.BufferSize = 0 THEN "SUCCESS"
  ELSE IF r.BufferSize % BlockSize # 0 THEN "BAD_BUFFER_SIZE"
  ELSE IF ~r.aligned THEN "INVALID_PARAMETER"
  ELSE "ACCEPTED"

Accepts(r) == Answer(r) = "ACCEPTED"

Submit(r) ==
  /\ pc = "idle"
  /\ req' = r
  /\ Lba' = r.Lba /\ Buffer' = 0
  /\ asked' = {} /\ count' = 0 /\ moved' = {}
  /\ IF Accepts(r)
     THEN /\ pc' = "ready" /\ left' = r.BufferSize
          /\ Timeout' = ReadyPolls /\ Response' = FALSE
          /\ UNCHANGED Status
     ELSE /\ Status' = Answer(r) /\ left' = 0
          /\ UNCHANGED <<pc, Timeout, Response>>
  /\ UNCHANGED <<fixed, State, open>>

BlockCount == IF IsMultiBlock THEN (req.BufferSize + BlockSize - 1) \div BlockSize ELSE 1

\* Mistake: a piece is one block whatever the command transfers.
OneBlock == BlockSize

ConsumeSize == IF left < BlockCount * BlockSize THEN left ELSE BlockCount * BlockSize

(***************************************************************************)
(* The poll loops: CMD13 until the card is ready, at most Timeout times;   *)
(* the test of the loop decrements, so a loop that gives up leaves -1.     *)
(***************************************************************************)

MorePolls == Timeout > 0

Poll ==
  /\ pc \in {"ready", "busy"}
  /\ ~Response /\ MorePolls
  /\ \E ok \in BOOLEAN :
       /\ Timeout' = Timeout - 1
       /\ \/ ok /\ Response' \in BOOLEAN
          \/ ~ok /\ "status" \in HostFails /\ UNCHANGED Response
  /\ UNCHANGED <<fixed, State, pc, req, piece, Status, open, asked, count, moved>>

GiveUp ==
  /\ pc \in {"ready", "busy"}
  /\ ~Response /\ ~MorePolls
  /\ Timeout' = Timeout - 1
  /\ pc' = IF pc = "ready" THEN "command" ELSE "stop"
  /\ UNCHANGED <<fixed, State, req, piece, Response, Status, open, asked, count, moved>>

\* Mistake: a card that is ready only at the last poll is polled anew.
ReadyAgain ==
  /\ pc = "ready" /\ Response
  /\ IF Timeout = 0 THEN Timeout' = ReadyPolls /\ Response' = FALSE /\ UNCHANGED pc
     ELSE pc' = "command" /\ UNCHANGED <<Timeout, Response>>
  /\ UNCHANGED <<fixed, State, req, piece, Status, open, asked, count, moved>>

\* A card that is ready only at the last poll finds the counter at 0.
Ready ==
  /\ pc = "ready" /\ Response
  /\ IF Timeout = 0 THEN pc' = "idle" /\ Status' = "NOT_READY"
     ELSE pc' = "command" /\ UNCHANGED Status
  /\ UNCHANGED <<fixed, State, req, piece, Timeout, Response, open, asked, count, moved>>

NotBusy ==
  /\ pc = "busy" /\ Response
  /\ pc' = "stop"
  /\ UNCHANGED <<fixed, State, req, piece, Timeout, Response, Status, open, asked, count,
                 moved>>

(***************************************************************************)
(* MmcTransferBlock, and what MmcIoBlocks does when it returns: it goes on *)
(* with the next piece whatever the outcome, and succeeds in the end.      *)
(***************************************************************************)
Advance ==
  /\ left' = left - ConsumeSize
  /\ Response' = FALSE
  /\ IF left' > 0
     THEN /\ Lba' = (Lba + BlockCount) % LbaLimit
          /\ Buffer' = Buffer + ConsumeSize
          /\ Timeout' = ReadyPolls
          /\ pc' = "ready"
          /\ UNCHANGED Status
     ELSE /\ pc' = "idle" /\ Status' = "SUCCESS"
          /\ UNCHANGED <<Lba, Buffer, Timeout>>

Blocks == {[Lba |-> (Lba + i) % LbaLimit, Buffer |-> Buffer + i * BlockSize] :
             i \in 0 .. ConsumeSize \div BlockSize - 1}

\* CMD17, CMD18, CMD24 or CMD25.
SendTransferCommand ==
  /\ pc = "command"
  /\ asked' = asked \cup Blocks
  /\ count' = count + ConsumeSize \div BlockSize
  /\ \/ /\ pc' = "data"
        /\ open' = (BlockCount # 1)
        /\ UNCHANGED <<piece, Timeout, Response, Status>>
     \/ /\ "command" \in HostFails
        /\ Advance
        /\ UNCHANGED open
  /\ UNCHANGED <<fixed, State, req, moved>>

Transferred ==
  /\ pc = "data"
  /\ moved' = moved \cup Blocks
  /\ State' = IF req.Transfer = "READ" THEN "Programming" ELSE State
  /\ \/ /\ pc' = "busy"
        /\ Timeout' = BusyPolls /\ Response' = FALSE
        /\ UNCHANGED <<piece, Status>>
     \/ /\ req.Transfer = "READ" /\ "notify" \in HostFails
        /\ Advance
  /\ UNCHANGED <<fixed, req, open, asked, count>>

\* A part of the piece may have moved.  MmcStopTransmission ends the transfer.
DataError ==
  /\ pc = "data" /\ "data" \in HostFails
  /\ \E part \in SUBSET Blocks : moved' = moved \cup part
  /\ open' \in {FALSE} \cup IF "stop" \in HostFails THEN {open} ELSE {}
  /\ Advance
  /\ UNCHANGED <<fixed, State, req, asked, count>>

\* Mistake: two blocks are not taken for multiple blocks.
SeveralPieces == ConsumeSize > 2 * BlockSize

Several == ConsumeSize > BlockSize

\* CMD12 ends a transfer of multiple blocks.
StopTransfer ==
  /\ pc = "stop"
  /\ pc' = "finish"
  /\ open' \in (IF Several THEN {FALSE} ELSE {open})
               \cup (IF "stop" \in HostFails THEN {open} ELSE {})
  /\ UNCHANGED <<fixed, State, req, piece, Timeout, Response, Status, asked, count, moved>>

\* State is changed before the host is told, so it does not matter if the
\* host refuses.
Finish ==
  /\ pc = "finish"
  /\ State' = "Transfer"
  /\ Advance
  /\ UNCHANGED <<fixed, req, open, asked, count, moved>>

Step == \/ Poll \/ GiveUp \/ Ready \/ NotBusy
        \/ SendTransferCommand \/ Transferred \/ DataError \/ StopTransfer \/ Finish

Next == (\E r \in Request : Submit(r)) \/ Step

Spec == Init /\ [][Next]_vars

\* The driver goes on once it is called: the code waits for nothing else.
FairSpec == Spec /\ WF_vars(Step)

(***************************************************************************)
(* Correctness.                                                            *)
(***************************************************************************)

\* The pieces cover the request from its first block on, each block once and
\* each at its place in the buffer, whatever failed on the way, and a request
\* that was accepted and succeeds has covered all of it.
PiecesInOrder ==
  /\ asked = {[Lba |-> (req.Lba + i) % LbaLimit, Buffer |-> i * BlockSize] :
                i \in 0 .. count - 1}
  /\ (pc = "idle" /\ Status = "SUCCESS" /\ Accepts(req))
       => count * BlockSize = req.BufferSize

\* No block beyond the end of the media is asked of the card, except by a
\* request whose end does not fit in an EFI_LBA.
WithinDevice ==
  req.Lba + req.BufferSize \div BlockSize < LbaLimit
    => \A b \in asked : b.Lba <= Media.LastBlock

\* Between two requests no transfer is left open on the card and the driver's
\* state is the one RunDiagnostics asks for: every way through MmcTransferBlock
\* that starts a transfer of multiple blocks ends it, when the host obeys.
ReadyForNext ==
  HostFails \cap {"stop", "notify"} = {} =>
    /\ pc \in {"idle", "ready", "command"} => ~open /\ State = "Transfer"
    /\ pc = "finish" => ~open

\* Every request ends, even if the card never answers.
RequestEnds == pc # "idle" ~> pc = "idle"

\* "All the blocks are read, or an error is returned."
AllBlocksOrError == pc = "idle" /\ Status = "SUCCESS" /\ Accepts(req) => moved = asked
=============================================================================
