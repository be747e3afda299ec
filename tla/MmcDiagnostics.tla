--------------------------- MODULE MmcDiagnostics --------------------------
(***************************************************************************)
(* MmcDriverDiagnosticsRunDiagnostics, a client of the requests of         *)
(* MmcBlockIo: five destructive tests of the media.  MmcReadWriteDataTest  *)
(* saves blocks, overwrites them with a pattern, reads the pattern back,   *)
(* restores the blocks and reads them once more; it returns at the first   *)
(* thing that goes wrong.  Its data move when those of the request do.     *)
(***************************************************************************)
EXTENDS MmcBlockIo, Sequences

\* An EFI_LBA has 64 bits; the first two blocks are always below its limit.
ASSUME DiagnosticsAssumption == LbaLimit > 2

VARIABLES
  client,       \* who makes the requests: "diagnostics", or "any"; fixed here
  content,      \* what each block of the media holds
  test,         \* the tests begun so far
  step,         \* what MmcReadWriteDataTest does, "idle" between the tests
  waiting,      \* whether it has made the request of this step
  BackBuffer, ReadBuffer,
  passed,       \* the tests that have returned success
  before,       \* history: what the blocks held when the test began
  honest        \* history: every success in this test had moved all its blocks

diagnostics == <<client, content, test, step, waiting, BackBuffer, ReadBuffer, passed,
                 before, honest>>
results == <<passed, before>>

Original(b) == <<"data", b>>
Pattern(i) == <<"pattern", i>>
Garbage == <<"garbage", 0>>       \* what AllocatePool leaves in a buffer

\* The tests: first block and number of blocks.
Tests == <<[lba |-> 1, blocks |-> 1], [lba |-> 2, blocks |-> 1],
           [lba |-> Media.LastBlock \div 2, blocks |-> 1],
           [lba |-> Media.LastBlock, blocks |-> 1], [lba |-> 1, blocks |-> 2]>>

Offsets == 1 .. Tests[test].blocks

DiagnosticsInit ==
  /\ Init
  /\ client \in {"diagnostics", "any"}
  /\ content = [b \in 0 .. Media.LastBlock |-> Original(b)]
  /\ test = 0 /\ step = "idle" /\ waiting = FALSE
  /\ BackBuffer = << >> /\ ReadBuffer = << >>
  /\ passed = {} /\ before = content /\ honest = TRUE

\* Mistake: the blocks are overwritten before they were read.
OverwriteFirst == "overwrite"

FirstStep == "save"

\* RunDiagnostics goes from one test to the next whatever has come of it.  A test
\* wants a card, and one that no earlier request has left in another state.
NextTest ==
  /\ client = "diagnostics" /\ pc = "idle" /\ step = "idle" /\ test < Len(Tests)
  /\ test' = test + 1
  /\ step' = IF Media.MediaPresent /\ State = "Transfer" THEN FirstStep ELSE "idle"
  /\ LET fresh == [i \in 1 .. Tests[test + 1].blocks |-> Garbage]
     IN BackBuffer' = fresh /\ ReadBuffer' = fresh
  /\ before' = content /\ honest' = TRUE
  /\ UNCHANGED <<vars, client, content, waiting, passed>>

Finished == /\ client = "diagnostics" /\ pc = "idle" /\ step = "idle" /\ test = Len(Tests)
            /\ UNCHANGED <<vars, diagnostics>>

Writes == step \in {"overwrite", "restore"}

TestRequest ==
  [Transfer |-> IF Writes THEN "WRITE" ELSE "READ",
   current |-> TRUE, null |-> FALSE, aligned |-> TRUE,
   Lba |-> Tests[test].lba, BufferSize |-> Tests[test].blocks * BlockSize]

Ask ==
  /\ step # "idle" /\ ~waiting
  /\ Submit(TestRequest)
  /\ waiting' = TRUE
  /\ UNCHANGED <<client, content, test, step, BackBuffer, ReadBuffer, results, honest>>

\* The blocks that a step of the request moves: from the media into a buffer, or
\* from one to the media.
Place(i) == [Lba |-> Tests[test].lba + i - 1, Buffer |-> (i - 1) * BlockSize]

Moving == {i \in Offsets : Place(i) \in moved' \ moved}

ReadInto(buffer) ==
  [i \in Offsets |-> IF i \in Moving THEN content[Place(i).Lba] ELSE buffer[i]]

Source(i) == IF step = "overwrite" THEN Pattern(i) ELSE BackBuffer[i]

WriteOut ==
  [b \in DOMAIN content |->
     IF \E i \in Moving : Place(i).Lba = b THEN Source(b - Tests[test].lba + 1)
     ELSE content[b]]

Move ==
  /\ IF waiting /\ Writes THEN content' = WriteOut ELSE UNCHANGED content
  /\ IF waiting /\ step = "save" THEN BackBuffer' = ReadInto(BackBuffer)
     ELSE UNCHANGED BackBuffer
  /\ IF waiting /\ step \in {"verify", "reread"} THEN ReadBuffer' = ReadInto(ReadBuffer)
     ELSE UNCHANGED ReadBuffer
  /\ UNCHANGED <<client, test, step, waiting, results, honest>>

Serve == Step /\ Move

\* CompareBuffer, where the step ends with one.
AsExpected ==
  /\ step = "verify" => ReadBuffer = [i \in Offsets |-> Pattern(i)]
  /\ step = "reread" => ReadBuffer = BackBuffer

Following ==
  [save |-> "overwrite", overwrite |-> "verify", verify |-> "restore",
   restore |-> "reread", reread |-> "idle"]

\* The test goes on to its next step, or returns what went wrong.
Answered ==
  /\ waiting /\ pc = "idle"
  /\ waiting' = FALSE
  /\ LET good == Status = "SUCCESS" /\ AsExpected IN
     /\ step' = IF good THEN Following[step] ELSE "idle"
     /\ passed' = IF good /\ step = "reread" THEN passed \cup {test} ELSE passed
  /\ honest' = (honest /\ (Status = "SUCCESS" => moved = asked))
  /\ UNCHANGED <<vars, client, content, test, BackBuffer, ReadBuffer, before>>

AnyRequest ==
  /\ client = "any"
  /\ \E r \in Request : Submit(r)
  /\ UNCHANGED diagnostics

DiagnosticsNext == AnyRequest \/ NextTest \/ Ask \/ Answered \/ Serve \/ Finished

DiagnosticsSpec ==
  /\ DiagnosticsInit /\ [][DiagnosticsNext]_<<vars, diagnostics>>
  /\ WF_<<vars, diagnostics>>(Serve)

(***************************************************************************)
(* Correctness.                                                            *)
(***************************************************************************)

\* A test that passes leaves every block as it found it, the blocks an earlier test
\* has damaged included, as long as its requests did what they said: "Restore
\* content at the original location".
PassedRestores == step = "idle" /\ test \in passed /\ honest => content = before
=============================================================================
