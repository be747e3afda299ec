---------------------------- MODULE ArmPageTable ---------------------------
(***************************************************************************)
(* The 32-bit build of ArmMmuLib: a first level table of sections, each a  *)
(* block, or a page table of its own.  ArmConfigureMmu fills them from a   *)
(* table of memory regions with the MMU off; ArmSetMemoryAttributes, which *)
(* the other calls are, rewrites them while the MMU walks them.            *)
(*                                                                         *)
(* As in PageTable, a page is a number and the bits of an entry are a set. *)
(* An entry with access bits of 0 is "denied": it names an address but no  *)
(* access succeeds.  Domains, the NS bit, shareability, caches and the TLB *)
(* are left out.                                                           *)
(***************************************************************************)
EXTENDS Integers, Sequences, FiniteSetsExt

CONSTANTS
  SectionPages,   \* TRANSLATION_TABLE_PAGE_COUNT
  Sections,       \* TRANSLATION_TABLE_SECTION_COUNT
  RootPage,       \* where the first level table was allocated
  Bit, Unmapped,  \* the bits of an entry; a page that translates to nothing
  WriteBack,      \* the bits of write-back memory
  MemoryMaps,     \* what ArmConfigureMmu may be given: sequences of regions
  Requests,       \* what the clients ask for later
  MaxRequests,    \* bound on their requests
  MayFail         \* whether AllocatePages may fail

VARIABLES
  state,           \* of the MMU: "configuring", "on", or "off" after a failure
  regions,         \* those ArmConfigureMmu has yet to map
  given,           \* what it was given
  FirstLevelTable, \* an entry for each section
  PageTables,      \* the page tables allocated
  at,              \* "idle", or where the call that runs is
  request,         \* what it was called with
  BaseAddress, Length, \* the part of the region it has yet to change
  ChunkLength,     \* the part of the chunk ArmSetMemoryAttributes works on
  PageLength,      \* the part of it UpdatePageEntries works on
  result,          \* "busy", or how the last call ended
  requests,        \* requests so far
  replaced,        \* history: page tables overwritten by a section
  misdirected      \* history: pages whose entry was 0 when it was updated

vars == <<state, regions, given, FirstLevelTable, PageTables, at, request, BaseAddress,
          Length, ChunkLength, PageLength, result, requests, replaced, misdirected>>
setting == <<regions, given>>
tables == <<FirstLevelTable, PageTables>>
chunk == <<ChunkLength, PageLength>>
history == <<replaced, misdirected>>

Limit == Sections * SectionPages   \* SIZE_4GB, and MAX_ADDRESS + 1

Pages == 0 .. Limit - 1

Fault == [type |-> "fault", address |-> 0, bits |-> {}]
Block(address, bits) == [type |-> "block", address |-> address, bits |-> bits]
Denied(address) == [type |-> "denied", address |-> address, bits |-> {}]
Table(t) == [type |-> "table", address |-> t, bits |-> {}]

SectionOf(p) == p \div SectionPages
SectionStart(p) == p - (p % SectionPages)
Boundary(p) == SectionStart(p) + SectionPages

Entry(p) == FirstLevelTable[SectionOf(p)]

PageEntry(p) == PageTables[Entry(p).address][p % SectionPages]

Translation(p) ==
  IF Entry(p).type = "block"
  THEN [to |-> Entry(p).address + (p % SectionPages), bits |-> Entry(p).bits]
  ELSE IF Entry(p).type = "table" /\ PageEntry(p).type = "block"
  THEN [to |-> PageEntry(p).address, bits |-> PageEntry(p).bits]
  ELSE Unmapped

Init ==
  /\ state = "configuring"
  /\ given \in MemoryMaps /\ regions = given
  /\ FirstLevelTable = [s \in 0 .. Sections - 1 |-> Fault] /\ PageTables = << >>
  /\ at = "idle" /\ result = "SUCCESS"
  /\ request = [start |-> 0, length |-> 0, attrs |-> {}, mask |-> {}]
  /\ BaseAddress = 0 /\ Length = 0 /\ ChunkLength = 0 /\ PageLength = 0
  /\ requests = 0 /\ replaced = {} /\ misdirected = {}

\* What does not fit below 4 GB is cut off.
Begin(c, label) ==
  /\ at' = label /\ request' = c /\ result' = "busy"
  /\ BaseAddress' = c.start
  /\ Length' = Min({c.length, Limit - c.start})

(***************************************************************************)
(* ArmConfigureMmu.                                                        *)
(***************************************************************************)
FillTranslationTable ==
  /\ state = "configuring" /\ at = "idle" /\ regions # << >>
  /\ regions' = Tail(regions)
  /\ IF Head(regions).start >= Limit
     THEN UNCHANGED <<at, request, result, BaseAddress, Length>>
     ELSE Begin(Head(regions), "fill")
  /\ UNCHANGED <<state, given, tables, chunk, requests, history>>

WholeSection == BaseAddress % SectionPages = 0 /\ Length >= SectionPages

\* A page table in the way is overwritten, and lost.
FillSection ==
  /\ at = "fill" /\ Length > 0 /\ WholeSection
  /\ FirstLevelTable' = [FirstLevelTable EXCEPT ![SectionOf(BaseAddress)] =
                           Block(BaseAddress, request.attrs)]
  /\ replaced' = replaced \cup
       (IF Entry(BaseAddress).type = "table" THEN {Entry(BaseAddress).address} ELSE {})
  /\ BaseAddress' = BaseAddress + SectionPages
  /\ Length' = Length - SectionPages
  /\ UNCHANGED <<state, setting, PageTables, at, request, chunk, result, requests,
                 misdirected>>

\* The pages of a section that is converted: those of a block map what it did,
\* and for UpdatePageEntries a section that is not mapped makes pages that
\* cannot be accessed.
SplitPages(s) ==
  [i \in 0 .. SectionPages - 1 |->
     IF FirstLevelTable[s].type = "block"
     THEN Block(FirstLevelTable[s].address + i, FirstLevelTable[s].bits)
     ELSE Denied(s * SectionPages + i)]

NewPages(s) == IF FirstLevelTable[s].type = "fault"
               THEN [i \in 0 .. SectionPages - 1 |-> Fault] ELSE SplitPages(s)

PageMapLength == Min({Length, Boundary(BaseAddress) - BaseAddress})

Filled(table) ==
  [i \in 0 .. SectionPages - 1 |->
     LET p == SectionStart(BaseAddress) + i IN
     IF BaseAddress <= p /\ p < BaseAddress + PageMapLength
     THEN Block(p, request.attrs) ELSE table[i]]

\* Mistake: a page table that is there is not used again.
AlwaysNew(s) == TRUE

NeedsTable(s) == FirstLevelTable[s].type # "table"

\* A region that is shorter than a section is thought to end here.
PopulateLevel2PageTable ==
  /\ at = "fill" /\ Length > 0 /\ ~WholeSection
  /\ LET s == SectionOf(BaseAddress) IN
     IF NeedsTable(s)
     THEN /\ PageTables' = Append(PageTables, Filled(NewPages(s)))
          /\ FirstLevelTable' = [FirstLevelTable EXCEPT ![s] = Table(Len(PageTables) + 1)]
     ELSE /\ PageTables' = [PageTables EXCEPT ![FirstLevelTable[s].address] = Filled(@)]
          /\ UNCHANGED FirstLevelTable
  /\ BaseAddress' = BaseAddress + PageMapLength
  /\ Length' = IF Length < SectionPages THEN 0 ELSE Length - PageMapLength
  /\ UNCHANGED <<state, setting, at, request, chunk, result, requests, history>>

\* Nobody looks at the result: the table is put at address 0, over what is there.
PopulateAtNull ==
  /\ at = "fill" /\ Length > 0 /\ ~WholeSection /\ Entry(BaseAddress).type # "table"
  /\ MayFail
  /\ at' = "undefined"
  /\ UNCHANGED <<state, setting, tables, request, BaseAddress, Length, chunk, result,
                 requests, history>>

Contains(c, p) == c.start <= p /\ p < c.start + c.length

\* The last region that contains the first level table counts.
RootAttributes ==
  LET around == {i \in DOMAIN given : Contains(given[i], RootPage)}
  IN IF around = {} THEN {} ELSE given[Max(around)].attrs

\* Mistake: a table in uncached memory is good enough.
AnyMemory == TRUE

RootInWriteBack == RootAttributes = WriteBack

ArmEnableMmu ==
  /\ state = "configuring" /\ at = "idle" /\ regions = << >>
  /\ state' = IF RootInWriteBack THEN "on" ELSE "off"
  /\ UNCHANGED <<setting, tables, at, request, BaseAddress, Length, chunk, result,
                 requests, history>>

RootAllocationFails ==
  /\ state = "configuring" /\ at = "idle" /\ regions = given /\ MayFail
  /\ state' = "off"
  /\ UNCHANGED <<setting, tables, at, request, BaseAddress, Length, chunk, result,
                 requests, history>>

(***************************************************************************)
(* ArmSetMemoryAttributes.                                                 *)
(***************************************************************************)
\* An address beyond 4 GB is EFI_UNSUPPORTED.
ArmSetMemoryAttributes(c) ==
  /\ state = "on" /\ at = "idle" /\ requests < MaxRequests
  /\ IF c.start >= Limit THEN UNCHANGED <<at, request, result, BaseAddress, Length>>
     ELSE Begin(c, "chunk")
  /\ requests' = requests + 1
  /\ UNCHANGED <<state, setting, tables, chunk, history>>

\* Pages up to the next section, if there is one to come; otherwise all of them,
\* the next section's too.
SomePages ==
  LET up == Boundary(BaseAddress) - BaseAddress
  IN IF up + SectionPages > Length THEN Length ELSE up

NextChunk ==
  /\ at = "chunk" /\ Length > 0
  /\ IF WholeSection
     THEN /\ at' = "sections"
          /\ ChunkLength' = Length - (Length % SectionPages)
          /\ UNCHANGED PageLength
     ELSE /\ at' = "pages"
          /\ ChunkLength' = SomePages
          /\ PageLength' = SomePages
  /\ UNCHANGED <<state, setting, tables, request, BaseAddress, Length, result, requests,
                 history>>

Updated(e) == Block(e.address, (e.bits \cap request.mask) \cup request.attrs)

Advance(n) ==
  /\ BaseAddress' = BaseAddress + n
  /\ Length' = Length - n
  /\ ChunkLength' = ChunkLength - n

\* One section of UpdateSectionEntries.
UpdateSection ==
  /\ at = "sections" /\ ChunkLength > 0 /\ Entry(BaseAddress).type # "table"
  /\ LET s == SectionOf(BaseAddress) IN
     FirstLevelTable' = [FirstLevelTable EXCEPT ![s] =
       IF @.type = "fault" THEN Block(BaseAddress, request.attrs) ELSE Updated(@)]
  /\ Advance(SectionPages)
  /\ UNCHANGED <<state, setting, PageTables, at, request, PageLength, result, requests,
                 history>>

ForwardToPages ==
  /\ at = "sections" /\ ChunkLength > 0 /\ Entry(BaseAddress).type = "table"
  /\ at' = "pages" /\ PageLength' = SectionPages
  /\ UNCHANGED <<state, setting, tables, request, BaseAddress, Length, ChunkLength, result,
                 requests, history>>

ConvertSectionToPages ==
  /\ at = "pages" /\ PageLength > 0 /\ Entry(BaseAddress).type # "table"
  /\ LET s == SectionOf(BaseAddress) IN
     /\ PageTables' = Append(PageTables, SplitPages(s))
     /\ FirstLevelTable' = [FirstLevelTable EXCEPT ![s] = Table(Len(PageTables) + 1)]
  /\ UNCHANGED <<state, setting, at, request, BaseAddress, Length, chunk, result, requests,
                 history>>

ConvertFails ==
  /\ at = "pages" /\ PageLength > 0 /\ Entry(BaseAddress).type # "table"
  /\ MayFail
  /\ at' = "failed"
  /\ UNCHANGED <<state, setting, tables, request, BaseAddress, Length, chunk, result,
                 requests, history>>

\* One page of UpdatePageEntries.  An entry of 0 gets attributes, but no address.
UpdatePage ==
  /\ at = "pages" /\ PageLength > 0 /\ Entry(BaseAddress).type = "table"
  /\ PageTables' = [PageTables EXCEPT
       ![Entry(BaseAddress).address][BaseAddress % SectionPages] = Updated(@)]
  /\ misdirected' = misdirected \cup
       (IF PageEntry(BaseAddress).type = "fault" THEN {BaseAddress} ELSE {})
  /\ Advance(1)
  /\ PageLength' = PageLength - 1
  /\ UNCHANGED <<state, setting, FirstLevelTable, at, request, result, requests, replaced>>

PagesDone ==
  /\ at = "pages" /\ PageLength = 0
  /\ at' = IF ChunkLength > 0 THEN "sections" ELSE "chunk"
  /\ UNCHANGED <<state, setting, tables, request, BaseAddress, Length, chunk, result,
                 requests, history>>

SectionsDone ==
  /\ at = "sections" /\ ChunkLength = 0
  /\ at' = "chunk"
  /\ UNCHANGED <<state, setting, tables, request, BaseAddress, Length, chunk, result,
                 requests, history>>

Return ==
  /\ at = "failed" \/ (at \in {"fill", "chunk"} /\ Length = 0)
  /\ at' = "idle"
  /\ result' = IF at = "failed" THEN "OUT_OF_RESOURCES" ELSE "SUCCESS"
  /\ UNCHANGED <<state, setting, tables, request, BaseAddress, Length, chunk, requests,
                 history>>

Finished == /\ \/ at = "idle" /\ (state = "off" \/ (state = "on" /\ requests = MaxRequests))
               \/ at = "undefined"
            /\ UNCHANGED vars

Update == \/ FillSection \/ PopulateLevel2PageTable \/ PopulateAtNull
          \/ NextChunk \/ UpdateSection \/ ForwardToPages
          \/ ConvertSectionToPages \/ ConvertFails \/ UpdatePage
          \/ PagesDone \/ SectionsDone \/ Return

Next ==
  \/ Update
  \/ FillTranslationTable \/ ArmEnableMmu \/ RootAllocationFails
  \/ \E c \in Requests : ArmSetMemoryAttributes(c)
  \/ Finished

Spec == Init /\ [][Next]_vars

FairSpec == Spec /\ WF_vars(Update)

(***************************************************************************)
(* Correctness.                                                            *)
(***************************************************************************)
\* What FillTranslationTable forgets of a region: the part in the second section
\* when the whole is shorter than a section.
LostTail(start, length) ==
  {p \in start .. start + length - 1 : length < SectionPages /\ p >= Boundary(start)}

Left == IF state = "configuring"
        THEN (BaseAddress .. BaseAddress + Length - 1) \ LostTail(BaseAddress, Length)
        ELSE BaseAddress .. BaseAddress + Length - 1

\* A misdirected page is taken for what it should have been.
Mapping ==
  [p \in Pages |-> IF p \in misdirected THEN [Translation(p) EXCEPT !.to = p]
                   ELSE Translation(p)]

\* A page table has one entry that points to it, and two never share one; none
\* is lost but to a region given to ArmConfigureMmu that overlaps another.
References(t) == {s \in DOMAIN FirstLevelTable : FirstLevelTable[s] = Table(t)}

NoTableLost ==
  \A t \in DOMAIN PageTables :
    IF t \in replaced THEN References(t) = {} ELSE \E s \in References(t) : References(t) = {s}

\* When the MMU goes on, each page has the attributes of the last region that
\* contains it, and the first level table is in write-back memory, unless it is in
\* a forgotten tail: "Page tables must reside in memory mapped as write-back
\* cacheable".
Maps(c, p) == /\ Contains(c, p)
              /\ p \notin LostTail(c.start, Min({c.length, Limit - c.start}))

ToldAbout(p) == {i \in DOMAIN given : Maps(given[i], p)}

Forgotten(p) == \E i \in DOMAIN given : Contains(given[i], p) /\ ~Maps(given[i], p)

EnabledAsTold ==
  [][state # "on" /\ state' = "on" =>
       /\ \A p \in Pages :
            Translation(p) = IF ToldAbout(p) = {} THEN Unmapped
                             ELSE [to |-> p, bits |-> given[Max(ToldAbout(p))].attrs]
       /\ ~Forgotten(RootPage) => Translation(RootPage) =
                                    [to |-> RootPage, bits |-> WriteBack]]_vars

\* Every call ends.
CallsEnd == []<>(at \in {"idle", "undefined"})
=============================================================================
