------------------------------ MODULE MCArmMmu -----------------------------
(***************************************************************************)
(* Small instances of the two builds of ArmMmuLib, PageTable for AArch64   *)
(* and ArmPageTable for 32-bit Arm, against the one promise MemoryMap.     *)
(* Which build runs is chosen at the start; the other stays as it is.      *)
(*                                                                         *)
(* AArch64: tables of two entries, so that the eight pages below a root at *)
(* level 1 make three levels.  Arm: three sections of three pages, so that *)
(* a region may cross a boundary without filling a section.  WB stands for *)
(* the memory type, XN for the permissions.                                *)
(***************************************************************************)
EXTENDS PageTable

CONSTANTS
  WB, XN, WriteBack,
  SectionPages, Sections, RootPage, MemoryMaps, Requests, MaxRequests

ASSUME ArmAssumption == /\ SectionPages \in Nat \ {0} /\ Sections \in Nat \ {0}
                        /\ Requests \subseteq Call
                        /\ \A m \in MemoryMaps : m \in Seq(Call)
\* ArmConfigureMmu replaces the bits of an entry: no region of its table keeps any.
ASSUME MapAssumption ==
  \A m \in MemoryMaps \cup MemoryTables : \A i \in DOMAIN m : m[i].mask = {}
\* The first level table is below 4 GB, and write-back memory is not uncached.
ASSUME WriteBackAssumption == RootPage \in 0 .. Sections * SectionPages - 1 /\ WriteBack # {}
ASSUME UnmappedAssumption == Unmapped \notin [to : Int, bits : SUBSET Bit]
\* Nobody names a page that the root table has no entry for: it is sized for every
\* physical address. All addresses fit in 64 bits.
ASSUME RangeAssumption ==
  LET size == RootCount * BlockSize(RootTableLevel) IN
  /\ size <= AddressLimit
  /\ \A c \in Calls : c.start + c.length <= size
  /\ \A m \in MemoryTables : \A i \in DOMAIN m : m[i].start + m[i].length <= size

VARIABLES
  build,
  state, regions, given, FirstLevelTable, PageTables, at, request, BaseAddress, Length,
  ChunkLength, PageLength, result, requests, replaced, misdirected

armVars == <<state, regions, given, FirstLevelTable, PageTables, at, request,
             BaseAddress, Length, ChunkLength, PageLength, result, requests, replaced,
             misdirected>>

Arm == INSTANCE ArmPageTable

\* What MemoryMap sees of the 32-bit build; PageTable says it of the other.
ArmMap == INSTANCE MemoryMap WITH
            Page <- Arm!Pages,
            map <- Arm!Mapping,
            call <- [attrs |-> request.attrs, mask |-> request.mask],
            todo <- IF result = "busy" THEN Arm!Left ELSE {},
            status <- result

MCBit == {WB, XN}
MCWriteBack == {WB}

Region(start, length, attrs, mask) ==
  [start |-> start, length |-> length, attrs |-> attrs, mask |-> mask]

Regions(n) == {r \in (0 .. n - 1) \X (1 .. n) : r[1] + r[2] <= n}

\* Contiguous regions as in DeviceMemoryMap.h, overlapping ones, and gaps.
MCMemoryTables ==
  {<<Region(0, 8, {WB}, {})>>,
   <<Region(0, 3, {WB}, {}), Region(3, 5, {XN}, {})>>,
   <<Region(0, 8, {WB}, {}), Region(2, 3, {XN}, {})>>,
   <<Region(5, 1, {XN}, {}), Region(0, 8, {WB}, {})>>,
   <<Region(1, 2, {XN}, {}), Region(6, 2, {WB}, {})>>}

\* Also regions that end or begin beyond the last section, and one that puts the
\* first level table, in page 1, in memory that is not write-back.
MCMemoryMaps ==
  {<<Region(0, 9, {WB}, {})>>,
   <<Region(0, 4, {WB}, {}), Region(4, 5, {XN}, {})>>,
   <<Region(4, 1, {XN}, {}), Region(0, 9, {WB}, {})>>,
   <<Region(0, 9, {WB}, {}), Region(2, 2, {XN}, {})>>,
   <<Region(1, 3, {WB}, {}), Region(7, 4, {XN}, {}), Region(9, 2, {XN}, {})>>,
   <<Region(0, 9, {WB}, {}), Region(1, 1, {XN}, {})>>}

\* ArmSetMemoryRegionNoExec and ArmClearMemoryRegionNoExec on every region; a call
\* that replaces all the bits is what FillTranslationTable makes.
MCCalls ==
  {Region(r[1], r[2], u.attrs, u.mask) :
     r \in Regions(8),
     u \in {[attrs |-> {XN}, mask |-> {WB, XN}], [attrs |-> {}, mask |-> {WB}]}}

\* The 32-bit build keeps the memory type, or replaces it and the permissions.
MCRequests ==
  {Region(r[1], r[2], u.attrs, u.mask) :
     r \in Regions(10),
     u \in {[attrs |-> {XN}, mask |-> {WB}], [attrs |-> {WB}, mask |-> {}]}}

MCInit ==
  /\ Init /\ Arm!Init
  /\ \/ build = "AArch64" /\ given = <<Region(0, 9, {WB}, {})>>
     \/ build = "Arm" /\ configured = <<Region(0, 8, {WB}, {})>>

MCNext ==
  \/ build = "AArch64" /\ Next /\ UNCHANGED <<build, armVars>>
  \/ build = "Arm" /\ Arm!Next /\ UNCHANGED <<build, vars>>

MCSpec ==
  /\ MCInit /\ [][MCNext]_<<build, vars, armVars>>
  /\ WF_vars(build = "AArch64" /\ Update /\ UNCHANGED <<build, armVars>>)
  /\ WF_armVars(build = "Arm" /\ Arm!Update /\ UNCHANGED <<build, vars>>)

\* The 32-bit build keeps the same promise, but for the lost tails and the
\* misdirected pages: whatever sections are converted and whether a chunk is
\* done by sections or by pages, a call changes the pages of its region only.
ArmImplementsMemoryMap == ArmMap!Spec

\* Both builds implement MemoryMap, the 32-bit one but for the pages it forgets or
\* misdirects.
BothImplementMemoryMap == ImplementsMemoryMap /\ ArmImplementsMemoryMap

\* No build loses or shares a page table.
NoTableOfEitherLost == NoTableLost /\ Arm!NoTableLost

\* Each build enables the MMU only with the map it was told to make.
BothEnabledAsTold == EnabledAsTold /\ Arm!EnabledAsTold

\* The calls of both builds end.
BothCallsEnd == CallsEnd /\ Arm!CallsEnd
=============================================================================
