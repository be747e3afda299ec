----------------------------- MODULE PageTable -----------------------------
(***************************************************************************)
(* The AArch64 translation tables of ArmMmuLib: ArmConfigureMmu builds     *)
(* them from a table of memory regions, and the calls that change the      *)
(* attributes of a region rewrite them while the MMU walks them.  Each     *)
(* write of an entry is a step; what an address translates to is looked at *)
(* between any two.                                                        *)
(*                                                                         *)
(* A page is a number.  A table has Radix entries (512), and a block of a  *)
(* level is Radix times a block of the next.  The attribute bits of an     *)
(* entry are a set, so the code's "&= mask, |= attributes" is literal; the *)
(* two are one write, as a compiler makes them.  TLB maintenance, TCR and  *)
(* MAIR are left out.                                                      *)
(***************************************************************************)
EXTENDS Integers, Sequences, FiniteSetsExt

CONSTANTS
  Radix,          \* TT_ENTRY_COUNT
  RootTableLevel, \* from the physical address bits: 32 at least, so 0 or 1
  RootCount,      \* RootTableEntryCount
  AddressLimit,   \* 2^64, in pages: a UINT64 wraps there
  Bit, Unmapped,  \* the attribute bits; a page that translates to nothing
  MemoryTables,   \* what ArmConfigureMmu may be given: sequences of Call
  Calls,          \* what the clients call later
  MaxCalls,       \* bound on their calls
  MayFail         \* whether AllocatePages may fail

\* A region of no length is refused before anything is done.
Call == [start : Nat, length : Nat \ {0}, attrs : SUBSET Bit, mask : SUBSET Bit]

ASSUME RadixAssumption == Radix \in Nat /\ Radix >= 2
ASSUME RootAssumption == RootTableLevel \in {0, 1} /\ RootCount \in 1 .. Radix
ASSUME CallAssumption == /\ Calls \subseteq Call
                         /\ \A t \in MemoryTables : t \in Seq(Call)
ASSUME BoundAssumption == /\ MaxCalls \in Nat /\ AddressLimit \in Nat \ {0}
                          /\ MayFail \in BOOLEAN

VARIABLES
  mmu,              \* "configuring", "on", or "off" after a failure
  MemoryTable,      \* regions ArmConfigureMmu has yet to map
  configured,       \* what ArmConfigureMmu was given
  tables,           \* the tables allocated, the root first
  pc,               \* "idle", "find", "walk", "fill" or "return"
  call,             \* what UpdateRegionMapping was called with
  RegionStart, RegionLength,    \* the part of the region still to map
  TranslationTable, IndexLevel, \* where the walk is
  PageLevel,        \* the level it looks for
  Slot,             \* the index of BlockEntry in its table
  status,           \* "busy", or how the last call ended
  calls             \* calls of the clients so far

vars == <<mmu, MemoryTable, configured, tables, pc, call, RegionStart, RegionLength,
          TranslationTable, IndexLevel, PageLevel, Slot, status, calls>>
region == <<RegionStart, RegionLength>>
walk == <<TranslationTable, IndexLevel, PageLevel>>
setting == <<MemoryTable, configured>>

(***************************************************************************)
(* Tables.                                                                 *)
(***************************************************************************)
Levels == 0 .. 3

\* TT_BLOCK_ENTRY_SIZE_AT_LEVEL, in pages.
BlockSize(level) ==
  CASE level = 3 -> 1
    [] level = 2 -> Radix
    [] level = 1 -> Radix * Radix
    [] level = 0 -> Radix * Radix * Radix

Pages == 0 .. RootCount * BlockSize(RootTableLevel) - 1

Invalid == [type |-> "invalid", address |-> 0, bits |-> {}]
Block(address, bits) == [type |-> "block", address |-> address, bits |-> bits]
Table(t) == [type |-> "table", address |-> t, bits |-> {}]

\* TT_GET_ENTRY_FOR_ADDRESS.
IndexOf(address, level) == (address \div BlockSize(level)) % Radix

BlockStart(address, level) == address - (address % BlockSize(level))

Entry(t, i) == tables[t][i]

LastSlot(level) == IF level = RootTableLevel THEN RootCount - 1 ELSE Radix - 1

\* The entry at which the MMU's walk for a page ends, and its level, from a table
\* of level 3, 2, 1 or 0 on.
Reached3(p, t) == [level |-> 3, entry |-> Entry(t, IndexOf(p, 3))]

Reached2(p, t) ==
  LET e == Entry(t, IndexOf(p, 2)) IN
  IF e.type = "table" THEN Reached3(p, e.address) ELSE [level |-> 2, entry |-> e]

Reached1(p, t) ==
  LET e == Entry(t, IndexOf(p, 1)) IN
  IF e.type = "table" THEN Reached2(p, e.address) ELSE [level |-> 1, entry |-> e]

Reached0(p, t) ==
  LET e == Entry(t, IndexOf(p, 0)) IN
  IF e.type = "table" THEN Reached1(p, e.address) ELSE [level |-> 0, entry |-> e]

Reached(p) == IF RootTableLevel = 0 THEN Reached0(p, 1) ELSE Reached1(p, 1)

Translation(p) ==
  LET r == Reached(p) IN
  IF r.entry.type = "invalid" THEN Unmapped
  ELSE [to |-> r.entry.address + (p % BlockSize(r.level)), bits |-> r.entry.bits]

Init ==
  /\ mmu = "configuring"
  /\ configured \in MemoryTables /\ MemoryTable = configured
  /\ tables = <<[i \in 0 .. Radix - 1 |-> Invalid]>>
  /\ pc = "idle" /\ status = "SUCCESS"
  /\ call = [start |-> 0, length |-> 0, attrs |-> {}, mask |-> {}]
  /\ RegionStart = 0 /\ RegionLength = 0
  /\ TranslationTable = 1 /\ IndexLevel = RootTableLevel /\ PageLevel = 3 /\ Slot = 0
  /\ calls = 0

(***************************************************************************)
(* GetBlockEntryListFromAddress.                                           *)
(***************************************************************************)

\* The block must start and fit in what is left; at address 0, which is aligned
\* to anything, the alignment of the size counts.  No blocks at level 0.
Fits(level) ==
  /\ (IF RegionStart = 0 THEN RegionLength ELSE RegionStart) % BlockSize(level) = 0
  /\ RegionLength >= BlockSize(level)

Find ==
  /\ pc = "find"
  /\ pc' = "walk"
  /\ PageLevel' = Min({level \in 1 .. 3 : Fits(level)})
  /\ TranslationTable' = 1 /\ IndexLevel' = RootTableLevel
  /\ UNCHANGED <<mmu, setting, tables, call, region, Slot, status, calls>>

BlockEntry == Entry(TranslationTable, IndexOf(RegionStart, IndexLevel))

\* A table is entered; one at the level looked for is looked into, not replaced.
Descend ==
  /\ pc = "walk" /\ BlockEntry.type = "table"
  /\ TranslationTable' = BlockEntry.address
  /\ IndexLevel' = IndexLevel + 1
  /\ PageLevel' = IF IndexLevel = PageLevel THEN PageLevel + 1 ELSE PageLevel
  /\ UNCHANGED <<mmu, setting, tables, pc, call, region, Slot, status, calls>>

\* Mistake: all the entries of the new table map the start of the block.
SplitAtStart(i) == Block(BlockStart(RegionStart, IndexLevel), BlockEntry.bits)

\* The entries of a table that takes the place of a block.
SplitEntry(i) ==
  Block(BlockStart(RegionStart, IndexLevel) + i * BlockSize(IndexLevel + 1),
        BlockEntry.bits)

NewTable == [i \in 0 .. Radix - 1 |-> IF BlockEntry.type = "block" THEN SplitEntry(i)
                                      ELSE Invalid]

\* A block or nothing above the level looked for becomes a table.
Allocate ==
  /\ pc = "walk" /\ BlockEntry.type # "table" /\ IndexLevel # PageLevel
  /\ LET new == Len(tables) + 1
         slot == IndexOf(RegionStart, IndexLevel)
     IN /\ tables' = Append([tables EXCEPT ![TranslationTable][slot] = Table(new)],
                            NewTable)
        /\ TranslationTable' = new
  /\ IndexLevel' = IndexLevel + 1
  /\ UNCHANGED <<mmu, setting, pc, call, region, PageLevel, Slot, status, calls>>

AllocateFails ==
  /\ pc = "walk" /\ BlockEntry.type # "table" /\ IndexLevel # PageLevel
  /\ MayFail
  /\ pc' = "return"
  /\ UNCHANGED <<mmu, setting, tables, call, region, walk, Slot, status, calls>>

Found ==
  /\ pc = "walk" /\ BlockEntry.type # "table" /\ IndexLevel = PageLevel
  /\ pc' = "fill"
  /\ Slot' = IndexOf(RegionStart, PageLevel)
  /\ UNCHANGED <<mmu, setting, tables, call, region, walk, status, calls>>

(***************************************************************************)
(* The loops of UpdateRegionMapping.                                       *)
(***************************************************************************)
\* Mistake: the length is not counted down.
NothingLess == RegionLength

Less == RegionLength - BlockSize(PageLevel)

\* The next entry is a table.
TableNext ==
  PageLevel # 3 /\ Slot < LastSlot(PageLevel)
    /\ Entry(TranslationTable, Slot + 1).type = "table"

Fill ==
  /\ pc = "fill"
  /\ tables' = [tables EXCEPT ![TranslationTable][Slot] =
                  Block(RegionStart, (@.bits \cap call.mask) \cup call.attrs)]
  /\ RegionStart' = (RegionStart + BlockSize(PageLevel)) % AddressLimit
  /\ RegionLength' = Less
  /\ IF ~TableNext /\ RegionLength' >= BlockSize(PageLevel) /\ Slot < LastSlot(PageLevel)
     THEN /\ Slot' = Slot + 1
          /\ UNCHANGED pc
     ELSE /\ pc' = IF RegionLength' = 0 THEN "return" ELSE "find"
          /\ UNCHANGED Slot
  /\ UNCHANGED <<mmu, setting, call, walk, status, calls>>

Start(c) ==
  /\ pc' = "find" /\ call' = c
  /\ RegionStart' = c.start /\ RegionLength' = c.length
  /\ status' = "busy"

(***************************************************************************)
(* ArmConfigureMmu, and the clients.                                       *)
(***************************************************************************)
FillTranslationTable ==
  /\ mmu = "configuring" /\ pc = "idle" /\ MemoryTable # << >>
  /\ Start(Head(MemoryTable))
  /\ MemoryTable' = Tail(MemoryTable)
  /\ UNCHANGED <<mmu, configured, tables, walk, Slot, calls>>

\* ArmConfigureMmu gives up and frees the root.
AfterFailure == "off"

\* A call that returns before its end has found no memory.
Return ==
  /\ pc = "return"
  /\ pc' = "idle"
  /\ status' = IF RegionLength = 0 THEN "SUCCESS" ELSE "OUT_OF_RESOURCES"
  /\ mmu' = IF mmu = "configuring" /\ RegionLength # 0 THEN AfterFailure ELSE mmu
  /\ UNCHANGED <<setting, tables, call, region, walk, Slot, calls>>

ArmEnableMmu ==
  /\ mmu = "configuring" /\ pc = "idle" /\ MemoryTable = << >>
  /\ mmu' = "on"
  /\ UNCHANGED <<setting, tables, pc, call, region, walk, Slot, status, calls>>

\* ArmSetMemoryAttributes and its relatives: they differ in attributes and mask.
SetMemoryRegionAttribute(c) ==
  /\ mmu = "on" /\ pc = "idle" /\ calls < MaxCalls
  /\ Start(c)
  /\ calls' = calls + 1
  /\ UNCHANGED <<mmu, setting, tables, walk, Slot>>

\* The MMU stays off; or the clients have no more to call.
Finished == /\ pc = "idle"
            /\ mmu = "off" \/ (mmu = "on" /\ calls = MaxCalls)
            /\ UNCHANGED vars

Update == Find \/ Descend \/ Allocate \/ AllocateFails \/ Found \/ Fill \/ Return

Next ==
  \/ Update
  \/ FillTranslationTable \/ ArmEnableMmu
  \/ \E c \in Calls : SetMemoryRegionAttribute(c)
  \/ Finished

Spec == Init /\ [][Next]_vars

\* The loops run: nothing in them waits.
FairSpec == Spec /\ WF_vars(Update)

(***************************************************************************)
(* Correctness.                                                            *)
(***************************************************************************)

Map == INSTANCE MemoryMap WITH
         Page <- Pages,
         map <- [p \in Pages |-> Translation(p)],
         call <- [attrs |-> call.attrs, mask |-> call.mask],
         todo <- IF status = "busy" THEN RegionStart .. RegionStart + RegionLength - 1
                 ELSE {}

\* Whatever blocks are split and whatever tables are in the way, a call changes
\* the pages of its region only, each of them once and as asked; no other page,
\* such as the one the code runs from, ever translates otherwise, not even
\* between two writes (UpdateRegionMapping, GetBlockEntryListFromAddress).
ImplementsMemoryMap == Map!Spec

\* "to avoid page table memory leak": every table but the root is the target of
\* one entry of one other table, so none is lost and none is shared.
References(t) ==
  {e \in (1 .. Len(tables)) \X (0 .. Radix - 1) : Entry(e[1], e[2]) = Table(t)}

NoTableLost == \A t \in 2 .. Len(tables) : \E e \in References(t) : References(t) = {e}

\* "The MMU is only enabled after the translation tables are populated": when it
\* goes on, each page has the attributes of the last region that contains it, and
\* a page of no region is not mapped.
Covers(c, p) == c.start <= p /\ p < c.start + c.length

ToldAbout(p) == {i \in DOMAIN configured : Covers(configured[i], p)}

EnabledAsTold ==
  [][mmu # "on" /\ mmu' = "on" =>
       \A p \in Pages :
         Translation(p) = IF ToldAbout(p) = {} THEN Unmapped
                          ELSE [to |-> p, bits |-> configured[Max(ToldAbout(p))].attrs]]_vars

\* Every call ends: each turn of the loops maps at least one page.
CallsEnd == []<>(pc = "idle")
=============================================================================
