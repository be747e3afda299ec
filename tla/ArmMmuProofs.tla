---------------------------- MODULE ArmMmuProofs ----------------------------
(***************************************************************************)
(* No build of ArmMmuLib loses or shares a translation table, for tables   *)
(* of any size, any memory maps, any calls and any failing allocations.    *)
(*                                                                         *)
(* AArch64: a write of an entry loses a table if the entry pointed to one. *)
(* The walk has looked at the first entry it writes; the loop looks at the *)
(* next one only above level 3, so that at level 3 there must be no entry  *)
(* that points to a table.  The invariant gives each table a level, one    *)
(* more than that of the table that points to it, and the walk is at the   *)
(* level of its table.                                                     *)
(*                                                                         *)
(* 32-bit Arm: a table is lost if a section or a second table takes its    *)
(* entry, or if a step leaves the first level table.  The rest of a region *)
(* ends below 4 GB, and what UpdatePageEntries leaves of a chunk is whole  *)
(* sections.                                                               *)
(*                                                                         *)
(* Then both builds implement MemoryMap: what an entry is written for is   *)
(* what the MMU sees change.  And the MMU goes on only with the map that   *)
(* ArmConfigureMmu was given: the last region begun decides each page.     *)
(***************************************************************************)
EXTENDS MCArmMmu, TLAPS

(***************************************************************************)
(* AArch64: types.                                                         *)
(***************************************************************************)
Slots == 0 .. Radix - 1

Entries == [type : {"invalid", "block", "table"}, address : Int, bits : SUBSET Bit]

Numbers == 1 .. Len(tables)

TableTypes ==
  /\ tables \in Seq([Slots -> Entries])
  /\ TranslationTable \in Numbers
  /\ IndexLevel \in Levels /\ PageLevel \in 1 .. 3 /\ Slot \in Slots
  /\ MemoryTable \in Seq(Call)
  /\ call.attrs \in SUBSET Bit /\ call.mask \in SUBSET Bit
  /\ RegionStart \in Nat /\ RegionLength \in Nat
  /\ pc \in {"idle", "find", "walk", "fill", "return"}

\* There is always a block that fits.
Lengths ==
  /\ pc = "find" => RegionLength > 0
  /\ pc \in {"walk", "fill"} => RegionLength >= BlockSize(PageLevel)

\* Each table is one level below the table that points to it.
Levelled(L) ==
  /\ L \in [Numbers -> Levels] /\ L[1] = RootTableLevel
  /\ \A u \in Numbers, i \in Slots :
       Entry(u, i).type = "table" =>
         /\ Entry(u, i).address \in Numbers
         /\ Entry(u, i) = Table(Entry(u, i).address)
         /\ L[Entry(u, i).address] = L[u] + 1
  /\ pc \in {"walk", "fill"} => L[TranslationTable] = IndexLevel

\* The walk never passes the level it looks for, and an entry that is written is no
\* table.
Walking ==
  /\ pc = "walk" => IndexLevel <= PageLevel
  /\ pc = "fill" => IndexLevel = PageLevel /\ Entry(TranslationTable, Slot).type # "table"

TableInv == /\ TableTypes /\ Lengths /\ Walking /\ NoTableLost
            /\ \E L \in [Numbers -> Levels] : Levelled(L)

(***************************************************************************)
(* AArch64: blocks and slots.                                              *)
(***************************************************************************)
\* A block is no smaller than those of the next level, and at least a page.
LEMMA BlockSizes ==
  /\ \A level \in Levels : BlockSize(level) \in Nat /\ BlockSize(level) >= 1
  /\ \A level \in 1 .. 2 : BlockSize(level + 1) <= BlockSize(level)
  /\ BlockSize(3) = 1
  <1> DEFINE square == Radix * Radix
             cube == square * Radix
  <1>1. Radix \in Nat /\ Radix >= 2
    BY RadixAssumption
  <1>2. square \in Nat /\ square >= Radix
    <2>1. square = Radix + Radix * (Radix - 1)
      BY <1>1
    <2>2. Radix * (Radix - 1) \in Nat
      BY <1>1
    <2> QED BY <1>1, <2>1, <2>2
  <1> HIDE DEF square
  <1>3. cube \in Nat /\ cube >= square
    <2>1. cube = square + square * (Radix - 1)
      BY <1>1, <1>2
    <2>2. square * (Radix - 1) \in Nat
      BY <1>1, <1>2
    <2> QED BY <1>2, <2>1, <2>2
  <1>4. /\ BlockSize(3) = 1 /\ BlockSize(2) = Radix
        /\ BlockSize(1) = square /\ BlockSize(0) = cube
    BY DEF BlockSize, square
  <1> HIDE DEF cube
  <1>5. \A level \in Levels : level \in {0, 1, 2, 3}
    BY DEF Levels
  <1>6. \A level \in 1 .. 2 : level \in {1, 2}
    OBVIOUS
  <1>7. \A level \in Levels : BlockSize(level) \in Nat /\ BlockSize(level) >= 1
    BY <1>1, <1>2, <1>3, <1>4, <1>5
  <1>8. \A level \in 1 .. 2 : BlockSize(level + 1) <= BlockSize(level)
    <2>1. BlockSize(1 + 1) <= BlockSize(1) /\ BlockSize(2 + 1) <= BlockSize(2)
      BY <1>1, <1>2, <1>4
    <2> QED BY <2>1, <1>6
  <1> QED BY <1>4, <1>7, <1>8

\* What the walk looks at is an entry of its table.
LEMMA SlotOf ==
  ASSUME NEW level \in Levels, RegionStart \in Nat
  PROVE  IndexOf(RegionStart, level) \in Slots
  <1> DEFINE b == BlockSize(level)
             q == RegionStart \div b
  <1>1. b \in Nat /\ b >= 1
    BY BlockSizes
  <1> HIDE DEF b
  <1>2. q \in Int
    BY <1>1
  <1> HIDE DEF q
  <1>3. q % Radix \in 0 .. Radix - 1
    BY <1>2, RadixAssumption
  <1> QED BY <1>3 DEF IndexOf, Slots, q, b

LEMMA EntryType ==
  ASSUME tables \in Seq([Slots -> Entries]), NEW u \in Numbers, NEW i \in Slots
  PROVE  Entry(u, i) \in Entries
  <1>1. tables[u] \in [Slots -> Entries]
    BY DEF Numbers
  <1> QED BY <1>1 DEF Entry

(***************************************************************************)
(* AArch64: the steps.                                                     *)
(***************************************************************************)
\* Where the tables stay as they are, what the tables promise stays so too.
LEMMA SameTables ==
  ASSUME TableInv, UNCHANGED tables,
         TableTypes', Lengths', Walking',
         pc' \in {"walk", "fill"} =>
           \/ TranslationTable' = 1 /\ IndexLevel' = RootTableLevel
           \/ pc \in {"walk", "fill"} /\ UNCHANGED <<TranslationTable, IndexLevel>>
           \/ /\ pc \in {"walk", "fill"} /\ IndexLevel' = IndexLevel + 1
              /\ \E i \in Slots : Entry(TranslationTable, i) = Table(TranslationTable')
  PROVE  TableInv'
  <1>1. PICK L \in [Numbers -> Levels] : Levelled(L)
    BY DEF TableInv
  <1>2. \A u, i : Entry(u, i)' = Entry(u, i)
    BY DEF Entry
  <1>3. Numbers' = Numbers
    BY DEF Numbers
  <1>4. \A t : References(t)' = References(t)
    BY DEF References, Entry
  <1>5. NoTableLost'
    BY <1>4 DEF TableInv, NoTableLost
  <1>6. ASSUME pc' \in {"walk", "fill"} PROVE L[TranslationTable'] = IndexLevel'
    <2>1. CASE TranslationTable' = 1 /\ IndexLevel' = RootTableLevel
      BY <1>1, <2>1 DEF Levelled
    <2>2. CASE pc \in {"walk", "fill"} /\ UNCHANGED <<TranslationTable, IndexLevel>>
      BY <1>1, <2>2 DEF Levelled
    <2>3. CASE /\ pc \in {"walk", "fill"} /\ IndexLevel' = IndexLevel + 1
               /\ \E i \in Slots : Entry(TranslationTable, i) = Table(TranslationTable')
      <3>1. PICK i \in Slots : Entry(TranslationTable, i) = Table(TranslationTable')
        BY <2>3
      <3>2. Entry(TranslationTable, i).type = "table"
            /\ Entry(TranslationTable, i).address = TranslationTable'
        BY <3>1 DEF Table
      <3>3. TranslationTable \in Numbers
        BY DEF TableInv, TableTypes
      <3> QED BY <1>1, <2>3, <3>2, <3>3 DEF Levelled
    <2> QED BY <1>6, <2>1, <2>2, <2>3
  <1>7. Levelled(L)'
    BY <1>1, <1>2, <1>3, <1>6 DEF Levelled
  <1> QED BY <1>1, <1>3, <1>5, <1>7 DEF TableInv

LEMMA FindStep ==
  ASSUME TableInv, Find
  PROVE  TableInv'
  <1> USE DEF Find
  <1> DEFINE fitting == {level \in 1 .. 3 : Fits(level)}
  <1>1. RegionStart \in Nat /\ RegionLength \in Nat /\ RegionLength > 0
    BY DEF TableInv, TableTypes, Lengths
  <1>2. Fits(3)
    BY <1>1, BlockSizes DEF Fits
  <1>3. Min(fitting) \in fitting
    <2>1. \E x \in fitting : \A y \in fitting : x =< y
      <3>1. CASE 1 \in fitting
        BY <3>1
      <3>2. CASE 1 \notin fitting /\ 2 \in fitting
        BY <3>2
      <3>3. CASE 1 \notin fitting /\ 2 \notin fitting
        <4>1. \A y \in fitting : y = 3
          BY <3>3
        <4> QED BY <1>2, <4>1
      <3> QED BY <3>1, <3>2, <3>3
    <2> QED BY <2>1 DEF Min
  <1>4. PageLevel' \in 1 .. 3 /\ RegionLength >= BlockSize(PageLevel')
    BY <1>3 DEF Fits
  <1>5. RootTableLevel \in Levels /\ RootTableLevel <= PageLevel' /\ 1 \in Numbers
    <2>1. RootTableLevel \in {0, 1}
      BY RootAssumption
    <2>2. 1 \in Numbers
      BY DEF TableInv, TableTypes, Numbers
    <2> QED BY <1>4, <2>1, <2>2 DEF Levels
  <1>6. TableTypes'
    BY <1>4, <1>5 DEF TableInv, TableTypes, Numbers, setting, region
  <1>7. Lengths'
    BY <1>4 DEF TableInv, Lengths, BlockSize, region
  <1>8. Walking'
    BY <1>5 DEF Walking
  <1> QED BY <1>6, <1>7, <1>8, SameTables

LEMMA DescendStep ==
  ASSUME TableInv, Descend
  PROVE  TableInv'
  <1> USE DEF Descend
  <1> DEFINE i == IndexOf(RegionStart, IndexLevel)
  <1>1. /\ TranslationTable \in Numbers /\ i \in Slots
        /\ IndexLevel \in Levels /\ PageLevel \in 1 .. 3 /\ IndexLevel <= PageLevel
    BY SlotOf DEF TableInv, TableTypes, Walking
  <1>2. PICK L \in [Numbers -> Levels] : Levelled(L)
    BY DEF TableInv
  <1>3. /\ TranslationTable' \in Numbers
        /\ Entry(TranslationTable, i) = Table(TranslationTable')
        /\ IndexLevel' \in Levels
    <2>1. Entry(TranslationTable, i).type = "table"
      BY DEF BlockEntry
    <2>2. L[TranslationTable] = IndexLevel
      BY <1>2 DEF Levelled
    <2>3. L[Entry(TranslationTable, i).address] = IndexLevel + 1
          /\ Entry(TranslationTable, i).address \in Numbers
          /\ Entry(TranslationTable, i) = Table(Entry(TranslationTable, i).address)
      BY <1>1, <1>2, <2>1, <2>2 DEF Levelled
    <2>4. L[TranslationTable'] \in Levels
      BY <1>2, <2>3 DEF BlockEntry
    <2> QED BY <2>3, <2>4 DEF BlockEntry
  <1>4. PageLevel' \in 1 .. 3 /\ RegionLength >= BlockSize(PageLevel')
    <2>1. CASE IndexLevel = PageLevel
      <3>1. PageLevel \in 1 .. 2 /\ PageLevel' = PageLevel + 1
        BY <1>1, <1>3, <2>1 DEF Levels
      <3>2. /\ BlockSize(PageLevel + 1) <= BlockSize(PageLevel)
            /\ BlockSize(PageLevel + 1) \in Nat /\ BlockSize(PageLevel) \in Nat
        BY <3>1, BlockSizes DEF Levels
      <3>3. RegionLength >= BlockSize(PageLevel) /\ RegionLength \in Nat
        BY DEF TableInv, TableTypes, Lengths
      <3> QED BY <3>1, <3>2, <3>3
    <2>2. CASE IndexLevel # PageLevel
      BY <1>1, <2>2 DEF TableInv, Lengths
    <2> QED BY <2>1, <2>2
  <1>5. TableTypes'
    BY <1>3, <1>4 DEF TableInv, TableTypes, Numbers, setting, region
  <1>6. Lengths'
    BY <1>4 DEF Lengths, BlockSize, region
  <1>7. Walking'
    BY <1>1, <1>3 DEF Walking, Levels
  <1> QED BY <1>1, <1>3, <1>5, <1>6, <1>7, SameTables

\* The table found has the entry at its level, and the loop begins at it.
LEMMA FoundStep ==
  ASSUME TableInv, Found
  PROVE  TableInv'
  <1> USE DEF Found
  <1>1. /\ PageLevel \in Levels /\ RegionStart \in Nat /\ Slot' \in Slots
        /\ TranslationTable \in Numbers
    <2>1. PageLevel \in Levels /\ RegionStart \in Nat /\ TranslationTable \in Numbers
      BY DEF TableInv, TableTypes, Levels
    <2> QED BY <2>1, SlotOf
  <1>2. TableTypes'
    BY <1>1 DEF TableInv, TableTypes, Numbers, setting, region, walk
  <1>3. Lengths'
    BY DEF TableInv, Lengths, BlockSize, region, walk
  <1>4. Walking'
    BY DEF Walking, BlockEntry, Entry, walk
  <1> QED BY <1>2, <1>3, <1>4, SameTables DEF walk

\* Steps that neither write an entry nor walk.
LEMMA OtherStep ==
  ASSUME TableInv,
         AllocateFails \/ FillTranslationTable \/ Return \/ ArmEnableMmu
           \/ (\E c \in Calls : SetMemoryRegionAttribute(c)) \/ UNCHANGED vars
  PROVE  TableInv'
  <1>1. CASE AllocateFails
    <2>1. TableTypes' /\ Lengths' /\ Walking'
      BY <1>1 DEF AllocateFails, TableInv, TableTypes, Lengths, Walking, Numbers, setting,
                  region, walk
    <2> QED BY <1>1, <2>1, SameTables DEF AllocateFails
  <1>2. CASE FillTranslationTable
    <2>1. Head(MemoryTable) \in Call /\ Tail(MemoryTable) \in Seq(Call)
      BY <1>2 DEF FillTranslationTable, TableInv, TableTypes
    <2>2. TableTypes' /\ Lengths' /\ Walking'
      BY <1>2, <2>1 DEF FillTranslationTable, Start, Call, TableInv, TableTypes, Lengths,
                        Walking, Numbers, walk
    <2> QED BY <1>2, <2>2, SameTables DEF FillTranslationTable, Start
  <1>3. CASE Return
    <2>1. TableTypes' /\ Lengths' /\ Walking'
      BY <1>3 DEF Return, TableInv, TableTypes, Lengths, Walking, Numbers, setting, region,
                  walk
    <2> QED BY <1>3, <2>1, SameTables DEF Return
  <1>4. CASE ArmEnableMmu
    <2>1. TableTypes' /\ Lengths' /\ Walking'
      BY <1>4 DEF ArmEnableMmu, TableInv, TableTypes, Lengths, Walking, Numbers, setting,
                  region, walk
    <2> QED BY <1>4, <2>1, SameTables DEF ArmEnableMmu
  <1>5. ASSUME NEW c \in Calls, SetMemoryRegionAttribute(c) PROVE TableInv'
    <2>1. c \in Call
      BY CallAssumption
    <2>2. TableTypes' /\ Lengths' /\ Walking'
      BY <1>5, <2>1 DEF SetMemoryRegionAttribute, Start, Call, TableInv, TableTypes, Lengths,
                        Walking, Numbers, setting, walk
    <2> QED BY <1>5, <2>2, SameTables DEF SetMemoryRegionAttribute, Start
  <1>6. CASE UNCHANGED vars
    <2>1. TableTypes' /\ Lengths' /\ Walking'
      BY <1>6 DEF vars, TableInv, TableTypes, Lengths, Walking, Numbers, BlockSize, Entry
    <2> QED BY <1>6, <2>1, SameTables DEF vars
  <1> QED BY <1>1, <1>2, <1>3, <1>4, <1>5, <1>6

\* What Fill writes.
Written == Block(RegionStart, (Entry(TranslationTable, Slot).bits \cap call.mask) \cup call.attrs)

LEMMA FillWrites ==
  ASSUME TableInv, Fill
  PROVE  /\ Written \in Entries /\ Written.type = "block"
         /\ tables' \in Seq([Slots -> Entries]) /\ Len(tables') = Len(tables)
         /\ Numbers' = Numbers
         /\ \A u \in Numbers, i \in Slots :
              Entry(u, i)' = IF u = TranslationTable /\ i = Slot THEN Written ELSE Entry(u, i)
  <1> USE DEF Fill
  <1> DEFINE full == tables[TranslationTable]
  <1>1. /\ tables \in Seq([Slots -> Entries]) /\ TranslationTable \in Numbers /\ Slot \in Slots
        /\ RegionStart \in Nat
    BY DEF TableInv, TableTypes
  <1>2. Written \in Entries /\ Written.type = "block"
    <2>1. Entry(TranslationTable, Slot) \in Entries
      BY <1>1, EntryType
    <2>2. call.attrs \in SUBSET Bit /\ call.mask \in SUBSET Bit
      BY DEF TableInv, TableTypes
    <2> QED BY <1>1, <2>1, <2>2 DEF Entries, Block, Written
  <1>3. tables' = [tables EXCEPT ![TranslationTable] = [full EXCEPT ![Slot] = Written]]
    BY DEF Entry, Written
  <1>4. full \in [Slots -> Entries]
    BY <1>1 DEF Numbers
  <1>5. tables' \in Seq([Slots -> Entries]) /\ Len(tables') = Len(tables) /\ Numbers' = Numbers
    BY <1>1, <1>2, <1>3, <1>4 DEF Numbers
  <1>6. ASSUME NEW u \in Numbers, NEW i \in Slots
        PROVE  Entry(u, i)' = IF u = TranslationTable /\ i = Slot THEN Written ELSE Entry(u, i)
    BY <1>1, <1>3, <1>4 DEF Entry, Numbers
  <1> QED BY <1>2, <1>5, <1>6

\* What fills an entry that is no table takes no table away.
LEMMA FillStep ==
  ASSUME TableInv, Fill
  PROVE  TableInv'
  <1> USE DEF Fill
  <1> DEFINE b == Written
  <1>1. /\ tables \in Seq([Slots -> Entries]) /\ TranslationTable \in Numbers /\ Slot \in Slots
        /\ Entry(TranslationTable, Slot).type # "table" /\ IndexLevel = PageLevel
        /\ RegionStart \in Nat /\ RegionLength \in Nat /\ PageLevel \in 1 .. 3
        /\ RegionLength >= BlockSize(PageLevel)
        /\ BlockSize(PageLevel) \in Nat /\ BlockSize(PageLevel) >= 1
    BY BlockSizes DEF TableInv, TableTypes, Walking, Lengths, Levels
  <1>2. PICK L \in [Numbers -> Levels] : Levelled(L)
    BY DEF TableInv
  <1>3. b \in Entries /\ b.type = "block"
    BY FillWrites
  <1>4. tables' \in Seq([Slots -> Entries]) /\ Len(tables') = Len(tables)
    BY FillWrites
  <1>5. ASSUME NEW u \in Numbers, NEW i \in Slots
        PROVE  Entry(u, i)' = IF u = TranslationTable /\ i = Slot THEN b ELSE Entry(u, i)
    BY FillWrites
  <1> HIDE DEF b
  <1>6. \A t : b # Table(t) /\ Entry(TranslationTable, Slot) # Table(t)
    BY <1>1, <1>3 DEF Table
  <1>7. ASSUME NEW t PROVE References(t)' = References(t)
    <2>1. \A e \in Numbers \X Slots : Entry(e[1], e[2])' = Table(t) <=> Entry(e[1], e[2]) = Table(t)
      BY <1>5, <1>6
    <2> QED BY <1>4, <2>1 DEF References, Numbers, Slots
  <1>8. NoTableLost'
    BY <1>4, <1>7 DEF TableInv, NoTableLost
  <1>9. Levelled(L)'
    BY <1>2, <1>3, <1>4, <1>5 DEF Levelled, Numbers, walk
  <1>10. RegionStart' \in Nat /\ RegionLength' \in Nat
    <2>1. RegionStart + BlockSize(PageLevel) \in Nat
      BY <1>1
    <2>2. AddressLimit \in Nat /\ AddressLimit > 0
      BY BoundAssumption
    <2>3. RegionStart' \in Nat
      BY <2>1, <2>2
    <2>4. RegionLength' \in Nat
      BY <1>1 DEF Less
    <2> QED BY <2>3, <2>4
  <1>11. CASE pc' = "fill" /\ Slot' = Slot + 1 /\ RegionLength' >= BlockSize(PageLevel)
              /\ ~TableNext /\ Slot < LastSlot(PageLevel)
    <2>1. Slot + 1 \in Slots
      <3>1. LastSlot(PageLevel) \in Int /\ LastSlot(PageLevel) <= Radix - 1
        BY RadixAssumption, RootAssumption DEF LastSlot
      <3> QED BY <1>1, <1>11, <3>1, RadixAssumption DEF Slots
    <2>2. Entry(TranslationTable, Slot + 1).type # "table"
      <3>1. CASE PageLevel # 3
        BY <1>11, <3>1 DEF TableNext
      <3>2. CASE PageLevel = 3
        <4>1. L[TranslationTable] = 3
          BY <1>1, <1>2, <3>2 DEF Levelled
        <4>2. \A u \in Numbers : L[u] # 4
          BY <1>2 DEF Levels
        <4> QED BY <1>1, <1>2, <2>1, <4>1, <4>2 DEF Levelled
      <3> QED BY <3>1, <3>2
    <2>3. TableTypes'
      BY <1>1, <1>4, <1>10, <1>11, <2>1 DEF TableInv, TableTypes, Numbers, setting, walk
    <2>4. Lengths'
      BY <1>11 DEF Lengths, BlockSize, walk
    <2>5. Walking'
      <3>1. tables'[TranslationTable][Slot + 1] = Entry(TranslationTable, Slot + 1)
        BY <1>1, <1>5, <2>1 DEF Entry, Slots
      <3>2. Entry(TranslationTable, Slot)' = Entry(TranslationTable, Slot + 1)
        BY <1>11, <3>1 DEF Entry, walk
      <3> QED BY <1>1, <1>11, <2>2, <3>2 DEF Walking, walk
    <2> QED BY <1>2, <1>4, <1>8, <1>9, <2>3, <2>4, <2>5 DEF TableInv, Numbers
  <1>12. CASE UNCHANGED Slot /\ pc' = (IF RegionLength' = 0 THEN "return" ELSE "find")
    <2>1. TableTypes'
      BY <1>1, <1>4, <1>10, <1>12 DEF TableInv, TableTypes, Numbers, setting, walk
    <2>2. Lengths'
      BY <1>10, <1>12 DEF Lengths
    <2>3. Walking'
      BY <1>12 DEF Walking
    <2> QED BY <1>2, <1>4, <1>8, <1>9, <2>1, <2>2, <2>3 DEF TableInv, Numbers
  <1> QED BY <1>11, <1>12

\* The entries of a new table point to no table.
LEMMA NewTableType ==
  ASSUME TableInv, pc = "walk", BlockEntry.type # "table", IndexLevel # PageLevel
  PROVE  /\ NewTable \in [Slots -> Entries] /\ \A i \in Slots : NewTable[i].type # "table"
         /\ IndexLevel + 1 \in Levels /\ IndexLevel + 1 <= PageLevel
         /\ IndexOf(RegionStart, IndexLevel) \in Slots
  <1>1. /\ RegionStart \in Nat /\ IndexLevel \in Levels /\ PageLevel \in 1 .. 3
        /\ IndexLevel <= PageLevel /\ TranslationTable \in Numbers
        /\ tables \in Seq([Slots -> Entries])
    BY DEF TableInv, TableTypes, Walking
  <1>2. IndexLevel + 1 \in Levels /\ IndexLevel + 1 <= PageLevel
    BY <1>1 DEF Levels
  <1>3. IndexOf(RegionStart, IndexLevel) \in Slots
    BY <1>1, SlotOf
  <1>4. BlockEntry \in Entries
    BY <1>1, <1>3, EntryType DEF BlockEntry
  <1>5. ASSUME NEW i \in Slots PROVE SplitEntry(i) \in Entries /\ SplitEntry(i).type = "block"
    <2> DEFINE start == BlockStart(RegionStart, IndexLevel)
               next == BlockSize(IndexLevel + 1)
    <2>1. start \in Int
      <3>1. BlockSize(IndexLevel) \in Nat /\ BlockSize(IndexLevel) >= 1
        BY <1>1, BlockSizes
      <3> QED BY <1>1, <3>1 DEF BlockStart
    <2>2. next \in Nat
      BY <1>2, BlockSizes
    <2>3. i \in Nat
      BY RadixAssumption DEF Slots
    <2> HIDE DEF start, next
    <2>4. start + i * next \in Int
      BY <2>1, <2>2, <2>3
    <2>5. SplitEntry(i) = Block(start + i * next, BlockEntry.bits)
      BY DEF SplitEntry, start, next
    <2> QED BY <1>4, <2>4, <2>5 DEF Entries, Block
  <1>6. Invalid \in Entries /\ Invalid.type # "table"
    BY DEF Invalid, Entries
  <1>7. NewTable = [i \in Slots |-> IF BlockEntry.type = "block" THEN SplitEntry(i) ELSE Invalid]
    BY DEF NewTable, Slots
  <1> QED BY <1>2, <1>3, <1>5, <1>6, <1>7

LEMMA Appended ==
  ASSUME NEW S, NEW s \in Seq(S), NEW x \in S
  PROVE  /\ Append(s, x) \in Seq(S) /\ Len(Append(s, x)) = Len(s) + 1 /\ Len(s) \in Nat
         /\ \A u \in 1 .. Len(s) : Append(s, x)[u] = s[u]
         /\ Append(s, x)[Len(s) + 1] = x
  OBVIOUS

\* What Allocate writes.
LEMMA AllocateWrites ==
  ASSUME TableInv, Allocate
  PROVE  LET new == Len(tables) + 1
             slot == IndexOf(RegionStart, IndexLevel)
         IN /\ tables' \in Seq([Slots -> Entries]) /\ Len(tables') = new
            /\ TranslationTable' = new /\ Numbers' = Numbers \cup {new} /\ new \notin Numbers
            /\ slot \in Slots
            /\ \A u \in Numbers', i \in Slots :
                 Entry(u, i)' = IF u = new THEN NewTable[i]
                                ELSE IF u = TranslationTable /\ i = slot THEN Table(new)
                                ELSE Entry(u, i)
  <1> USE DEF Allocate
  <1> DEFINE new == Len(tables) + 1
             slot == IndexOf(RegionStart, IndexLevel)
             changed == [tables EXCEPT ![TranslationTable] =
                           [tables[TranslationTable] EXCEPT ![slot] = Table(new)]]
             fresh == NewTable
  <1>1. /\ tables \in Seq([Slots -> Entries]) /\ TranslationTable \in Numbers
        /\ Len(tables) \in Nat
    BY DEF TableInv, TableTypes
  <1>2. slot \in Slots /\ fresh \in [Slots -> Entries]
    BY NewTableType
  <1>3. tables' = Append(changed, fresh) /\ TranslationTable' = new
    OBVIOUS
  <1> HIDE DEF slot, fresh
  <1>4. Table(new) \in Entries
    BY <1>1 DEF Table, Entries
  <1>5. changed \in Seq([Slots -> Entries]) /\ Len(changed) = Len(tables)
    <2>1. tables[TranslationTable] \in [Slots -> Entries]
      BY <1>1 DEF Numbers
    <2>2. [tables[TranslationTable] EXCEPT ![slot] = Table(new)] \in [Slots -> Entries]
      BY <1>4, <2>1
    <2> QED BY <1>1, <2>2 DEF Numbers
  <1>6. /\ tables' \in Seq([Slots -> Entries]) /\ Len(tables') = new
        /\ Numbers' = Numbers \cup {new} /\ new \notin Numbers
    <2> HIDE DEF changed, Allocate
    <2>1. tables' \in Seq([Slots -> Entries]) /\ Len(tables') = Len(changed) + 1
      BY <1>2, <1>3, <1>5, Appended
    <2> QED BY <1>1, <1>5, <2>1 DEF Numbers
  <1>7. ASSUME NEW u \in Numbers', NEW i \in Slots
        PROVE  tables'[u][i] = IF u = new THEN fresh[i]
                              ELSE IF u = TranslationTable /\ i = slot THEN Table(new)
                              ELSE Entry(u, i)
    <2>1. CASE u = new
      BY <1>1, <1>2, <1>3, <1>5, <2>1
    <2>2. CASE u # new
      <3>1. u \in 1 .. Len(changed) /\ u \in Numbers
        BY <1>5, <1>6, <2>2 DEF Numbers
      <3>2. tables'[u] = changed[u]
        <4> HIDE DEF changed, Allocate
        <4> QED BY <1>2, <1>3, <1>5, <3>1, Appended
      <3>3. tables[u] \in [Slots -> Entries]
        BY <1>1, <3>1 DEF Numbers
      <3> QED BY <1>1, <2>2, <3>1, <3>2, <3>3 DEF Entry, Numbers
    <2> QED BY <2>1, <2>2
  <1>8. \A u \in Numbers', i \in Slots :
          Entry(u, i)' = IF u = new THEN fresh[i]
                         ELSE IF u = TranslationTable /\ i = slot THEN Table(new)
                         ELSE Entry(u, i)
    BY <1>7 DEF Entry
  <1> QED BY <1>2, <1>3, <1>6, <1>8 DEF fresh, slot

\* The new table is the target of the entry it replaces, and nothing else changes.
LEMMA AllocateStep ==
  ASSUME TableInv, Allocate
  PROVE  TableInv'
  <1> USE DEF Allocate
  <1> DEFINE new == Len(tables) + 1
             slot == IndexOf(RegionStart, IndexLevel)
             fresh == NewTable
  <1>1. /\ tables \in Seq([Slots -> Entries]) /\ TranslationTable \in Numbers
        /\ Entry(TranslationTable, slot).type # "table" /\ Len(tables) \in Nat
        /\ Len(tables) >= 1
    BY DEF TableInv, TableTypes, BlockEntry, Numbers
  <1>2. /\ slot \in Slots /\ fresh \in [Slots -> Entries]
        /\ \A i \in Slots : fresh[i].type # "table"
        /\ IndexLevel + 1 \in Levels /\ IndexLevel + 1 <= PageLevel
    BY NewTableType
  <1>3. PICK L \in [Numbers -> Levels] : Levelled(L)
    BY DEF TableInv
  <1>4. TranslationTable' = new
    OBVIOUS
  <1>5. /\ tables' \in Seq([Slots -> Entries]) /\ Len(tables') = new
        /\ Numbers' = Numbers \cup {new} /\ new \notin Numbers
    BY AllocateWrites
  <1>6. ASSUME NEW u \in Numbers', NEW i \in Slots
        PROVE  tables'[u][i] = IF u = new THEN fresh[i]
                              ELSE IF u = TranslationTable /\ i = slot THEN Table(new)
                              ELSE Entry(u, i)
    BY AllocateWrites DEF Entry
  <1> HIDE DEF new, slot, fresh
  <1>7. ASSUME NEW u \in Numbers, NEW i \in Slots PROVE Entry(u, i) # Table(new)
    <2>1. CASE Entry(u, i).type = "table"
      <3>1. Entry(u, i).address \in Numbers
        BY <1>3, <2>1 DEF Levelled
      <3> QED BY <1>5, <3>1 DEF Table
    <2>2. CASE Entry(u, i).type # "table"
      BY <2>2 DEF Table
    <2> QED BY <2>1, <2>2
  <1>8. NoTableLost'
    <2>1. ASSUME NEW t \in Numbers
          PROVE  References(t)' = References(t)
      <3>1. ASSUME NEW u \in Numbers', NEW i \in Slots
            PROVE  tables'[u][i] = Table(t) <=> u \in Numbers /\ Entry(u, i) = Table(t)
        <4>1. Table(new) # Table(t)
          BY <1>5 DEF Table
        <4>2. fresh[i] # Table(t)
          BY <1>2 DEF Table
        <4>3. Entry(TranslationTable, slot) # Table(t)
          BY <1>1 DEF Table
        <4> QED BY <1>5, <1>6, <4>1, <4>2, <4>3
      <3>2. References(t)' = {e \in Numbers' \X Slots : tables'[e[1]][e[2]] = Table(t)}
        BY DEF References, Entry, Numbers, Slots
      <3>3. References(t) = {e \in Numbers \X Slots : Entry(e[1], e[2]) = Table(t)}
        BY DEF References, Numbers, Slots
      <3>4. \A e \in Numbers' \X Slots :
              tables'[e[1]][e[2]] = Table(t) <=> e[1] \in Numbers /\ Entry(e[1], e[2]) = Table(t)
        BY <3>1
      <3>5. \A e : e \in Numbers \X Slots <=> e \in Numbers' \X Slots /\ e[1] \in Numbers
        BY <1>5
      <3> QED BY <3>2, <3>3, <3>4, <3>5
    <2>2. ASSUME NEW x, x = new
          PROVE  References(x)' = {<<TranslationTable, slot>>}
      <3>1. ASSUME NEW e \in Numbers' \X Slots
            PROVE  tables'[e[1]][e[2]] = Table(x) <=> e = <<TranslationTable, slot>>
        <4>1. e[1] \in Numbers' /\ e[2] \in Slots /\ e = <<e[1], e[2]>>
          OBVIOUS
        <4>2. fresh[e[2]] # Table(new)
          BY <1>2, <4>1 DEF Table
        <4>3. tables'[e[1]][e[2]] = Table(new) <=> e[1] = TranslationTable /\ e[2] = slot
          <5> HIDE DEF Allocate
          <5>1. CASE e[1] = new
            BY <1>1, <1>5, <1>6, <4>1, <4>2, <5>1
          <5>2. CASE e[1] # new
            <6>1. e[1] \in Numbers
              BY <1>5, <4>1, <5>2
            <6>2. Entry(e[1], e[2]) # Table(new)
              BY <1>7, <4>1, <6>1
            <6> QED BY <1>6, <4>1, <5>2, <6>2
          <5> QED BY <5>1, <5>2
        <4>4. e = <<TranslationTable, slot>> <=> e[1] = TranslationTable /\ e[2] = slot
          BY <4>1
        <4> QED BY <2>2, <4>3, <4>4
      <3>2. References(x)' = {e \in Numbers' \X Slots : tables'[e[1]][e[2]] = Table(x)}
        BY DEF References, Entry, Numbers, Slots
      <3>3. <<TranslationTable, slot>> \in Numbers' \X Slots
        BY <1>1, <1>2, <1>5
      <3> QED BY <3>1, <3>2, <3>3
    <2>3. ASSUME NEW t \in 2 .. Len(tables')
          PROVE  \E e \in References(t)' : References(t)' = {e}
      <3>1. CASE t = new
        BY <2>2, <3>1
      <3>2. CASE t # new
        <4>1. t \in 2 .. Len(tables)
          BY <1>1, <1>5, <3>2 DEF new
        <4> QED BY <2>1, <4>1 DEF TableInv, NoTableLost, Numbers
      <3> QED BY <3>1, <3>2
    <2> QED BY <2>3 DEF NoTableLost
  <1>9. \E M \in [Numbers' -> Levels] : Levelled(M)'
    <2> DEFINE M == [n \in Numbers' |-> IF n = new THEN IndexLevel + 1 ELSE L[n]]
    <2>1. L[TranslationTable] = IndexLevel
      BY <1>3 DEF Levelled
    <2>2. M \in [Numbers' -> Levels]
      BY <1>2, <1>3, <1>5
    <2>3. M[1] = RootTableLevel /\ M[TranslationTable'] = IndexLevel'
      BY <1>1, <1>3, <1>4, <1>5 DEF Levelled, Numbers
    <2>4. ASSUME NEW u \in Numbers', NEW i \in Slots, tables'[u][i].type = "table"
          PROVE  /\ tables'[u][i].address \in Numbers'
                 /\ tables'[u][i] = Table(tables'[u][i].address)
                 /\ M[tables'[u][i].address] = M[u] + 1
      <3>1. u \in Numbers
        BY <1>2, <1>5, <1>6, <2>4
      <3>2. CASE u = TranslationTable /\ i = slot
        <4>1. tables'[u][i] = Table(new)
          BY <1>5, <1>6, <3>1, <3>2
        <4>2. Table(new).address = new
          BY DEF Table
        <4>3. M[new] = IndexLevel + 1 /\ M[u] = IndexLevel
          BY <1>5, <2>1, <3>1, <3>2
        <4> QED BY <1>5, <4>1, <4>2, <4>3
      <3>3. CASE ~(u = TranslationTable /\ i = slot)
        <4>1. tables'[u][i] = Entry(u, i)
          BY <1>5, <1>6, <3>1, <3>3
        <4>2. /\ Entry(u, i).address \in Numbers /\ Entry(u, i) = Table(Entry(u, i).address)
              /\ L[Entry(u, i).address] = L[u] + 1
          BY <1>3, <2>4, <3>1, <4>1 DEF Levelled
        <4> QED BY <1>5, <3>1, <4>1, <4>2
      <3> QED BY <3>2, <3>3
    <2> HIDE DEF M
    <2>5. \E K \in [Numbers' -> Levels] :
            /\ K[1] = RootTableLevel /\ K[TranslationTable'] = IndexLevel'
            /\ \A u \in Numbers', i \in Slots : tables'[u][i].type = "table" =>
                 /\ tables'[u][i].address \in Numbers'
                 /\ tables'[u][i] = Table(tables'[u][i].address)
                 /\ K[tables'[u][i].address] = K[u] + 1
      BY <2>2, <2>3, <2>4
    <2> QED BY <2>5 DEF Levelled, Entry
  <1>10. TableTypes'
    BY <1>1, <1>2, <1>4, <1>5 DEF TableInv, TableTypes, setting, region
  <1>11. Lengths'
    BY DEF TableInv, Lengths, BlockSize, region
  <1>12. Walking'
    BY <1>2 DEF Walking
  <1> QED BY <1>8, <1>9, <1>10, <1>11, <1>12 DEF TableInv

LEMMA TableInit == Init => TableInv
  <1> SUFFICES ASSUME Init PROVE TableInv
    OBVIOUS
  <1> USE DEF Init
  <1> DEFINE root == [i \in Slots |-> Invalid]
             L == [n \in {1} |-> RootTableLevel]
  <1>1. tables = <<root>> /\ root \in [Slots -> Entries]
    BY DEF Invalid, Entries, Slots
  <1>2. tables \in Seq([Slots -> Entries]) /\ Len(tables) = 1 /\ Numbers = {1}
    BY <1>1 DEF Numbers
  <1>3. RootTableLevel \in Levels
    BY RootAssumption DEF Levels
  <1>4. configured \in Seq(Call)
    BY CallAssumption
  <1>5. 0 \in Slots
    BY RadixAssumption DEF Slots
  <1>6. TableTypes
    BY <1>2, <1>3, <1>4, <1>5 DEF TableTypes
  <1>7. \A u \in Numbers, i \in Slots : Entry(u, i).type # "table"
    <2>1. tables[1] = root
      BY <1>1
    <2>2. \A i \in Slots : root[i] = Invalid
      OBVIOUS
    <2> HIDE DEF root, Init
    <2>3. \A i \in Slots : Entry(1, i) = Invalid
      BY <2>1, <2>2 DEF Entry
    <2> QED BY <1>2, <2>3 DEF Invalid
  <1>8. L \in [Numbers -> Levels] /\ Levelled(L)
    BY <1>2, <1>3, <1>7 DEF Levelled
  <1>9. NoTableLost
    BY <1>2 DEF NoTableLost
  <1> QED BY <1>6, <1>8, <1>9 DEF TableInv, Lengths, Walking

LEMMA TableStep == TableInv /\ [Next]_vars => TableInv'
  <1> SUFFICES ASSUME TableInv, [Next]_vars PROVE TableInv'
    OBVIOUS
  <1>1. CASE Find \/ Descend \/ Found
    BY <1>1, FindStep, DescendStep, FoundStep
  <1>2. CASE Allocate
    BY <1>2, AllocateStep
  <1>3. CASE Fill
    BY <1>3, FillStep
  <1>4. CASE \/ AllocateFails \/ Return \/ FillTranslationTable \/ ArmEnableMmu
             \/ (\E c \in Calls : SetMemoryRegionAttribute(c)) \/ UNCHANGED vars
    BY <1>4, OtherStep
  <1>5. CASE Finished
    BY <1>5, OtherStep DEF Finished
  <1> QED BY <1>1, <1>2, <1>3, <1>4, <1>5 DEF Next, Update

\* GetBlockEntryListFromAddress and UpdateRegionMapping of AArch64 lose no table and
\* make no two entries point to one: "Rerun GetBlockEntryListFromAddress to avoid
\* page table memory leak".
THEOREM TablesAreKept == Spec => []NoTableLost
  <1>1. TableInv => NoTableLost
    BY DEF TableInv
  <1> QED BY <1>1, TableInit, TableStep, PTL DEF Spec

(***************************************************************************)
(* 32-bit Arm: types.                                                      *)
(***************************************************************************)
SectionNumbers == 0 .. Sections - 1

PageTableNumbers == 1 .. Len(PageTables)

Limit == Sections * SectionPages

\* Every entry that points to a page table points to one that was allocated.
ArmTables ==
  /\ FirstLevelTable = [s \in SectionNumbers |-> FirstLevelTable[s]]
  /\ \E S : PageTables \in Seq(S)
  /\ replaced \subseteq PageTableNumbers
  /\ \A s \in SectionNumbers :
       FirstLevelTable[s].type = "table" =>
         /\ FirstLevelTable[s].address \in PageTableNumbers
         /\ FirstLevelTable[s] = Arm!Table(FirstLevelTable[s].address)
  /\ Arm!NoTableLost

\* Whole sections are left once the pages are done.
Multiple(n) == \E k \in Nat : n = k * SectionPages

\* The region ends below 4 GB, and what UpdateSectionEntries and UpdatePageEntries
\* are given lies in it.
ArmLengths ==
  /\ regions \in Seq(Call)
  /\ BaseAddress \in Nat /\ Length \in Nat /\ BaseAddress + Length <= Limit
  /\ at = "sections" => ChunkLength \in 0 .. Length /\ Multiple(ChunkLength)
  /\ at = "pages" => /\ ChunkLength \in 0 .. Length /\ PageLength \in 0 .. ChunkLength
                     /\ Multiple(ChunkLength - PageLength)

ArmInv == ArmTables /\ ArmLengths

(***************************************************************************)
(* 32-bit Arm: sections.                                                   *)
(***************************************************************************)
LEMMA LimitType == Limit \in Nat /\ Arm!Limit = Limit
  BY ArmAssumption DEF Limit, Arm!Limit

\* An address below 4 GB has an entry in the first level table.
LEMMA SectionInTable ==
  ASSUME NEW b \in Nat, b < Limit
  PROVE  Arm!SectionOf(b) \in SectionNumbers
  <1> DEFINE q == b \div SectionPages
             r == b % SectionPages
  <1>1. SectionPages \in Nat /\ SectionPages > 0 /\ Sections \in Nat
    BY ArmAssumption
  <1>2. b = SectionPages * q + r /\ r \in 0 .. SectionPages - 1 /\ q \in Nat
    BY <1>1
  <1> HIDE DEF q, r
  <1>3. CASE q >= Sections
    <2>1. SectionPages * q = SectionPages * Sections + SectionPages * (q - Sections)
      BY <1>1, <1>2
    <2>2. SectionPages * (q - Sections) \in Nat
      BY <1>1, <1>2, <1>3
    <2>3. SectionPages * Sections = Limit
      BY <1>1 DEF Limit
    <2> QED BY <1>1, <1>2, <2>1, <2>2, <2>3, LimitType
  <1>4. CASE q < Sections
    BY <1>1, <1>2, <1>4 DEF SectionNumbers, Arm!SectionOf, q
  <1> QED BY <1>1, <1>2, <1>3, <1>4

LEMMA Smaller ==
  ASSUME NEW a \in Int, NEW b \in Int
  PROVE  Arm!Min({a, b}) = IF a <= b THEN a ELSE b
  <1> DEFINE m == IF a <= b THEN a ELSE b
  <1>1. m \in {a, b} /\ \A y \in {a, b} : m =< y
    OBVIOUS
  <1>2. \A x \in {a, b} : (\A y \in {a, b} : x =< y) => x = m
    OBVIOUS
  <1> QED BY <1>1, <1>2 DEF Arm!Min

\* A section ends after each of its addresses.
LEMMA BoundaryAfter ==
  ASSUME NEW b \in Nat
  PROVE  Arm!Boundary(b) \in Nat /\ Arm!Boundary(b) > b
  <1>1. b % SectionPages \in 0 .. SectionPages - 1
    BY ArmAssumption
  <1>2. SectionPages \in Nat
    BY ArmAssumption
  <1>3. b >= b % SectionPages
    <2> DEFINE q == b \div SectionPages
               r == b % SectionPages
    <2>1. b = SectionPages * q + r /\ q \in Nat /\ r \in Nat
      BY ArmAssumption
    <2> HIDE DEF q, r
    <2>2. SectionPages * q \in Nat
      BY <1>2, <2>1
    <2>3. b >= r
      BY <2>1, <2>2
    <2> QED BY <2>3 DEF r
  <1> QED BY <1>1, <1>2, <1>3 DEF Arm!Boundary, Arm!SectionStart

\* Sections that are left are at least one.
LEMMA MultipleOf ==
  ASSUME NEW n \in Nat, Multiple(n), n > 0
  PROVE  n >= SectionPages /\ Multiple(n - SectionPages)
  <1>1. PICK k \in Nat : n = k * SectionPages
    BY DEF Multiple
  <1>2. SectionPages \in Nat /\ SectionPages > 0
    BY ArmAssumption
  <1>3. k - 1 \in Nat
    <2>1. k # 0
      BY <1>1, <1>2
    <2> QED BY <2>1
  <1>4. n = (k - 1) * SectionPages + SectionPages /\ (k - 1) * SectionPages \in Nat
    BY <1>1, <1>2, <1>3
  <1>5. n - SectionPages = (k - 1) * SectionPages
    BY <1>2, <1>4
  <1> QED BY <1>2, <1>3, <1>4, <1>5 DEF Multiple

\* The sections that fit in a length.
LEMMA WholeSections ==
  ASSUME NEW n \in Nat
  PROVE  n - (n % SectionPages) \in 0 .. n /\ Multiple(n - (n % SectionPages))
  <1> DEFINE q == n \div SectionPages
             r == n % SectionPages
  <1>1. SectionPages \in Nat /\ SectionPages > 0
    BY ArmAssumption
  <1>2. n = SectionPages * q + r /\ r \in 0 .. SectionPages - 1 /\ q \in Nat
    BY <1>1
  <1> HIDE DEF q, r
  <1>3. n - r = q * SectionPages /\ q * SectionPages \in Nat /\ r \in Nat
    BY <1>1, <1>2
  <1>4. n - r \in 0 .. n
    BY <1>3
  <1> QED BY <1>2, <1>3, <1>4 DEF Multiple, r

(***************************************************************************)
(* 32-bit Arm: tables.                                                     *)
(***************************************************************************)
LEMMA Longer ==
  ASSUME NEW S, NEW s \in Seq(S), NEW x
  PROVE  Append(s, x) \in Seq(S \cup {x}) /\ Len(Append(s, x)) = Len(s) + 1 /\ Len(s) \in Nat
  <1>1. s \in Seq(S \cup {x})
    OBVIOUS
  <1> QED BY <1>1

LEMMA Rewritten ==
  ASSUME NEW S, NEW s \in Seq(S), NEW i \in 1 .. Len(s), NEW x
  PROVE  [s EXCEPT ![i] = x] \in Seq(S \cup {x}) /\ Len([s EXCEPT ![i] = x]) = Len(s)
  <1>1. s \in Seq(S \cup {x})
    OBVIOUS
  <1> QED BY <1>1

\* An entry of the first level table becomes no table: the one in the way, if there
\* is one, is counted as replaced.
LEMMA SectionRewritten ==
  ASSUME ArmTables, NEW s \in SectionNumbers, NEW e, e.type # "table",
         FirstLevelTable' = [FirstLevelTable EXCEPT ![s] = e], UNCHANGED PageTables,
         replaced' = replaced \cup
           (IF FirstLevelTable[s].type = "table" THEN {FirstLevelTable[s].address} ELSE {})
  PROVE  ArmTables'
  <1>1. /\ FirstLevelTable = [n \in SectionNumbers |-> FirstLevelTable[n]]
        /\ DOMAIN FirstLevelTable = SectionNumbers
    BY DEF ArmTables
  <1>2. \A n \in SectionNumbers : FirstLevelTable'[n] = IF n = s THEN e ELSE FirstLevelTable[n]
    BY <1>1
  <1>3. /\ FirstLevelTable' = [n \in SectionNumbers |-> FirstLevelTable'[n]]
        /\ DOMAIN FirstLevelTable' = SectionNumbers
    BY <1>1
  <1>4. PageTableNumbers' = PageTableNumbers /\ SectionNumbers' = SectionNumbers
    BY DEF PageTableNumbers, SectionNumbers
  <1>5. \A t : e # Arm!Table(t)
    BY DEF Arm!Table
  <1>6. \A t : Arm!References(t)' = Arm!References(t) \ {s}
    BY <1>1, <1>2, <1>3, <1>5 DEF Arm!References
  <1>7. \A t : s \in Arm!References(t) <=> FirstLevelTable[s] = Arm!Table(t)
    BY <1>1 DEF Arm!References
  <1>8. \A t : FirstLevelTable[s] = Arm!Table(t) =>
                 FirstLevelTable[s].type = "table" /\ FirstLevelTable[s].address = t
    BY DEF Arm!Table
  <1>9. /\ DOMAIN PageTables = PageTableNumbers /\ DOMAIN PageTables' = PageTableNumbers
    BY DEF ArmTables, PageTableNumbers
  <1>10. replaced' \subseteq PageTableNumbers
    BY DEF ArmTables
  <1>11. ASSUME NEW t \in PageTableNumbers
         PROVE  IF t \in replaced' THEN Arm!References(t)' = {}
                ELSE \E r \in Arm!References(t)' : Arm!References(t)' = {r}
    <2>1. IF t \in replaced THEN Arm!References(t) = {}
          ELSE \E r \in Arm!References(t) : Arm!References(t) = {r}
      BY <1>9 DEF ArmTables, Arm!NoTableLost
    <2>2. CASE FirstLevelTable[s] = Arm!Table(t)
      <3>1. t \in replaced' /\ s \in Arm!References(t)
        BY <1>7, <1>8, <2>2
      <3> QED BY <1>6, <2>1, <3>1
    <2>3. CASE FirstLevelTable[s] # Arm!Table(t)
      <3>1. Arm!References(t)' = Arm!References(t)
        BY <1>6, <1>7, <2>3
      <3>2. t \in replaced' <=> t \in replaced
        BY <2>3 DEF ArmTables
      <3> QED BY <2>1, <3>1, <3>2
    <2> QED BY <2>2, <2>3
  <1>12. Arm!NoTableLost'
    BY <1>9, <1>11 DEF Arm!NoTableLost
  <1>13. \A n \in SectionNumbers : FirstLevelTable'[n].type = "table" =>
           /\ FirstLevelTable'[n].address \in PageTableNumbers
           /\ FirstLevelTable'[n] = Arm!Table(FirstLevelTable'[n].address)
    BY <1>2 DEF ArmTables
  <1>14. \A t : Arm!Table(t)' = Arm!Table(t)
    BY DEF Arm!Table
  <1> QED BY <1>3, <1>4, <1>10, <1>12, <1>13, <1>14 DEF ArmTables

\* An entry that was no table points to a new one.
LEMMA TableAdded ==
  ASSUME ArmTables, NEW s \in SectionNumbers, FirstLevelTable[s].type # "table", NEW pages,
         PageTables' = Append(PageTables, pages), UNCHANGED replaced,
         FirstLevelTable' = [FirstLevelTable EXCEPT ![s] = Arm!Table(Len(PageTables) + 1)]
  PROVE  ArmTables'
  <1> DEFINE new == Len(PageTables) + 1
  <1>1. /\ FirstLevelTable = [n \in SectionNumbers |-> FirstLevelTable[n]]
        /\ DOMAIN FirstLevelTable = SectionNumbers
    BY DEF ArmTables
  <1>2. /\ \E S : PageTables' \in Seq(S)
        /\ Len(PageTables) \in Nat /\ Len(PageTables') = new
    BY Longer DEF ArmTables
  <1>3. /\ PageTableNumbers' = PageTableNumbers \cup {new} /\ new \notin PageTableNumbers
        /\ SectionNumbers' = SectionNumbers
        /\ DOMAIN PageTables = PageTableNumbers /\ DOMAIN PageTables' = PageTableNumbers'
    BY <1>2 DEF ArmTables, PageTableNumbers, SectionNumbers
  <1>4. FirstLevelTable' = [FirstLevelTable EXCEPT ![s] = Arm!Table(new)]
    OBVIOUS
  <1> HIDE DEF new
  <1>5. \A n \in SectionNumbers :
          FirstLevelTable'[n] = IF n = s THEN Arm!Table(new) ELSE FirstLevelTable[n]
    BY <1>1, <1>4
  <1>6. /\ FirstLevelTable' = [n \in SectionNumbers |-> FirstLevelTable'[n]]
        /\ DOMAIN FirstLevelTable' = SectionNumbers
    BY <1>1, <1>4
  <1>7. \A t : Arm!Table(t)' = Arm!Table(t) /\ Arm!Table(t).type = "table"
               /\ Arm!Table(t).address = t
    BY DEF Arm!Table
  <1>8. \A t \in PageTableNumbers : Arm!References(t)' = Arm!References(t)
    <2>1. \A t \in PageTableNumbers : Arm!Table(new) # Arm!Table(t)
      BY <1>3, <1>7
    <2>2. \A t : FirstLevelTable[s] # Arm!Table(t)
      BY <1>7
    <2> QED BY <1>1, <1>5, <1>6, <1>7, <2>1, <2>2 DEF Arm!References
  <1>9. \A n \in SectionNumbers : FirstLevelTable[n] # Arm!Table(new)
    BY <1>3, <1>7 DEF ArmTables
  <1>10. ASSUME NEW t, t = new PROVE Arm!References(t)' = {s}
    BY <1>5, <1>6, <1>7, <1>9, <1>10 DEF Arm!References
  <1>11. replaced' \subseteq PageTableNumbers' /\ new \notin replaced'
    BY <1>3 DEF ArmTables
  <1>12. ASSUME NEW t \in PageTableNumbers'
         PROVE  IF t \in replaced' THEN Arm!References(t)' = {}
                ELSE \E r \in Arm!References(t)' : Arm!References(t)' = {r}
    <2>1. CASE t = new
      BY <1>10, <1>11, <2>1
    <2>2. CASE t \in PageTableNumbers
      BY <1>3, <1>8, <2>2 DEF ArmTables, Arm!NoTableLost
    <2> QED BY <1>3, <2>1, <2>2
  <1>13. Arm!NoTableLost'
    BY <1>3, <1>12 DEF Arm!NoTableLost
  <1>14. \A n \in SectionNumbers : FirstLevelTable'[n].type = "table" =>
           /\ FirstLevelTable'[n].address \in PageTableNumbers'
           /\ FirstLevelTable'[n] = Arm!Table(FirstLevelTable'[n].address)
    BY <1>3, <1>5, <1>7 DEF ArmTables
  <1> QED BY <1>2, <1>3, <1>6, <1>7, <1>11, <1>13, <1>14 DEF ArmTables

\* The pages of a table are rewritten, or nothing is.
LEMMA PagesRewritten ==
  ASSUME ArmTables, UNCHANGED <<FirstLevelTable, replaced>>,
         \E S : PageTables' \in Seq(S), Len(PageTables') = Len(PageTables)
  PROVE  ArmTables'
  <1>1. PageTableNumbers' = PageTableNumbers /\ SectionNumbers' = SectionNumbers
    BY DEF PageTableNumbers, SectionNumbers
  <1>2. \A t : Arm!Table(t)' = Arm!Table(t) /\ Arm!References(t)' = Arm!References(t)
    BY DEF Arm!Table, Arm!References
  <1>3. DOMAIN PageTables = PageTableNumbers /\ DOMAIN PageTables' = PageTableNumbers
    BY DEF ArmTables, PageTableNumbers
  <1>4. Arm!NoTableLost'
    BY <1>2, <1>3 DEF ArmTables, Arm!NoTableLost
  <1> QED BY <1>1, <1>2, <1>4 DEF ArmTables

(***************************************************************************)
(* 32-bit Arm: the steps.                                                  *)
(***************************************************************************)
\* While some of the region is left, its next section has an entry.
LEMMA NextSection ==
  ASSUME ArmInv, Length > 0
  PROVE  /\ BaseAddress \in Nat /\ Length \in Nat /\ BaseAddress < Limit
         /\ Limit \in Nat /\ SectionPages \in Nat /\ SectionPages > 0
         /\ Arm!SectionOf(BaseAddress) \in SectionNumbers
         /\ Arm!Entry(BaseAddress) = FirstLevelTable[Arm!SectionOf(BaseAddress)]
  <1>1. BaseAddress \in Nat /\ Length \in Nat /\ BaseAddress + Length <= Limit
    BY DEF ArmInv, ArmLengths
  <1>2. Limit \in Nat /\ BaseAddress < Limit
    BY <1>1, LimitType
  <1> QED BY <1>1, <1>2, SectionInTable, ArmAssumption DEF Arm!Entry

LEMMA FillSectionStep ==
  ASSUME ArmInv, Arm!FillSection
  PROVE  ArmInv'
  <1> USE DEF Arm!FillSection
  <1> DEFINE s == Arm!SectionOf(BaseAddress)
             e == Arm!Block(BaseAddress, request.attrs)
  <1>1. /\ BaseAddress \in Nat /\ Length \in Nat /\ BaseAddress + Length <= Limit
        /\ Limit \in Nat /\ SectionPages \in Nat /\ Length >= SectionPages
        /\ regions \in Seq(Call)
    BY NextSection DEF ArmInv, ArmLengths, Arm!WholeSection
  <1>2. s \in SectionNumbers /\ Arm!Entry(BaseAddress) = FirstLevelTable[s]
    BY NextSection
  <1>3. e.type # "table"
    BY DEF Arm!Block
  <1>4. FirstLevelTable' = [FirstLevelTable EXCEPT ![s] = e]
    OBVIOUS
  <1> HIDE DEF s, e
  <1>5. ArmTables'
    BY <1>2, <1>3, <1>4, SectionRewritten DEF ArmInv
  <1>6. ArmLengths'
    BY <1>1 DEF ArmLengths, Limit, Arm!setting
  <1> QED BY <1>5, <1>6 DEF ArmInv

LEMMA PopulateStep ==
  ASSUME ArmInv, Arm!PopulateLevel2PageTable
  PROVE  ArmInv'
  <1> USE DEF Arm!PopulateLevel2PageTable
  <1> DEFINE s == Arm!SectionOf(BaseAddress)
             n == Arm!PageMapLength
             pages == Arm!Filled(Arm!NewPages(s))
  <1>1. /\ BaseAddress \in Nat /\ Length \in Nat /\ BaseAddress + Length <= Limit
        /\ Limit \in Nat /\ regions \in Seq(Call)
    BY NextSection DEF ArmInv, ArmLengths
  <1>2. s \in SectionNumbers
    BY NextSection
  <1>3. n \in 0 .. Length
    <2>1. Arm!Boundary(BaseAddress) \in Nat /\ Arm!Boundary(BaseAddress) > BaseAddress
      BY <1>1, BoundaryAfter
    <2> HIDE DEF Arm!PopulateLevel2PageTable
    <2>2. Arm!Boundary(BaseAddress) - BaseAddress \in Nat
      BY <1>1, <2>1
    <2> QED BY <1>1, <2>2, Smaller DEF Arm!PageMapLength
  <1> HIDE DEF n, s
  <1>4. ArmTables'
    <2>1. CASE Arm!NeedsTable(s)
      <3>1. /\ PageTables' = Append(PageTables, pages) /\ UNCHANGED replaced
            /\ FirstLevelTable' = [FirstLevelTable EXCEPT ![s] = Arm!Table(Len(PageTables) + 1)]
        BY <2>1 DEF s, Arm!history
      <3>2. FirstLevelTable[s].type # "table"
        BY <2>1 DEF Arm!NeedsTable
      <3> HIDE DEF pages, Arm!PopulateLevel2PageTable
      <3> QED BY <1>2, <3>1, <3>2, TableAdded DEF ArmInv
    <2>2. CASE ~Arm!NeedsTable(s)
      <3> DEFINE t == FirstLevelTable[s].address
                 refilled == Arm!Filled(PageTables[t])
      <3>1. UNCHANGED <<FirstLevelTable, replaced>>
            /\ PageTables' = [PageTables EXCEPT ![t] = refilled]
        BY <2>2 DEF s, Arm!history
      <3>2. t \in 1 .. Len(PageTables)
        BY <1>2, <2>2 DEF ArmInv, ArmTables, Arm!NeedsTable, PageTableNumbers
      <3>3. \E S : PageTables \in Seq(S)
        BY DEF ArmInv, ArmTables
      <3> HIDE DEF t, refilled, Arm!PopulateLevel2PageTable
      <3>4. (\E S : PageTables' \in Seq(S)) /\ Len(PageTables') = Len(PageTables)
        BY <3>1, <3>2, <3>3, Rewritten
      <3> QED BY <3>1, <3>4, PagesRewritten DEF ArmInv
    <2> QED BY <2>1, <2>2
  <1>5. ArmLengths'
    <2>1. BaseAddress' = BaseAddress + n /\ Length' = IF Length < SectionPages THEN 0 ELSE Length - n
      BY DEF n
    <2>2. at' = "fill" /\ regions' = regions
      BY DEF Arm!setting
    <2> HIDE DEF Arm!PopulateLevel2PageTable
    <2> QED BY <1>1, <1>3, <2>1, <2>2 DEF ArmLengths, Limit
  <1> QED BY <1>4, <1>5 DEF ArmInv

LEMMA NextChunkStep ==
  ASSUME ArmInv, Arm!NextChunk
  PROVE  ArmInv'
  <1> USE DEF Arm!NextChunk
  <1>1. /\ BaseAddress \in Nat /\ Length \in Nat /\ BaseAddress + Length <= Limit
        /\ Limit \in Nat /\ SectionPages \in Nat /\ regions \in Seq(Call)
    BY NextSection DEF ArmInv, ArmLengths
  <1>2. ArmTables'
    BY PagesRewritten DEF ArmInv, ArmTables, Arm!tables, Arm!history
  <1>3. /\ BaseAddress' = BaseAddress /\ Length' = Length /\ regions' = regions
    BY DEF Arm!setting
  <1>4. ArmLengths'
    <2>1. CASE Arm!WholeSection
      <3>1. ChunkLength' \in 0 .. Length /\ Multiple(ChunkLength')
        BY <1>1, <2>1, WholeSections
      <3> QED BY <1>1, <1>3, <2>1, <3>1 DEF ArmLengths, Limit, Multiple
    <2>2. CASE ~Arm!WholeSection
      <3>1. Arm!Boundary(BaseAddress) \in Nat /\ Arm!Boundary(BaseAddress) > BaseAddress
        BY <1>1, BoundaryAfter
      <3>2. Arm!SomePages \in 0 .. Length
        BY <1>1, <3>1 DEF Arm!SomePages
      <3> DEFINE n == Arm!SomePages
      <3> HIDE DEF n
      <3>3. n - n = 0 * SectionPages
        BY <1>1, <3>2 DEF n
      <3>4. ChunkLength' = n /\ PageLength' = n /\ at' = "pages"
        BY <2>2 DEF n
      <3> HIDE DEF Arm!NextChunk
      <3> QED BY <1>1, <1>3, <3>2, <3>3, <3>4 DEF ArmLengths, Limit, Multiple, n
    <2> QED BY <2>1, <2>2
  <1> QED BY <1>2, <1>4 DEF ArmInv

LEMMA UpdateSectionStep ==
  ASSUME ArmInv, Arm!UpdateSection
  PROVE  ArmInv'
  <1> USE DEF Arm!UpdateSection
  <1> DEFINE s == Arm!SectionOf(BaseAddress)
             e == IF FirstLevelTable[s].type = "fault"
                  THEN Arm!Block(BaseAddress, request.attrs) ELSE Arm!Updated(FirstLevelTable[s])
  <1>1. /\ ChunkLength \in 0 .. Length /\ Multiple(ChunkLength) /\ Length \in Nat
        /\ ChunkLength > 0
    BY DEF ArmInv, ArmLengths
  <1>2. /\ ChunkLength >= SectionPages /\ Multiple(ChunkLength - SectionPages)
    BY <1>1, MultipleOf
  <1>3. /\ BaseAddress \in Nat /\ BaseAddress + Length <= Limit
        /\ Limit \in Nat /\ SectionPages \in Nat /\ regions \in Seq(Call)
    BY <1>1, NextSection DEF ArmInv, ArmLengths
  <1>4. s \in SectionNumbers /\ FirstLevelTable[s].type # "table"
    BY <1>1, NextSection
  <1>5. e.type # "table"
    BY DEF Arm!Block, Arm!Updated
  <1>6. FirstLevelTable' = [FirstLevelTable EXCEPT ![s] = e]
    OBVIOUS
  <1>7. UNCHANGED <<PageTables, replaced, regions, at>>
    BY DEF Arm!setting, Arm!history
  <1>8. /\ BaseAddress' = BaseAddress + SectionPages /\ Length' = Length - SectionPages
        /\ ChunkLength' = ChunkLength - SectionPages /\ at = "sections"
    BY DEF Arm!Advance
  <1> HIDE DEF s, e, Arm!UpdateSection
  <1>9. ArmTables'
    BY <1>4, <1>5, <1>6, <1>7, SectionRewritten DEF ArmInv
  <1>10. ArmLengths'
    BY <1>1, <1>2, <1>3, <1>7, <1>8 DEF ArmLengths, Limit, Multiple
  <1> QED BY <1>9, <1>10 DEF ArmInv

LEMMA ConvertStep ==
  ASSUME ArmInv, Arm!ConvertSectionToPages
  PROVE  ArmInv'
  <1> USE DEF Arm!ConvertSectionToPages
  <1> DEFINE s == Arm!SectionOf(BaseAddress)
             pages == Arm!SplitPages(s)
  <1>1. Length > 0
    BY DEF ArmInv, ArmLengths
  <1>2. s \in SectionNumbers /\ FirstLevelTable[s].type # "table"
    BY <1>1, NextSection
  <1>3. /\ PageTables' = Append(PageTables, pages) /\ UNCHANGED replaced
        /\ FirstLevelTable' = [FirstLevelTable EXCEPT ![s] = Arm!Table(Len(PageTables) + 1)]
    BY DEF Arm!history
  <1>4. ArmLengths'
    BY DEF ArmInv, ArmLengths, Limit, Multiple, Arm!setting, Arm!chunk
  <1> HIDE DEF s, pages, Arm!ConvertSectionToPages
  <1>5. ArmTables'
    BY <1>2, <1>3, TableAdded DEF ArmInv
  <1> QED BY <1>4, <1>5 DEF ArmInv

LEMMA UpdatePageStep ==
  ASSUME ArmInv, Arm!UpdatePage
  PROVE  ArmInv'
  <1> USE DEF Arm!UpdatePage
  <1> DEFINE s == Arm!SectionOf(BaseAddress)
             t == FirstLevelTable[s].address
             pages == [PageTables[t] EXCEPT ![BaseAddress % SectionPages] =
                         Arm!Updated(PageTables[t][BaseAddress % SectionPages])]
  <1>1. /\ ChunkLength \in 0 .. Length /\ PageLength \in 0 .. ChunkLength /\ PageLength > 0
        /\ Length \in Nat /\ Length > 0
        /\ Multiple(ChunkLength - PageLength)
    BY DEF ArmInv, ArmLengths
  <1>2. /\ BaseAddress \in Nat /\ BaseAddress + Length <= Limit
        /\ Limit \in Nat /\ SectionPages \in Nat /\ regions \in Seq(Call)
    BY <1>1, NextSection DEF ArmInv, ArmLengths
  <1>3. s \in SectionNumbers /\ FirstLevelTable[s].type = "table"
        /\ Arm!Entry(BaseAddress) = FirstLevelTable[s]
    BY <1>1, NextSection
  <1>4. t \in 1 .. Len(PageTables)
    BY <1>3 DEF ArmInv, ArmTables, PageTableNumbers
  <1>5. PageTables' = [PageTables EXCEPT ![t] = pages]
    BY <1>3
  <1>6. UNCHANGED <<FirstLevelTable, replaced, regions, at>>
    BY DEF Arm!setting
  <1>7. /\ BaseAddress' = BaseAddress + 1 /\ Length' = Length - 1
        /\ ChunkLength' = ChunkLength - 1 /\ PageLength' = PageLength - 1 /\ at = "pages"
    BY DEF Arm!Advance
  <1>8. \E S : PageTables \in Seq(S)
    BY DEF ArmInv, ArmTables
  <1> HIDE DEF s, t, pages, Arm!UpdatePage
  <1>9. (\E S : PageTables' \in Seq(S)) /\ Len(PageTables') = Len(PageTables)
    BY <1>4, <1>5, <1>8, Rewritten
  <1>10. ArmTables'
    BY <1>6, <1>9, PagesRewritten DEF ArmInv
  <1>11. ChunkLength' - PageLength' = ChunkLength - PageLength
    BY <1>1, <1>7
  <1>12. ArmLengths'
    BY <1>1, <1>2, <1>6, <1>7, <1>11 DEF ArmLengths, Limit, Multiple
  <1> QED BY <1>10, <1>12 DEF ArmInv

\* What a call is about ends below 4 GB.
LEMMA BeginLengths ==
  ASSUME NEW c \in Call, NEW label \in {"fill", "chunk"}, c.start < Arm!Limit,
         Arm!Begin(c, label), regions' \in Seq(Call)
  PROVE  ArmLengths'
  <1>1. c.start \in Nat /\ c.length \in Nat /\ Limit \in Nat /\ c.start < Limit
    BY LimitType DEF Call
  <1>2. Length' = Arm!Min({c.length, Limit - c.start})
    BY LimitType DEF Arm!Begin
  <1>3. Length' \in Nat /\ c.start + Length' <= Limit
    BY <1>1, <1>2, Smaller
  <1> QED BY <1>1, <1>3 DEF ArmLengths, Limit, Arm!Begin

\* Steps that write no entry.
LEMMA ArmOtherStep ==
  ASSUME ArmInv,
         \/ Arm!PopulateAtNull \/ Arm!ForwardToPages \/ Arm!ConvertFails \/ Arm!PagesDone
         \/ Arm!SectionsDone \/ Arm!Return \/ Arm!FillTranslationTable \/ Arm!ArmEnableMmu
         \/ Arm!RootAllocationFails \/ (\E c \in Requests : Arm!ArmSetMemoryAttributes(c))
         \/ UNCHANGED armVars
  PROVE  ArmInv'
  <1>1. UNCHANGED <<FirstLevelTable, PageTables, replaced>>
    BY DEF Arm!PopulateAtNull, Arm!ForwardToPages, Arm!ConvertFails, Arm!PagesDone,
           Arm!SectionsDone, Arm!Return, Arm!FillTranslationTable, Arm!ArmEnableMmu,
           Arm!RootAllocationFails, Arm!ArmSetMemoryAttributes, armVars, Arm!tables,
           Arm!history
  <1>2. ArmTables'
    BY <1>1, PagesRewritten DEF ArmInv, ArmTables
  <1>3. ArmLengths'
    <2> USE DEF ArmInv
    <2>1. CASE Arm!PopulateAtNull
      BY <2>1 DEF Arm!PopulateAtNull, ArmLengths, Limit, Arm!setting
    <2>2. CASE Arm!ForwardToPages
      <3>1. ChunkLength \in Nat /\ ChunkLength > 0 /\ Multiple(ChunkLength)
            /\ SectionPages \in Nat
        BY <2>2, ArmAssumption DEF Arm!ForwardToPages, ArmLengths
      <3>2. ChunkLength >= SectionPages /\ Multiple(ChunkLength - SectionPages)
        BY <3>1, MultipleOf
      <3> QED BY <2>2, <3>1, <3>2 DEF Arm!ForwardToPages, ArmLengths, Limit, Multiple,
                                      Arm!setting
    <2>3. CASE Arm!ConvertFails
      BY <2>3 DEF Arm!ConvertFails, ArmLengths, Limit, Arm!setting
    <2>4. CASE Arm!PagesDone
      <3>1. Multiple(ChunkLength - 0) /\ ChunkLength \in Int
        BY <2>4 DEF Arm!PagesDone, ArmLengths
      <3>2. Multiple(ChunkLength)
        BY <3>1 DEF Multiple
      <3> QED BY <2>4, <3>2 DEF Arm!PagesDone, ArmLengths, Limit, Multiple, Arm!setting,
                                Arm!chunk
    <2>5. CASE Arm!SectionsDone
      BY <2>5 DEF Arm!SectionsDone, ArmLengths, Limit, Arm!setting
    <2>6. CASE Arm!Return
      BY <2>6 DEF Arm!Return, ArmLengths, Limit, Arm!setting
    <2>7. CASE Arm!FillTranslationTable
      <3>1. Head(regions) \in Call /\ Tail(regions) \in Seq(Call)
        BY <2>7 DEF Arm!FillTranslationTable, ArmLengths
      <3>2. CASE Head(regions).start >= Arm!Limit
        BY <2>7, <3>1, <3>2 DEF Arm!FillTranslationTable, ArmLengths, Limit
      <3>3. CASE ~(Head(regions).start >= Arm!Limit)
        <4>1. Head(regions).start < Arm!Limit
          BY <3>1, <3>3, LimitType DEF Call
        <4>2. Arm!Begin(Head(regions), "fill") /\ regions' = Tail(regions)
          BY <2>7, <3>3 DEF Arm!FillTranslationTable
        <4> QED BY <3>1, <4>1, <4>2, BeginLengths
      <3> QED BY <3>2, <3>3
    <2>8. CASE Arm!ArmEnableMmu
      BY <2>8 DEF Arm!ArmEnableMmu, ArmLengths, Limit, Arm!setting
    <2>9. CASE Arm!RootAllocationFails
      BY <2>9 DEF Arm!RootAllocationFails, ArmLengths, Limit, Arm!setting
    <2>10. ASSUME NEW c \in Requests, Arm!ArmSetMemoryAttributes(c) PROVE ArmLengths'
      <3>1. c \in Call
        BY ArmAssumption
      <3>2. CASE c.start >= Arm!Limit
        BY <2>10, <3>2 DEF Arm!ArmSetMemoryAttributes, ArmLengths, Limit, Arm!setting
      <3>3. CASE ~(c.start >= Arm!Limit)
        <4>1. c.start < Arm!Limit
          BY <3>1, <3>3, LimitType DEF Call
        <4>2. Arm!Begin(c, "chunk") /\ regions' \in Seq(Call)
          BY <2>10, <3>3 DEF Arm!ArmSetMemoryAttributes, ArmLengths, Arm!setting
        <4> QED BY <3>1, <4>1, <4>2, BeginLengths
      <3> QED BY <3>2, <3>3
    <2>11. CASE UNCHANGED armVars
      BY <2>11 DEF armVars, ArmLengths, Limit, Multiple
    <2> QED BY <2>1, <2>2, <2>3, <2>4, <2>5, <2>6, <2>7, <2>8, <2>9, <2>10, <2>11
  <1> QED BY <1>2, <1>3 DEF ArmInv

LEMMA ArmInit == Arm!Init => ArmInv
  <1> SUFFICES ASSUME Arm!Init PROVE ArmInv
    OBVIOUS
  <1> USE DEF Arm!Init
  <1>1. FirstLevelTable = [s \in SectionNumbers |-> Arm!Fault]
    BY DEF SectionNumbers
  <1>2. \A s \in SectionNumbers : FirstLevelTable[s].type # "table"
    <2> HIDE DEF Arm!Init
    <2>1. Arm!Fault.type # "table"
      BY DEF Arm!Fault
    <2> QED BY <1>1, <2>1
  <1>3. FirstLevelTable = [s \in SectionNumbers |-> FirstLevelTable[s]]
    BY <1>1
  <1>4. PageTables \in Seq({}) /\ DOMAIN PageTables = {} /\ replaced = {}
    OBVIOUS
  <1>5. Arm!NoTableLost
    BY <1>4 DEF Arm!NoTableLost
  <1>6. ArmTables
    <2> HIDE DEF Arm!Init
    <2> QED BY <1>2, <1>3, <1>4, <1>5 DEF ArmTables
  <1>7. ArmLengths
    BY ArmAssumption, LimitType DEF ArmLengths
  <1> QED BY <1>6, <1>7 DEF ArmInv

LEMMA ArmStep == ArmInv /\ [Arm!Next]_armVars => ArmInv'
  <1> SUFFICES ASSUME ArmInv, [Arm!Next]_armVars PROVE ArmInv'
    OBVIOUS
  <1>1. CASE Arm!FillSection \/ Arm!PopulateLevel2PageTable
    BY <1>1, FillSectionStep, PopulateStep
  <1>2. CASE Arm!NextChunk \/ Arm!UpdateSection
    BY <1>2, NextChunkStep, UpdateSectionStep
  <1>3. CASE Arm!ConvertSectionToPages \/ Arm!UpdatePage
    BY <1>3, ConvertStep, UpdatePageStep
  <1>4. CASE \/ Arm!PopulateAtNull \/ Arm!ForwardToPages \/ Arm!ConvertFails
             \/ Arm!PagesDone \/ Arm!SectionsDone \/ Arm!Return
             \/ Arm!FillTranslationTable \/ Arm!ArmEnableMmu \/ Arm!RootAllocationFails
             \/ (\E c \in Requests : Arm!ArmSetMemoryAttributes(c)) \/ UNCHANGED armVars
    BY <1>4, ArmOtherStep
  <1>5. CASE Arm!Finished
    BY <1>5, ArmOtherStep DEF Arm!Finished, Arm!vars, armVars
  <1> QED BY <1>1, <1>2, <1>3, <1>4, <1>5 DEF Arm!Next, Arm!Update

\* FillTranslationTable and ArmSetMemoryAttributes of the 32-bit build make one entry
\* point to each page table, or none when a later region of the memory map replaced
\* it by a section.
THEOREM PageTablesAreKept == Arm!Spec => []Arm!NoTableLost
  <1>1. ArmInv => Arm!NoTableLost
    BY DEF ArmInv, ArmTables
  <1>2. ArmInv /\ [Arm!Next]_Arm!vars => ArmInv'
    BY ArmStep DEF Arm!vars, armVars
  <1> QED BY <1>1, <1>2, ArmInit, PTL DEF Arm!Spec

\* Whichever build of ArmMmuLib runs, no translation table is lost or shared.
THEOREM NoBuildLosesTables == MCSpec => []NoTableOfEitherLost
  <1>1. MCInit => TableInv /\ ArmInv
    BY TableInit, ArmInit DEF MCInit
  <1>2. TableInv /\ ArmInv /\ [MCNext]_<<build, vars, armVars>> => TableInv' /\ ArmInv'
    BY TableStep, ArmStep DEF MCNext
  <1>3. TableInv /\ ArmInv => NoTableOfEitherLost
    BY DEF TableInv, ArmInv, ArmTables, NoTableOfEitherLost
  <1> QED BY <1>1, <1>2, <1>3, PTL DEF MCSpec

(***************************************************************************)
(* 32-bit Arm: places in sections.                                         *)
(***************************************************************************)
PageSlots == 0 .. SectionPages - 1

FirstPage(s) == s * SectionPages

LEMMA Starts ==
  /\ SectionPages \in Nat /\ SectionPages > 0 /\ Sections \in Nat
  /\ \A s \in Nat : FirstPage(s) \in Nat /\ FirstPage(s + 1) = FirstPage(s) + SectionPages
  /\ FirstPage(0) = 0 /\ FirstPage(Sections) = Limit
  BY ArmAssumption DEF FirstPage, Limit

LEMMA StartsApart ==
  ASSUME NEW a \in Nat, NEW b \in Nat, a < b
  PROVE  FirstPage(a) + SectionPages <= FirstPage(b)
  <1> DEFINE n == b - a - 1
             m == n * SectionPages
  <1>1. n \in Nat /\ SectionPages \in Nat
    BY Starts
  <1>2. m \in Nat
    BY <1>1
  <1>3. FirstPage(b) = FirstPage(a) + m + SectionPages
    BY <1>1 DEF FirstPage
  <1> HIDE DEF m
  <1> QED BY <1>1, <1>2, <1>3, Starts

\* The section of an address, and its place there.
LEMMA Places ==
  ASSUME NEW p \in Nat
  PROVE  /\ Arm!SectionOf(p) \in Nat /\ FirstPage(Arm!SectionOf(p)) \in Nat
         /\ FirstPage(Arm!SectionOf(p)) <= p /\ p < FirstPage(Arm!SectionOf(p)) + SectionPages
         /\ p % SectionPages = p - FirstPage(Arm!SectionOf(p)) /\ p % SectionPages \in PageSlots
         /\ Arm!SectionStart(p) = FirstPage(Arm!SectionOf(p))
  <1> DEFINE q == p \div SectionPages
             r == p % SectionPages
  <1>1. SectionPages \in Nat /\ SectionPages > 0
    BY Starts
  <1>2. p = SectionPages * q + r /\ r \in 0 .. SectionPages - 1 /\ q \in Nat
    BY <1>1
  <1> HIDE DEF q, r
  <1>3. p = FirstPage(q) + r /\ FirstPage(q) \in Nat
    BY <1>1, <1>2, Starts DEF FirstPage
  <1> QED BY <1>1, <1>2, <1>3 DEF q, r, PageSlots, Arm!SectionOf, Arm!SectionStart

LEMMA PlaceOf ==
  ASSUME NEW s \in Nat, NEW p \in Nat, FirstPage(s) <= p, p < FirstPage(s) + SectionPages
  PROVE  Arm!SectionOf(p) = s
  <1> DEFINE q == Arm!SectionOf(p)
  <1>1. q \in Nat /\ FirstPage(q) <= p /\ p < FirstPage(q) + SectionPages
    BY Places
  <1> HIDE DEF q
  <1>2. FirstPage(s) \in Nat /\ FirstPage(q) \in Nat /\ SectionPages \in Nat
    BY <1>1, Starts
  <1>3. ~(q < s)
    BY <1>1, <1>2, StartsApart
  <1>4. ~(s < q)
    BY <1>1, <1>2, StartsApart
  <1>5. q = s
    BY <1>1, <1>3, <1>4
  <1> QED BY <1>5 DEF q

\* Addresses below 4 GB, and those of a section.
LEMMA PagesOfSection ==
  /\ Arm!Pages = 0 .. Limit - 1
  /\ \A p \in Arm!Pages : p \in Nat /\ Arm!SectionOf(p) \in SectionNumbers
  /\ \A s \in SectionNumbers : s \in Nat /\ FirstPage(s) \in Nat /\ FirstPage(s) + SectionPages <= Limit
  <1>1. Arm!Pages = 0 .. Limit - 1
    BY LimitType DEF Arm!Pages
  <1>2. \A p \in Arm!Pages : p \in Nat /\ p < Limit
    BY <1>1, LimitType
  <1>3. ASSUME NEW s \in SectionNumbers
        PROVE  s \in Nat /\ FirstPage(s) \in Nat /\ FirstPage(s) + SectionPages <= Limit
    <2>1. Sections \in Nat /\ FirstPage(Sections) = Limit
      BY Starts
    <2>2. s \in Nat /\ s < Sections
      BY <2>1 DEF SectionNumbers
    <2>3. FirstPage(s) + SectionPages <= FirstPage(Sections)
      BY <2>1, <2>2, StartsApart
    <2> QED BY <2>1, <2>2, <2>3, Starts
  <1> QED BY <1>1, <1>2, <1>3, SectionInTable

(***************************************************************************)
(* 32-bit Arm: what the tables map.  The walk for a page ends at an entry; *)
(* unless that was 0 when it was updated, a block there names the page.    *)
(***************************************************************************)
Shown(p) == IF Arm!Entry(p).type = "table" THEN Arm!PageEntry(p) ELSE Arm!Entry(p)

BlocksAt(a) == {Arm!Block(a, bits) : bits \in SUBSET Bit}

PageOK(p) ==
  \/ /\ p \notin misdirected
     /\ Arm!Entry(p) \in {Arm!Fault} \cup BlocksAt(Arm!SectionStart(p))
  \/ /\ Arm!Entry(p).type = "table"
     /\ IF p \in misdirected THEN \E a \in Int : Arm!PageEntry(p) \in BlocksAt(a)
        ELSE Arm!PageEntry(p) \in {Arm!Fault, Arm!Denied(p)} \cup BlocksAt(p)

Seen(p) ==
  /\ Shown(p).bits \in SUBSET Bit
  /\ Arm!Mapping[p] = IF Shown(p).type = "block" THEN [to |-> p, bits |-> Shown(p).bits]
                      ELSE Unmapped
  /\ ArmMap!BitsOf(Arm!Mapping[p]) = Shown(p).bits

LEMMA Views == \A p \in Arm!Pages : PageOK(p) => Seen(p)
  <1> SUFFICES ASSUME NEW p \in Arm!Pages, PageOK(p) PROVE  Seen(p)
    OBVIOUS
  <1>1. /\ Shown(p).bits \in SUBSET Bit
        /\ Shown(p).type # "block" => Shown(p).bits = {} /\ p \notin misdirected
    BY DEF PageOK, Shown, BlocksAt, Arm!Block, Arm!Fault, Arm!Denied
  <1>2. Arm!Mapping[p] = IF p \in misdirected THEN [Arm!Translation(p) EXCEPT !.to = p]
                         ELSE Arm!Translation(p)
    BY DEF Arm!Mapping
  <1>3. p \in Nat /\ [to |-> p, bits |-> Shown(p).bits] # Unmapped
    <2>1. p \in Int /\ p \in Nat
      BY PagesOfSection
    <2>2. [to |-> p, bits |-> Shown(p).bits] \in [to : Int, bits : SUBSET Bit]
      BY <1>1, <2>1
    <2> QED BY <2>1, <2>2, UnmappedAssumption
  <1>4. CASE Arm!Entry(p).type = "table"
    <2>1. Shown(p) = Arm!PageEntry(p) /\ Arm!Entry(p).type # "block"
      BY <1>4 DEF Shown
    <2>2. Arm!Translation(p) = IF Shown(p).type = "block"
                               THEN [to |-> Shown(p).address, bits |-> Shown(p).bits] ELSE Unmapped
      BY <1>4, <2>1 DEF Arm!Translation
    <2>3. Shown(p).type = "block" /\ p \notin misdirected => Shown(p).address = p
      BY <1>4, <2>1 DEF PageOK, BlocksAt, Arm!Block, Arm!Fault, Arm!Denied
    <2>4. Arm!Mapping[p] = IF Shown(p).type = "block" THEN [to |-> p, bits |-> Shown(p).bits]
                           ELSE Unmapped
      BY <1>1, <1>2, <2>2, <2>3
    <2> QED BY <1>1, <2>4, <1>3 DEF ArmMap!BitsOf, Seen
  <1>5. CASE Arm!Entry(p).type # "table"
    <2>1. Shown(p) = Arm!Entry(p) /\ p \notin misdirected
      BY <1>5 DEF Shown, PageOK
    <2>2. /\ Shown(p).type = "block" => Shown(p).address + (p % SectionPages) = p
      <3>1. Arm!SectionStart(p) + (p % SectionPages) = p
        <4> DEFINE a == FirstPage(Arm!SectionOf(p))
                   r == p % SectionPages
        <4>1. a \in Nat /\ r = p - a /\ Arm!SectionStart(p) = a
          BY <1>3, Places
        <4> HIDE DEF a, r
        <4>2. a + r = p
          BY <1>3, <4>1
        <4> QED BY <4>1, <4>2 DEF r
      <3> QED BY <1>5, <2>1, <3>1 DEF PageOK, BlocksAt, Arm!Block, Arm!Fault
    <2>3. Arm!Mapping[p] = IF Shown(p).type = "block" THEN [to |-> p, bits |-> Shown(p).bits]
                           ELSE Unmapped
      <3>1. Arm!Translation(p) = IF Shown(p).type = "block"
                                 THEN [to |-> Shown(p).address + (p % SectionPages),
                                       bits |-> Shown(p).bits]
                                 ELSE Unmapped
        BY <1>5, <2>1 DEF Arm!Translation
      <3> QED BY <1>2, <2>1, <2>2, <3>1
    <2> QED BY <1>1, <2>3, <1>3 DEF ArmMap!BitsOf, Seen
  <1> QED BY <1>4, <1>5

LEMMA ViewsAfter == (\A p \in Arm!Pages : PageOK(p) => Seen(p))'
  BY Views, PTL

\* A step of a call: the pages it is done with show what was asked for, the others
\* what they did.
LEMMA ChangeStep ==
  ASSUME result = "busy", UNCHANGED <<result, request>>,
         Arm!Left' \subseteq Arm!Left,
         \A p \in Arm!Pages : PageOK(p) /\ PageOK(p)',
         \A p \in Arm!Pages :
           IF p \in Arm!Left \ Arm!Left'
           THEN /\ Shown(p)'.type = "block"
                /\ Shown(p)'.bits = (Shown(p).bits \cap request.mask) \cup request.attrs
           ELSE /\ Shown(p)'.type = "block" <=> Shown(p).type = "block"
                /\ Shown(p)'.bits = Shown(p).bits
  PROVE  ArmMap!Change
  <1>1. \A p \in Arm!Pages : Seen(p) /\ Seen(p)'
    BY Views, ViewsAfter
  <1>2. ASSUME NEW p \in Arm!Pages
        PROVE  Arm!Mapping'[p] = IF p \in Arm!Left \ Arm!Left' THEN ArmMap!Updated(p)
                                 ELSE Arm!Mapping[p]
    BY <1>1 DEF Seen, ArmMap!Updated
  <1>3. Arm!Mapping' = [p \in Arm!Pages |-> Arm!Mapping'[p]]
    BY DEF Arm!Mapping
  <1>4. Arm!Mapping' = [p \in Arm!Pages |->
                          IF p \in Arm!Left \ Arm!Left' THEN ArmMap!Updated(p)
                          ELSE Arm!Mapping[p]]
    BY <1>2, <1>3
  <1> QED BY <1>4 DEF ArmMap!Change

\* The page tables have an entry for each page of a section.
PageTablesFull ==
  \A t \in PageTableNumbers : PageTables[t] = [i \in PageSlots |-> PageTables[t][i]]

\* What a page is mapped by stays where its entries do.
LEMMA SamePage ==
  ASSUME NEW p \in Arm!Pages, PageOK(p), p \in misdirected' <=> p \in misdirected,
         Arm!Entry(p)' = Arm!Entry(p),
         Arm!Entry(p).type = "table" => Arm!PageEntry(p)' = Arm!PageEntry(p)
  PROVE  PageOK(p)' /\ Shown(p)' = Shown(p)
  <1> USE DEF BlocksAt, Arm!SectionStart, Arm!Denied, Arm!Fault, Arm!Block
  <1>1. Shown(p)' = Shown(p)
    BY DEF Shown
  <1>2. CASE p \notin misdirected /\ Arm!Entry(p) \in {Arm!Fault} \cup BlocksAt(Arm!SectionStart(p))
    BY <1>1, <1>2 DEF PageOK
  <1>3. CASE Arm!Entry(p).type = "table"
    BY <1>1, <1>3 DEF PageOK
  <1> QED BY <1>2, <1>3 DEF PageOK

\* A section of the first level table is written.
LEMMA SectionWritten ==
  ASSUME ArmTables, NEW s \in SectionNumbers, NEW e,
         FirstLevelTable' = [FirstLevelTable EXCEPT ![s] = e]
  PROVE  \A p \in Arm!Pages : Arm!Entry(p)' = IF Arm!SectionOf(p) = s THEN e ELSE Arm!Entry(p)
  <1>1. DOMAIN FirstLevelTable = SectionNumbers
    BY DEF ArmTables
  <1> QED BY <1>1, PagesOfSection DEF Arm!Entry

\* Blocks for the pages of a section.
LEMMA BlockWritten ==
  ASSUME ArmTables, NEW s \in SectionNumbers, NEW bits \in SUBSET Bit,
         \A p \in Arm!Pages : PageOK(p),
         UNCHANGED <<PageTables, misdirected>>,
         FirstLevelTable' = [FirstLevelTable EXCEPT ![s] = Arm!Block(FirstPage(s), bits)],
         \A p \in Arm!Pages : Arm!SectionOf(p) = s => p \notin misdirected
  PROVE  \A p \in Arm!Pages :
           /\ PageOK(p)'
           /\ Shown(p)' = IF Arm!SectionOf(p) = s THEN Arm!Block(FirstPage(s), bits) ELSE Shown(p)
  <1> SUFFICES ASSUME NEW p \in Arm!Pages
               PROVE  /\ PageOK(p)'
                      /\ Shown(p)' = IF Arm!SectionOf(p) = s THEN Arm!Block(FirstPage(s), bits)
                                     ELSE Shown(p)
    OBVIOUS
  <1>1. Arm!Entry(p)' = IF Arm!SectionOf(p) = s THEN Arm!Block(FirstPage(s), bits)
                        ELSE Arm!Entry(p)
    BY SectionWritten
  <1>2. CASE Arm!SectionOf(p) = s
    <2>1. Arm!SectionStart(p)' = FirstPage(s)
      BY <1>2, Places, PagesOfSection DEF Arm!SectionStart
    <2>2. Arm!Entry(p)' \in BlocksAt(Arm!SectionStart(p)')
      BY <1>1, <1>2, <2>1 DEF BlocksAt
    <2>3. Arm!Entry(p)'.type # "table"
      BY <1>1, <1>2 DEF Arm!Block
    <2>4. \A a : BlocksAt(a)' = BlocksAt(a)
      BY DEF BlocksAt, Arm!Block
    <2>5. PageOK(p)'
      BY <1>2, <2>2, <2>4 DEF PageOK
    <2>6. Shown(p)' = Arm!Entry(p)'
      BY <2>3 DEF Shown
    <2> QED BY <1>1, <1>2, <2>5, <2>6
  <1>3. CASE Arm!SectionOf(p) # s
    <2>1. Arm!Entry(p)' = Arm!Entry(p) /\ Arm!PageEntry(p)' = Arm!PageEntry(p)
      BY <1>1, <1>3 DEF Arm!PageEntry
    <2> QED BY <1>3, <2>1, SamePage
  <1> QED BY <1>2, <1>3

\* A page table for a section is allocated, or written.
LEMMA TableWritten ==
  ASSUME ArmTables, NEW s \in SectionNumbers, NEW table,
         \/ /\ FirstLevelTable[s].type # "table"
            /\ PageTables' = Append(PageTables, table)
            /\ FirstLevelTable' = [FirstLevelTable EXCEPT ![s] = Arm!Table(Len(PageTables) + 1)]
         \/ /\ FirstLevelTable[s].type = "table"
            /\ PageTables' = [PageTables EXCEPT ![FirstLevelTable[s].address] = table]
            /\ UNCHANGED FirstLevelTable
  PROVE  \A p \in Arm!Pages :
           IF Arm!SectionOf(p) = s
           THEN Arm!Entry(p)'.type = "table" /\ Arm!PageEntry(p)' = table[p % SectionPages]
           ELSE /\ Arm!Entry(p)' = Arm!Entry(p)
                /\ Arm!Entry(p).type = "table" => Arm!PageEntry(p)' = Arm!PageEntry(p)
  <1> SUFFICES ASSUME NEW p \in Arm!Pages
               PROVE  IF Arm!SectionOf(p) = s
                      THEN /\ Arm!Entry(p)'.type = "table"
                           /\ Arm!PageEntry(p)' = table[p % SectionPages]
                      ELSE /\ Arm!Entry(p)' = Arm!Entry(p)
                           /\ Arm!Entry(p).type = "table" =>
                                Arm!PageEntry(p)' = Arm!PageEntry(p)
    OBVIOUS
  <1>1. /\ Arm!SectionOf(p) \in SectionNumbers
        /\ Arm!Entry(p) = FirstLevelTable[Arm!SectionOf(p)]
        /\ Arm!Entry(p)' = FirstLevelTable'[Arm!SectionOf(p)]
    BY PagesOfSection DEF Arm!Entry
  <1>2. Arm!PageEntry(p)' = PageTables'[Arm!Entry(p)'.address][p % SectionPages]
    BY DEF Arm!PageEntry
  <1>3. DOMAIN FirstLevelTable = SectionNumbers
    BY DEF ArmTables
  <1>4. /\ Len(PageTables) \in Nat /\ PageTableNumbers = 1 .. Len(PageTables)
        /\ DOMAIN PageTables = PageTableNumbers
    BY DEF ArmTables, PageTableNumbers
  <1>5. Arm!Entry(p).type = "table" =>
          /\ Arm!Entry(p).address \in PageTableNumbers
          /\ Arm!Entry(p) = Arm!Table(Arm!Entry(p).address)
    BY <1>1 DEF ArmTables
  <1>6. CASE /\ FirstLevelTable[s].type # "table"
             /\ PageTables' = Append(PageTables, table)
             /\ FirstLevelTable' = [FirstLevelTable EXCEPT ![s] = Arm!Table(Len(PageTables) + 1)]
    <2>1. /\ \A t \in PageTableNumbers : PageTables'[t] = PageTables[t]
          /\ PageTables'[Len(PageTables) + 1] = table
      <3>1. PICK S : PageTables \in Seq(S)
        BY DEF ArmTables
      <3>2. PageTables \in Seq(S \cup {table})
        BY <3>1
      <3>3. table \in S \cup {table} /\ PageTables' = Append(PageTables, table)
        BY <1>6
      <3>4. /\ \A t \in 1 .. Len(PageTables) : PageTables'[t] = PageTables[t]
            /\ PageTables'[Len(PageTables) + 1] = table
        BY <3>2, <3>3, Appended
      <3> QED BY <1>4, <3>4
    <2>2. CASE Arm!SectionOf(p) = s
      <3>1. Arm!Entry(p)' = Arm!Table(Len(PageTables) + 1)
        BY <1>1, <1>3, <1>6, <2>2
      <3>2. Arm!Entry(p)'.type = "table" /\ Arm!Entry(p)'.address = Len(PageTables) + 1
        BY <3>1 DEF Arm!Table
      <3> QED BY <1>2, <2>1, <2>2, <3>2
    <2>3. CASE Arm!SectionOf(p) # s
      <3>1. Arm!Entry(p)' = Arm!Entry(p)
        BY <1>1, <1>3, <1>6, <2>3
      <3> QED BY <1>2, <1>5, <2>1, <2>3, <3>1 DEF Arm!PageEntry
    <2> QED BY <2>2, <2>3
  <1>7. CASE /\ FirstLevelTable[s].type = "table"
             /\ PageTables' = [PageTables EXCEPT ![FirstLevelTable[s].address] = table]
             /\ UNCHANGED FirstLevelTable
    <2> DEFINE t == FirstLevelTable[s].address
    <2>1. t \in PageTableNumbers /\ FirstLevelTable[s] = Arm!Table(t)
      BY <1>7 DEF ArmTables
    <2>2. \A u \in PageTableNumbers : PageTables'[u] = IF u = t THEN table ELSE PageTables[u]
      BY <1>4, <1>7
    <2>3. Arm!Entry(p)' = Arm!Entry(p)
      BY <1>1, <1>7
    <2>4. CASE Arm!SectionOf(p) = s
      BY <1>1, <1>2, <1>7, <2>1, <2>2, <2>3, <2>4
    <2>5. CASE Arm!SectionOf(p) # s
      <3>1. ASSUME Arm!Entry(p).type = "table" PROVE Arm!Entry(p).address # t
        <4>1. SUFFICES ASSUME Arm!Entry(p).address = t PROVE FALSE
          OBVIOUS
        <4>2. {s, Arm!SectionOf(p)} \subseteq Arm!References(t)
          BY <1>1, <1>3, <1>5, <2>1, <3>1, <4>1 DEF Arm!References
        <4>3. IF t \in replaced THEN Arm!References(t) = {}
              ELSE \E r \in Arm!References(t) : Arm!References(t) = {r}
          BY <1>4, <2>1 DEF ArmTables, Arm!NoTableLost
        <4> QED BY <2>5, <4>2, <4>3
      <3> QED BY <1>2, <1>5, <2>2, <2>3, <2>5, <3>1 DEF Arm!PageEntry
    <2> QED BY <2>4, <2>5
  <1> QED BY <1>6, <1>7

(***************************************************************************)
(* 32-bit Arm: the part of a region that is left.                          *)
(***************************************************************************)
LEMMA InSection ==
  ASSUME NEW s \in Nat, NEW p \in Nat
  PROVE  Arm!SectionOf(p) = s <=> FirstPage(s) <= p /\ p < FirstPage(s) + SectionPages
  <1>1. ASSUME Arm!SectionOf(p) = s PROVE FirstPage(s) <= p /\ p < FirstPage(s) + SectionPages
    BY <1>1, Places
  <1> QED BY <1>1, PlaceOf

\* An address at the start of a section.
LEMMA Aligned ==
  ASSUME NEW b \in Nat
  PROVE  /\ Multiple(b) <=> b = FirstPage(Arm!SectionOf(b))
         /\ b % SectionPages = 0 <=> Multiple(b)
         /\ Multiple(b) => Multiple(b + SectionPages) /\ Arm!Boundary(b) = b + SectionPages
  <1> DEFINE s == Arm!SectionOf(b)
             r == b % SectionPages
  <1>1. /\ s \in Nat /\ FirstPage(s) \in Nat /\ r = b - FirstPage(s) /\ Arm!SectionStart(b) = FirstPage(s)
    BY Places
  <1>2. SectionPages \in Nat /\ SectionPages > 0
    BY Starts
  <1>3. ASSUME Multiple(b) PROVE b = FirstPage(s)
    <2>1. PICK k \in Nat : b = FirstPage(k)
      BY <1>3 DEF Multiple, FirstPage
    <2>2. s = k
      BY <1>2, <2>1, PlaceOf
    <2> QED BY <2>1, <2>2
  <1>4. ASSUME b = FirstPage(s) PROVE Multiple(b)
    BY <1>1, <1>4 DEF Multiple, FirstPage
  <1>5. ASSUME Multiple(b) PROVE Multiple(b + SectionPages)
    <2>1. b = FirstPage(s) /\ s \in Nat
      BY <1>1, <1>3, <1>5
    <2> HIDE DEF s
    <2>2. b + SectionPages = FirstPage(s + 1) /\ s + 1 \in Nat
      BY <2>1, Starts
    <2> QED BY <2>2 DEF Multiple, FirstPage
  <1>6. r = 0 <=> b = FirstPage(s)
    <2> HIDE DEF r, s
    <2> QED BY <1>1
  <1>7. ASSUME Multiple(b) PROVE Arm!Boundary(b) = b + SectionPages
    BY <1>1, <1>3, <1>7 DEF Arm!Boundary
  <1> QED BY <1>3, <1>4, <1>5, <1>6, <1>7

\* Nothing is lost of a region that begins a section, or that is as long as one.
LEMMA NoTail ==
  ASSUME NEW b \in Nat, NEW n \in Nat, Multiple(b) \/ n >= SectionPages
  PROVE  Arm!LostTail(b, n) = {}
  <1>1. SectionPages \in Nat
    BY Starts
  <1>2. CASE n >= SectionPages
    BY <1>1, <1>2 DEF Arm!LostTail
  <1>3. CASE n < SectionPages
    <2>1. Arm!Boundary(b) = b + SectionPages
      BY <1>1, <1>3, Aligned
    <2> QED BY <1>1, <1>3, <2>1 DEF Arm!LostTail
  <1> QED BY <1>1, <1>2, <1>3

(***************************************************************************)
(* 32-bit Arm: the invariant of the refinement.                            *)
(***************************************************************************)
ArmPhases ==
  /\ result = "busy" <=> at # "idle"
  /\ state = "configuring" => at \in {"idle", "fill", "undefined"} /\ misdirected = {}
  /\ state # "configuring" => at \in {"idle", "chunk", "sections", "pages", "failed"}
  /\ at = "fill" => request.mask = {}
  /\ at = "sections" => Multiple(BaseAddress)
  /\ at = "pages" /\ ChunkLength > PageLength => Multiple(BaseAddress + PageLength)

ArmRequests ==
  /\ request.attrs \in SUBSET Bit /\ request.mask \in SUBSET Bit
  /\ \A i \in 1 .. Len(regions) : regions[i].mask = {}

PagesRight == PageTablesFull /\ \A p \in Arm!Pages : PageOK(p)

ArmMapInv == ArmInv /\ ArmRequests /\ ArmPhases /\ PagesRight

LEMMA FillSectionChange ==
  ASSUME ArmMapInv, Arm!FillSection
  PROVE  ArmMap!Change /\ PagesRight'
  <1> USE DEF Arm!FillSection
  <1> DEFINE s == Arm!SectionOf(BaseAddress)
  <1>1. /\ BaseAddress \in Nat /\ Length \in Nat /\ Length >= SectionPages
        /\ SectionPages \in Nat /\ s \in SectionNumbers /\ s \in Nat
    BY NextSection, PagesOfSection DEF ArmMapInv, Arm!WholeSection
  <1>2. Multiple(BaseAddress) /\ BaseAddress = FirstPage(s) /\ Multiple(BaseAddress + SectionPages)
    BY <1>1, Aligned DEF Arm!WholeSection
  <1>3. /\ state = "configuring" /\ state' = state /\ misdirected = {} /\ request.mask = {}
        /\ result = "busy" /\ UNCHANGED <<result, request>>
    BY DEF ArmMapInv, ArmPhases
  <1>4. BaseAddress' = BaseAddress + SectionPages /\ Length' = Length - SectionPages
    OBVIOUS
  <1>5. FirstLevelTable' = [FirstLevelTable EXCEPT ![s] = Arm!Block(FirstPage(s), request.attrs)]
        /\ UNCHANGED <<PageTables, misdirected>>
    BY <1>2
  <1>6. request.attrs \in SUBSET Bit /\ ArmTables /\ \A p \in Arm!Pages : PageOK(p)
    BY DEF ArmMapInv, ArmRequests, PagesRight, ArmInv
  <1> HIDE DEF s, Arm!FillSection
  <1>7. \A p \in Arm!Pages :
          /\ PageOK(p)'
          /\ Shown(p)' = IF Arm!SectionOf(p) = s THEN Arm!Block(FirstPage(s), request.attrs)
                         ELSE Shown(p)
    BY <1>1, <1>3, <1>5, <1>6, BlockWritten
  <1>8. /\ Arm!Left = BaseAddress .. BaseAddress + Length - 1
        /\ Arm!Left' = BaseAddress' .. BaseAddress' + Length' - 1
    <2>1. Arm!LostTail(BaseAddress, Length) = {} /\ Arm!LostTail(BaseAddress, Length)' = {}
      <3>1. BaseAddress' \in Nat /\ Length' \in Nat /\ Multiple(BaseAddress')
        BY <1>1, <1>2, <1>4
      <3>2. Arm!LostTail(BaseAddress', Length') = {}
        BY <3>1, NoTail
      <3> QED BY <1>1, <3>2, NoTail DEF Arm!LostTail, Arm!Boundary, Arm!SectionStart
    <2> QED BY <1>3, <2>1 DEF Arm!Left
  <1>9. /\ Arm!Left' \subseteq Arm!Left
        /\ \A p \in Arm!Pages : p \in Arm!Left \ Arm!Left' <=> Arm!SectionOf(p) = s
    BY <1>1, <1>2, <1>4, <1>8, InSection, PagesOfSection
  <1>10. ASSUME NEW p \in Arm!Pages
         PROVE  IF p \in Arm!Left \ Arm!Left'
                THEN /\ Shown(p)'.type = "block"
                     /\ Shown(p)'.bits = (Shown(p).bits \cap request.mask) \cup request.attrs
                ELSE /\ Shown(p)'.type = "block" <=> Shown(p).type = "block"
                     /\ Shown(p)'.bits = Shown(p).bits
    BY <1>3, <1>7, <1>9 DEF Arm!Block
  <1>11. PageTablesFull'
    BY <1>5 DEF ArmMapInv, PagesRight, PageTablesFull, PageTableNumbers, PageSlots
  <1> QED BY <1>3, <1>6, <1>7, <1>9, <1>10, <1>11, ChangeStep DEF PagesRight

\* A page that is cut out of a section.
LEMMA PageOfSection ==
  ASSUME NEW s \in SectionNumbers, NEW p \in Arm!Pages, Arm!SectionOf(p) = s
  PROVE  /\ p % SectionPages \in PageSlots
         /\ FirstPage(s) + (p % SectionPages) = p /\ s * SectionPages + (p % SectionPages) = p
         /\ Arm!SectionStart(p) = FirstPage(s)
  <1> DEFINE r == p % SectionPages
  <1>1. /\ p \in Nat /\ s \in Nat /\ FirstPage(s) \in Nat
    BY PagesOfSection
  <1>2. r \in PageSlots /\ r = p - FirstPage(s) /\ Arm!SectionStart(p) = FirstPage(s)
    BY <1>1, Places
  <1> HIDE DEF r
  <1>3. FirstPage(s) + r = p
    BY <1>1, <1>2
  <1> QED BY <1>2, <1>3 DEF r, FirstPage

\* A section that is no table is not mapped, or a block.
LEMMA SectionEntry ==
  ASSUME NEW s \in SectionNumbers, NEW p \in Arm!Pages, Arm!SectionOf(p) = s, PageOK(p),
         FirstLevelTable[s].type # "table"
  PROVE  /\ p \notin misdirected
         /\ Shown(p) = FirstLevelTable[s]
         /\ \/ FirstLevelTable[s] = Arm!Fault
            \/ /\ FirstLevelTable[s].type = "block" /\ FirstLevelTable[s].address = FirstPage(s)
               /\ FirstLevelTable[s].bits \in SUBSET Bit
  <1>1. Arm!Entry(p) = FirstLevelTable[s] /\ Arm!SectionStart(p) = FirstPage(s)
    BY PageOfSection DEF Arm!Entry
  <1> QED BY <1>1 DEF PageOK, Shown, BlocksAt, Arm!Block

\* The pages a section is converted to map what it did.
LEMMA PagesSplit ==
  ASSUME NEW s \in SectionNumbers, NEW p \in Arm!Pages, Arm!SectionOf(p) = s, PageOK(p),
         FirstLevelTable[s].type # "table"
  PROVE  LET e == Arm!SplitPages(s)[p % SectionPages]
             f == Arm!NewPages(s)[p % SectionPages] IN
         /\ e \in {Arm!Denied(p)} \cup BlocksAt(p)
         /\ e.type = "block" <=> Shown(p).type = "block"
         /\ e.bits = Shown(p).bits
         /\ f \in {Arm!Fault, Arm!Denied(p)} \cup BlocksAt(p)
         /\ f.type = "block" <=> Shown(p).type = "block"
         /\ f.bits = Shown(p).bits
  <1> DEFINE i == p % SectionPages
  <1>1. i \in 0 .. SectionPages - 1 /\ FirstPage(s) + i = p /\ s * SectionPages + i = p
    BY PageOfSection DEF PageSlots
  <1> HIDE DEF i
  <1>2. Shown(p) = FirstLevelTable[s]
    BY SectionEntry
  <1>3. CASE FirstLevelTable[s] = Arm!Fault
    <2>1. FirstLevelTable[s].type = "fault" /\ FirstLevelTable[s].bits = {}
      BY <1>3 DEF Arm!Fault
    <2>2. Arm!SplitPages(s)[i] = Arm!Denied(p) /\ Arm!NewPages(s)[i] = Arm!Fault
      BY <1>1, <2>1 DEF Arm!SplitPages, Arm!NewPages
    <2> QED BY <1>2, <2>1, <2>2 DEF Arm!Denied, Arm!Fault, i
  <1>4. CASE /\ FirstLevelTable[s].type = "block" /\ FirstLevelTable[s].address = FirstPage(s)
             /\ FirstLevelTable[s].bits \in SUBSET Bit
    <2>1. Arm!SplitPages(s)[i] = Arm!Block(p, FirstLevelTable[s].bits)
      BY <1>1, <1>4 DEF Arm!SplitPages
    <2>2. Arm!NewPages(s)[i] = Arm!SplitPages(s)[i]
      BY <1>4 DEF Arm!NewPages
    <2>3. /\ Arm!Block(p, FirstLevelTable[s].bits).type = "block"
          /\ Arm!Block(p, FirstLevelTable[s].bits).bits = FirstLevelTable[s].bits
          /\ Arm!Block(p, FirstLevelTable[s].bits) \in BlocksAt(p)
      BY <1>4 DEF Arm!Block, BlocksAt
    <2> QED BY <1>2, <1>4, <2>1, <2>2, <2>3 DEF i
  <1> QED BY <1>3, <1>4, SectionEntry

\* Page tables stay full.
LEMMA TablesFull ==
  ASSUME ArmTables, PageTablesFull, NEW table, table = [i \in PageSlots |-> table[i]],
         \/ PageTables' = Append(PageTables, table)
         \/ \E t \in PageTableNumbers : PageTables' = [PageTables EXCEPT ![t] = table]
  PROVE  PageTablesFull'
  <1>1. PICK S : PageTables \in Seq(S)
    BY DEF ArmTables
  <1>2. PageSlots' = PageSlots
    BY DEF PageSlots
  <1>3. CASE PageTables' = Append(PageTables, table)
    <2>1. PageTables \in Seq(S \cup {table}) /\ table \in S \cup {table}
      BY <1>1
    <2>2. /\ Len(PageTables') = Len(PageTables) + 1 /\ Len(PageTables) \in Nat
          /\ \A t \in 1 .. Len(PageTables) : PageTables'[t] = PageTables[t]
          /\ PageTables'[Len(PageTables) + 1] = table
      BY <1>3, <2>1, Appended
    <2>3. ASSUME NEW t \in PageTableNumbers'
          PROVE  PageTables'[t] = [i \in PageSlots |-> PageTables'[t][i]]
      <3>1. t \in PageTableNumbers \/ t = Len(PageTables) + 1
        BY <2>2 DEF PageTableNumbers
      <3> QED BY <2>2, <3>1 DEF PageTablesFull, PageTableNumbers
    <2> QED BY <1>2, <2>3 DEF PageTablesFull
  <1>4. CASE \E t \in PageTableNumbers : PageTables' = [PageTables EXCEPT ![t] = table]
    <2>1. PICK t \in PageTableNumbers : PageTables' = [PageTables EXCEPT ![t] = table]
      BY <1>4
    <2>2. Len(PageTables') = Len(PageTables)
      BY <1>1, <2>1, Rewritten DEF PageTableNumbers
    <2>3. \A u \in PageTableNumbers : PageTables'[u] = IF u = t THEN table ELSE PageTables[u]
      BY <1>1, <2>1 DEF PageTableNumbers
    <2>4. PageTableNumbers' = PageTableNumbers
      BY <2>2 DEF PageTableNumbers
    <2> QED BY <1>2, <2>3, <2>4 DEF PageTablesFull
  <1> QED BY <1>3, <1>4

LEMMA UpdateSectionChange ==
  ASSUME ArmMapInv, Arm!UpdateSection
  PROVE  ArmMap!Change /\ PagesRight'
  <1> USE DEF Arm!UpdateSection
  <1> DEFINE s == Arm!SectionOf(BaseAddress)
             old == FirstLevelTable[s]
             new == (old.bits \cap request.mask) \cup request.attrs
  <1>1. /\ ChunkLength \in 0 .. Length /\ Multiple(ChunkLength) /\ Length \in Nat
        /\ ChunkLength > 0
    BY DEF ArmMapInv, ArmInv, ArmLengths
  <1>2. /\ BaseAddress \in Nat /\ Length >= SectionPages /\ SectionPages \in Nat
        /\ s \in SectionNumbers /\ s \in Nat /\ old.type # "table"
    <2>1. Length > 0 /\ ChunkLength \in Nat
      BY <1>1
    <2>2. ChunkLength >= SectionPages
      BY <1>1, <2>1, MultipleOf
    <2> QED BY <1>1, <2>1, <2>2, NextSection, PagesOfSection DEF ArmMapInv
  <1>3. Multiple(BaseAddress) /\ BaseAddress = FirstPage(s)
    BY <1>2, Aligned DEF ArmMapInv, ArmPhases
  <1>4. /\ state # "configuring" /\ state' = state
        /\ result = "busy" /\ UNCHANGED <<result, request>>
    BY DEF ArmMapInv, ArmPhases
  <1>5. BaseAddress' = BaseAddress + SectionPages /\ Length' = Length - SectionPages
    BY DEF Arm!Advance
  <1>6. request.attrs \in SUBSET Bit /\ ArmTables /\ \A p \in Arm!Pages : PageOK(p)
    BY DEF ArmMapInv, ArmRequests, PagesRight, ArmInv
  <1>7. ASSUME NEW p \in Arm!Pages, Arm!SectionOf(p) = s
        PROVE  p \notin misdirected /\ Shown(p) = old
    BY <1>2, <1>6, <1>7, SectionEntry
  <1>8. /\ FirstLevelTable' = [FirstLevelTable EXCEPT ![s] = Arm!Block(FirstPage(s), new)]
        /\ new \in SUBSET Bit /\ UNCHANGED <<PageTables, misdirected>>
    <2>1. BaseAddress \in Arm!Pages
      <3> HIDE DEF s, old, Arm!UpdateSection
      <3>1. Length > 0 /\ ArmInv
        BY <1>1 DEF ArmMapInv
      <3>2. BaseAddress < Limit /\ Limit \in Nat
        BY <3>1, NextSection
      <3> QED BY <1>2, <3>2, PagesOfSection
    <2>2. \/ old = Arm!Fault
          \/ old.type = "block" /\ old.address = FirstPage(s) /\ old.bits \in SUBSET Bit
      BY <1>2, <1>6, <2>1, SectionEntry
    <2>3. CASE old = Arm!Fault
      <3>1. old.type = "fault" /\ old.bits = {} /\ new = request.attrs
        BY <2>3 DEF Arm!Fault
      <3> HIDE DEF new
      <3> QED BY <1>3, <1>6, <3>1 DEF old, Arm!history
    <2>4. CASE old.type = "block" /\ old.address = FirstPage(s) /\ old.bits \in SUBSET Bit
      <3>1. Arm!Updated(old) = Arm!Block(FirstPage(s), new)
        BY <2>4 DEF Arm!Updated
      <3> QED BY <1>6, <2>4, <3>1 DEF Arm!history
    <2> QED BY <2>2, <2>3, <2>4
  <1> HIDE DEF s, old, new, Arm!UpdateSection
  <1>9. \A p \in Arm!Pages :
          /\ PageOK(p)'
          /\ Shown(p)' = IF Arm!SectionOf(p) = s THEN Arm!Block(FirstPage(s), new) ELSE Shown(p)
    BY <1>2, <1>6, <1>7, <1>8, BlockWritten
  <1>10. /\ Arm!Left = BaseAddress .. BaseAddress + Length - 1
         /\ Arm!Left' = BaseAddress' .. BaseAddress' + Length' - 1
    BY <1>4 DEF Arm!Left
  <1>11. /\ Arm!Left' \subseteq Arm!Left
         /\ \A p \in Arm!Pages : p \in Arm!Left \ Arm!Left' <=> Arm!SectionOf(p) = s
    BY <1>1, <1>2, <1>3, <1>5, <1>10, InSection, PagesOfSection
  <1>12. ASSUME NEW p \in Arm!Pages
         PROVE  IF p \in Arm!Left \ Arm!Left'
                THEN /\ Shown(p)'.type = "block"
                     /\ Shown(p)'.bits = (Shown(p).bits \cap request.mask) \cup request.attrs
                ELSE /\ Shown(p)'.type = "block" <=> Shown(p).type = "block"
                     /\ Shown(p)'.bits = Shown(p).bits
    BY <1>7, <1>9, <1>11 DEF Arm!Block, new
  <1>13. PageTablesFull'
    BY <1>8 DEF ArmMapInv, PagesRight, PageTablesFull, PageTableNumbers, PageSlots
  <1> QED BY <1>4, <1>6, <1>9, <1>11, <1>12, <1>13, ChangeStep DEF PagesRight

\* A table is new or written: what it shows of the pages of its section decides.
LEMMA TableChange ==
  ASSUME ArmMapInv, NEW s \in SectionNumbers, NEW table, table = [i \in PageSlots |-> table[i]],
         \/ /\ FirstLevelTable[s].type # "table"
            /\ PageTables' = Append(PageTables, table)
            /\ FirstLevelTable' = [FirstLevelTable EXCEPT ![s] = Arm!Table(Len(PageTables) + 1)]
         \/ /\ FirstLevelTable[s].type = "table"
            /\ PageTables' = [PageTables EXCEPT ![FirstLevelTable[s].address] = table]
            /\ UNCHANGED FirstLevelTable,
         at # "idle", UNCHANGED <<result, request>>, Arm!Left' \subseteq Arm!Left,
         \A p \in Arm!Pages : Arm!SectionOf(p) # s =>
           p \notin Arm!Left \ Arm!Left' /\ (p \in misdirected' <=> p \in misdirected),
         \A p \in Arm!Pages : Arm!SectionOf(p) = s =>
           LET e == table[p % SectionPages] IN
           /\ IF p \in misdirected' THEN \E a \in Int : e \in BlocksAt(a)
              ELSE e \in {Arm!Fault, Arm!Denied(p)} \cup BlocksAt(p)
           /\ IF p \in Arm!Left \ Arm!Left'
              THEN e.type = "block" /\ e.bits = (Shown(p).bits \cap request.mask) \cup request.attrs
              ELSE (e.type = "block" <=> Shown(p).type = "block") /\ e.bits = Shown(p).bits
  PROVE  ArmMap!Change /\ PagesRight'
  <1>1. ArmTables /\ PageTablesFull /\ result = "busy" /\ \A p \in Arm!Pages : PageOK(p)
    BY DEF ArmMapInv, ArmInv, PagesRight, ArmPhases
  <1>2. PageTablesFull'
    <2>1. FirstLevelTable[s].type = "table" => FirstLevelTable[s].address \in PageTableNumbers
      BY <1>1 DEF ArmTables
    <2> QED BY <1>1, <2>1, TablesFull
  <1>3. \A p \in Arm!Pages :
          IF Arm!SectionOf(p) = s
          THEN Arm!Entry(p)'.type = "table" /\ Arm!PageEntry(p)' = table[p % SectionPages]
          ELSE /\ Arm!Entry(p)' = Arm!Entry(p)
               /\ Arm!Entry(p).type = "table" => Arm!PageEntry(p)' = Arm!PageEntry(p)
    BY <1>1, TableWritten
  <1>4. ASSUME NEW p \in Arm!Pages
        PROVE  /\ PageOK(p)'
               /\ IF p \in Arm!Left \ Arm!Left'
                  THEN /\ Shown(p)'.type = "block"
                       /\ Shown(p)'.bits = (Shown(p).bits \cap request.mask) \cup request.attrs
                  ELSE /\ Shown(p)'.type = "block" <=> Shown(p).type = "block"
                       /\ Shown(p)'.bits = Shown(p).bits
    <2>1. CASE Arm!SectionOf(p) = s
      <3> DEFINE e == table[p % SectionPages]
      <3>1. Shown(p)' = e /\ Arm!Entry(p)'.type = "table" /\ Arm!PageEntry(p)' = e
        BY <1>3, <2>1 DEF Shown
      <3>2. /\ IF p \in misdirected' THEN \E a \in Int : e \in BlocksAt(a)
               ELSE e \in {Arm!Fault, Arm!Denied(p)} \cup BlocksAt(p)
            /\ IF p \in Arm!Left \ Arm!Left'
               THEN e.type = "block" /\ e.bits = (Shown(p).bits \cap request.mask) \cup request.attrs
               ELSE (e.type = "block" <=> Shown(p).type = "block") /\ e.bits = Shown(p).bits
        BY <2>1
      <3> HIDE DEF e
      <3>3. PageOK(p)'
        BY <3>1, <3>2 DEF PageOK, BlocksAt, Arm!Block, Arm!Fault, Arm!Denied
      <3> QED BY <3>1, <3>2, <3>3
    <2>2. CASE Arm!SectionOf(p) # s
      <3>1. PageOK(p)' /\ Shown(p)' = Shown(p)
        BY <1>1, <1>3, <2>2, SamePage
      <3> QED BY <2>2, <3>1
    <2> QED BY <2>1, <2>2
  <1> QED BY <1>1, <1>2, <1>4, ChangeStep DEF PagesRight

LEMMA ConvertChange ==
  ASSUME ArmMapInv, Arm!ConvertSectionToPages
  PROVE  ArmMap!Change /\ PagesRight'
  <1> USE DEF Arm!ConvertSectionToPages
  <1> DEFINE s == Arm!SectionOf(BaseAddress)
             table == Arm!SplitPages(s)
  <1>1. s \in SectionNumbers /\ FirstLevelTable[s].type # "table"
    <2>1. Length > 0
      BY DEF ArmMapInv, ArmInv, ArmLengths
    <2> QED BY <2>1, NextSection DEF ArmMapInv
  <1>2. /\ PageTables' = Append(PageTables, table)
        /\ FirstLevelTable' = [FirstLevelTable EXCEPT ![s] = Arm!Table(Len(PageTables) + 1)]
        /\ at # "idle" /\ UNCHANGED <<result, request, misdirected>>
        /\ Arm!Left' = Arm!Left
    BY DEF Arm!history, Arm!Left, Arm!LostTail, Arm!Boundary, Arm!SectionStart
  <1>3. table = [i \in PageSlots |-> table[i]]
    BY DEF Arm!SplitPages, PageSlots
  <1> HIDE DEF s, table, Arm!ConvertSectionToPages
  <1>4. ASSUME NEW p \in Arm!Pages, Arm!SectionOf(p) = s
        PROVE  LET e == table[p % SectionPages] IN
               /\ p \notin misdirected' /\ e \in {Arm!Denied(p)} \cup BlocksAt(p)
               /\ e.type = "block" <=> Shown(p).type = "block"
               /\ e.bits = Shown(p).bits
    <2>1. PageOK(p)
      BY DEF ArmMapInv, PagesRight
    <2> QED BY <1>1, <1>2, <1>4, <2>1, PagesSplit, SectionEntry DEF table
  <1> QED BY <1>1, <1>2, <1>3, <1>4, TableChange

LEMMA UpdatePageChange ==
  ASSUME ArmMapInv, Arm!UpdatePage
  PROVE  ArmMap!Change /\ PagesRight'
  <1> USE DEF Arm!UpdatePage
  <1> DEFINE s == Arm!SectionOf(BaseAddress)
             t == FirstLevelTable[s].address
             i == BaseAddress % SectionPages
             old == PageTables[t][i]
             table == [PageTables[t] EXCEPT ![i] = Arm!Updated(old)]
  <1>1. Length \in Nat /\ Length > 0
    BY DEF ArmMapInv, ArmInv, ArmLengths
  <1>2. /\ BaseAddress \in Nat /\ BaseAddress < Limit /\ s \in SectionNumbers /\ s \in Nat
        /\ Arm!Entry(BaseAddress) = FirstLevelTable[s] /\ FirstLevelTable[s].type = "table"
        /\ BaseAddress \in Arm!Pages
    <2>1. ArmInv /\ Arm!Entry(BaseAddress).type = "table"
      BY DEF ArmMapInv
    <2> HIDE DEF Arm!UpdatePage, s
    <2>2. BaseAddress \in Nat /\ BaseAddress < Limit /\ s \in SectionNumbers
          /\ Arm!Entry(BaseAddress) = FirstLevelTable[s] /\ Limit \in Nat
      BY <1>1, <2>1, NextSection DEF s
    <2> QED BY <2>1, <2>2, PagesOfSection
  <1>3. /\ state # "configuring" /\ state' = state /\ at # "idle"
        /\ UNCHANGED <<result, request, FirstLevelTable>>
        /\ BaseAddress' = BaseAddress + 1 /\ Length' = Length - 1
    BY DEF ArmMapInv, ArmPhases, Arm!Advance
  <1>4. PageTables' = [PageTables EXCEPT ![t] = table]
    BY <1>2
  <1>5. Arm!PageEntry(BaseAddress) = old /\ Shown(BaseAddress) = old
    BY <1>2 DEF Arm!PageEntry, Shown
  <1>6. misdirected' = misdirected \cup (IF old.type = "fault" THEN {BaseAddress} ELSE {})
    BY <1>5
  <1>7. t \in PageTableNumbers /\ PageTables[t] = [j \in PageSlots |-> PageTables[t][j]]
    BY <1>2 DEF ArmMapInv, ArmInv, ArmTables, PagesRight, PageTablesFull
  <1>8. i \in PageSlots
    BY <1>2, PageOfSection
  <1> HIDE DEF s, t, i, old, Arm!UpdatePage
  <1>9. /\ table = [j \in PageSlots |-> table[j]]
        /\ \A j \in PageSlots : table[j] = IF j = i THEN Arm!Updated(old) ELSE PageTables[t][j]
    BY <1>7, <1>8
  <1> HIDE DEF table
  <1>10. /\ Arm!Left = BaseAddress .. BaseAddress + Length - 1
         /\ Arm!Left' = BaseAddress' .. BaseAddress' + Length' - 1
    BY <1>3 DEF Arm!Left
  <1>11. Arm!Left' \subseteq Arm!Left /\ Arm!Left \ Arm!Left' = {BaseAddress}
    BY <1>1, <1>2, <1>3, <1>10
  <1>12. \A p \in Arm!Pages : PageOK(p)
    BY DEF ArmMapInv, PagesRight
  <1>13. request.attrs \in SUBSET Bit /\ request.mask \in SUBSET Bit
    BY DEF ArmMapInv, ArmRequests
  <1>14. ASSUME NEW p \in Arm!Pages, Arm!SectionOf(p) = s
         PROVE  LET e == table[p % SectionPages] IN
                /\ IF p \in misdirected' THEN \E a \in Int : e \in BlocksAt(a)
                   ELSE e \in {Arm!Fault, Arm!Denied(p)} \cup BlocksAt(p)
                /\ IF p \in Arm!Left \ Arm!Left'
                   THEN e.type = "block"
                        /\ e.bits = (Shown(p).bits \cap request.mask) \cup request.attrs
                   ELSE (e.type = "block" <=> Shown(p).type = "block") /\ e.bits = Shown(p).bits
    <2> DEFINE e == table[p % SectionPages]
    <2>1. /\ p % SectionPages \in PageSlots /\ FirstPage(s) + (p % SectionPages) = p
          /\ FirstPage(s) + i = BaseAddress /\ FirstPage(s) \in Nat
      BY <1>2, <1>14, PageOfSection, PagesOfSection DEF i, s
    <2>2. /\ Arm!Entry(p).type = "table"
          /\ Arm!PageEntry(p) = PageTables[t][p % SectionPages]
          /\ Shown(p) = Arm!PageEntry(p)
      BY <1>2, <1>14 DEF Arm!Entry, Arm!PageEntry, Shown, t
    <2>3. IF p \in misdirected THEN \E a \in Int : Arm!PageEntry(p) \in BlocksAt(a)
          ELSE Arm!PageEntry(p) \in {Arm!Fault, Arm!Denied(p)} \cup BlocksAt(p)
      <3>1. Arm!Entry(p) \notin {Arm!Fault} \cup BlocksAt(Arm!SectionStart(p))
        BY <2>2 DEF Arm!Fault, BlocksAt, Arm!Block
      <3> QED BY <1>12, <3>1 DEF PageOK
    <2>4. CASE p = BaseAddress
      <3>1. e = Arm!Updated(old) /\ Arm!PageEntry(p) = old /\ Shown(p) = old
        BY <1>5, <1>9, <2>1, <2>4 DEF i
      <3>2. e = Arm!Block(old.address, (old.bits \cap request.mask) \cup request.attrs)
        BY <3>1 DEF Arm!Updated
      <3>3. (old.bits \cap request.mask) \cup request.attrs \in SUBSET Bit
        BY <1>13
      <3>4. e \in BlocksAt(old.address)
        BY <3>2, <3>3 DEF BlocksAt
      <3>5. e.type = "block" /\ e.bits = (Shown(p).bits \cap request.mask) \cup request.attrs
        BY <3>1, <3>2 DEF Arm!Block
      <3>6. IF p \in misdirected' THEN old.address \in Int ELSE old.address = p
        <4>1. p \in Int
          BY PagesOfSection
        <4>2. CASE old.type = "fault"
          <5>1. p \in misdirected'
            BY <1>6, <2>4, <4>2
          <5>2. old.address \in Int
            BY <2>3, <3>1, <4>1, <4>2 DEF Arm!Fault, Arm!Denied, BlocksAt, Arm!Block
          <5> QED BY <5>1, <5>2
        <4>3. CASE old.type # "fault"
          <5>1. p \in misdirected' <=> p \in misdirected
            BY <1>6, <4>3
          <5>2. IF p \in misdirected THEN old.address \in Int ELSE old.address = p
            BY <2>3, <3>1, <4>1, <4>3 DEF Arm!Fault, Arm!Denied, BlocksAt, Arm!Block
          <5> QED BY <5>1, <5>2
        <4> QED BY <4>2, <4>3
      <3> HIDE DEF e
      <3>7. IF p \in misdirected' THEN \E a \in Int : e \in BlocksAt(a) ELSE e \in BlocksAt(p)
        BY <3>4, <3>6
      <3>8. p \in Arm!Left \ Arm!Left'
        BY <1>11, <2>4
      <3> QED BY <3>5, <3>7, <3>8 DEF e
    <2>5. CASE p # BaseAddress
      <3>1. p % SectionPages # i
        <4> DEFINE r == p % SectionPages
        <4>1. FirstPage(s) + r = p
          BY <2>1
        <4> HIDE DEF r
        <4> QED BY <2>1, <2>5, <4>1 DEF r
      <3>2. e = Arm!PageEntry(p)
        BY <1>9, <2>1, <2>2, <3>1
      <3>3. (p \in misdirected' <=> p \in misdirected) /\ p \notin Arm!Left \ Arm!Left'
        BY <1>6, <1>11, <2>5
      <3> HIDE DEF e
      <3> QED BY <2>2, <2>3, <3>2, <3>3 DEF e
    <2> QED BY <2>4, <2>5
  <1>15. \A p \in Arm!Pages : Arm!SectionOf(p) # s =>
           p \notin Arm!Left \ Arm!Left' /\ (p \in misdirected' <=> p \in misdirected)
    BY <1>6, <1>11 DEF s
  <1>16. /\ FirstLevelTable[s].type = "table" /\ UNCHANGED FirstLevelTable
         /\ PageTables' = [PageTables EXCEPT ![FirstLevelTable[s].address] = table]
    BY <1>2, <1>3, <1>4 DEF t
  <1>17. table = [j \in PageSlots |-> table[j]]
    BY <1>9
  <1> QED BY <1>2, <1>3, <1>11, <1>14, <1>15, <1>16, <1>17, TableChange

\* What FillTranslationTable does in one section ends there, and forgets what
\* comes after of a region that is shorter than a section.
LEMMA PopulateLeft ==
  ASSUME ArmMapInv, Arm!PopulateLevel2PageTable
  PROVE  LET n == Arm!PageMapLength
             s == Arm!SectionOf(BaseAddress) IN
         /\ Arm!Left' \subseteq Arm!Left
         /\ Arm!Left \ Arm!Left' = BaseAddress .. BaseAddress + n - 1
         /\ n \in Nat /\ BaseAddress + n <= FirstPage(s) + SectionPages
  <1> USE DEF Arm!PopulateLevel2PageTable
  <1> DEFINE s == Arm!SectionOf(BaseAddress)
             n == Arm!PageMapLength
             up == FirstPage(s) + SectionPages
  <1>1. /\ BaseAddress \in Nat /\ Length \in Nat /\ Length > 0 /\ SectionPages \in Nat
        /\ s \in Nat /\ FirstPage(s) \in Nat
    BY NextSection, PagesOfSection DEF ArmMapInv
  <1>2. /\ FirstPage(s) <= BaseAddress /\ BaseAddress < up /\ Arm!Boundary(BaseAddress) = up
    BY <1>1, Places DEF Arm!Boundary
  <1>3. /\ state = "configuring" /\ state' = "configuring"
    BY DEF ArmMapInv, ArmPhases
  <1>4. ~Arm!WholeSection
    OBVIOUS
  <1>5. BaseAddress' = BaseAddress + n /\ Length' = IF Length < SectionPages THEN 0 ELSE Length - n
    OBVIOUS
  <1>6. n = IF Length <= up - BaseAddress THEN Length ELSE up - BaseAddress
    <2> HIDE DEF s, up
    <2>1. up - BaseAddress \in Int
      BY <1>1, <1>2 DEF up
    <2> QED BY <1>1, <1>2, <2>1, Smaller DEF Arm!PageMapLength
  <1> HIDE DEF s, n, Arm!PopulateLevel2PageTable
  <1>7. /\ Arm!Left = (BaseAddress .. BaseAddress + Length - 1)
                        \ Arm!LostTail(BaseAddress, Length)
        /\ Arm!Left' = (BaseAddress' .. BaseAddress' + Length' - 1)
                         \ Arm!LostTail(BaseAddress', Length')
    BY <1>3 DEF Arm!Left, Arm!LostTail, Arm!Boundary, Arm!SectionStart
  <1>8. CASE Length < SectionPages
    <2>1. Arm!LostTail(BaseAddress, Length) =
            {p \in BaseAddress .. BaseAddress + Length - 1 : p >= up}
      BY <1>2, <1>8 DEF Arm!LostTail
    <2>2. Arm!Left = BaseAddress .. BaseAddress + n - 1
      BY <1>1, <1>2, <1>6, <1>7, <2>1
    <2>3. Arm!Left' = {}
      BY <1>1, <1>2, <1>5, <1>6, <1>7, <1>8
    <2> QED BY <1>1, <1>2, <1>6, <2>2, <2>3 DEF s, n
  <1>9. CASE Length >= SectionPages
    <2>1. BaseAddress # FirstPage(s)
      BY <1>1, <1>4, <1>9, Aligned DEF Arm!WholeSection, s
    <2>2. n = up - BaseAddress /\ n \in Nat /\ n <= Length
      BY <1>1, <1>2, <1>6, <1>9, <2>1
    <2>3. BaseAddress' = FirstPage(s + 1) /\ s + 1 \in Nat /\ BaseAddress' \in Nat /\ Length' \in Nat
          /\ Length' = Length - n
      BY <1>1, <1>2, <1>5, <1>9, <2>2, Starts
    <2>4. Multiple(BaseAddress')
      BY <2>3 DEF Multiple, FirstPage
    <2>5. Arm!LostTail(BaseAddress', Length') = {} /\ Arm!LostTail(BaseAddress, Length) = {}
      BY <1>1, <1>9, <2>3, <2>4, NoTail
    <2>6. /\ Arm!Left = BaseAddress .. BaseAddress + Length - 1
          /\ Arm!Left' = BaseAddress + n .. BaseAddress + Length - 1
      <3>1. /\ Arm!Left = BaseAddress .. BaseAddress + Length - 1
            /\ Arm!Left' = BaseAddress' .. BaseAddress' + Length' - 1
        BY <1>7, <2>5
      <3>2. BaseAddress' = BaseAddress + n /\ BaseAddress' + Length' - 1 = BaseAddress + Length - 1
        BY <1>1, <1>5, <2>2, <2>3
      <3> QED BY <3>1, <3>2
    <2> QED BY <1>1, <1>2, <2>2, <2>6 DEF s, n
  <1> QED BY <1>1, <1>8, <1>9

LEMMA PopulateChange ==
  ASSUME ArmMapInv, Arm!PopulateLevel2PageTable
  PROVE  ArmMap!Change /\ PagesRight'
  <1> USE DEF Arm!PopulateLevel2PageTable
  <1> DEFINE s == Arm!SectionOf(BaseAddress)
             n == Arm!PageMapLength
             t == FirstLevelTable[s].address
             old == IF Arm!NeedsTable(s) THEN Arm!NewPages(s) ELSE PageTables[t]
             table == Arm!Filled(old)
  <1>1. /\ BaseAddress \in Nat /\ s \in SectionNumbers /\ s \in Nat /\ FirstPage(s) \in Nat
        /\ Arm!SectionStart(BaseAddress) = FirstPage(s) /\ FirstPage(s) <= BaseAddress
        /\ SectionPages \in Nat
    BY NextSection, PagesOfSection, Places DEF ArmMapInv
  <1>2. /\ misdirected = {} /\ misdirected' = {} /\ request.mask = {}
        /\ at # "idle" /\ UNCHANGED <<result, request>>
    BY DEF ArmMapInv, ArmPhases, Arm!history
  <1>3. \/ /\ FirstLevelTable[s].type # "table"
           /\ PageTables' = Append(PageTables, table)
           /\ FirstLevelTable' = [FirstLevelTable EXCEPT ![s] = Arm!Table(Len(PageTables) + 1)]
        \/ /\ FirstLevelTable[s].type = "table"
           /\ PageTables' = [PageTables EXCEPT ![FirstLevelTable[s].address] = table]
           /\ UNCHANGED FirstLevelTable
    <2>1. CASE Arm!NeedsTable(s)
      BY <2>1 DEF Arm!NeedsTable
    <2>2. CASE ~Arm!NeedsTable(s)
      BY <2>2 DEF Arm!NeedsTable
    <2> QED BY <2>1, <2>2
  <1>4. table = [i \in PageSlots |-> table[i]]
    BY DEF Arm!Filled, PageSlots
  <1>5. \A i \in PageSlots :
          table[i] = IF BaseAddress <= FirstPage(s) + i /\ FirstPage(s) + i < BaseAddress + n
                     THEN Arm!Block(FirstPage(s) + i, request.attrs) ELSE old[i]
    BY <1>1 DEF Arm!Filled, PageSlots
  <1>6. /\ Arm!Left' \subseteq Arm!Left
        /\ Arm!Left \ Arm!Left' = BaseAddress .. BaseAddress + n - 1
        /\ n \in Nat /\ BaseAddress + n <= FirstPage(s) + SectionPages
    BY PopulateLeft
  <1> HIDE DEF s, n, t, old, table, Arm!PopulateLevel2PageTable
  <1>7. \A p \in Arm!Pages : PageOK(p)
    BY DEF ArmMapInv, PagesRight
  <1>8. request.attrs \in SUBSET Bit
    BY DEF ArmMapInv, ArmRequests
  <1>9. ASSUME NEW p \in Arm!Pages, Arm!SectionOf(p) # s
        PROVE  p \notin Arm!Left \ Arm!Left'
    BY <1>1, <1>6, <1>9, InSection, PagesOfSection
  <1>10. ASSUME NEW p \in Arm!Pages, Arm!SectionOf(p) = s
         PROVE  LET e == table[p % SectionPages] IN
                /\ e \in {Arm!Fault, Arm!Denied(p)} \cup BlocksAt(p)
                /\ IF p \in Arm!Left \ Arm!Left'
                   THEN e.type = "block"
                        /\ e.bits = (Shown(p).bits \cap request.mask) \cup request.attrs
                   ELSE (e.type = "block" <=> Shown(p).type = "block") /\ e.bits = Shown(p).bits
    <2> DEFINE i == p % SectionPages
               e == table[i]
    <2>1. i \in PageSlots /\ FirstPage(s) + i = p /\ p \in Nat
      BY <1>1, <1>10, PageOfSection, PagesOfSection
    <2>2. old[i] \in {Arm!Fault, Arm!Denied(p)} \cup BlocksAt(p)
          /\ (old[i].type = "block" <=> Shown(p).type = "block") /\ old[i].bits = Shown(p).bits
      <3>1. CASE Arm!NeedsTable(s)
        BY <1>1, <1>7, <1>10, <3>1, PagesSplit DEF Arm!NeedsTable, old
      <3>2. CASE ~Arm!NeedsTable(s)
        <4>1. Arm!Entry(p) = FirstLevelTable[s] /\ Arm!Entry(p).type = "table"
          BY <1>10, <3>2 DEF Arm!Entry, Arm!NeedsTable
        <4>2. Arm!PageEntry(p) = old[i] /\ Shown(p) = old[i]
          BY <3>2, <4>1 DEF Arm!PageEntry, Shown, old, t
        <4>3. Arm!Entry(p) \notin {Arm!Fault} \cup BlocksAt(Arm!SectionStart(p))
          BY <4>1 DEF Arm!Fault, BlocksAt, Arm!Block
        <4> QED BY <1>2, <1>7, <4>2, <4>3 DEF PageOK
      <3> QED BY <3>1, <3>2
    <2> HIDE DEF i
    <2>3. e = IF BaseAddress <= p /\ p < BaseAddress + n THEN Arm!Block(p, request.attrs)
              ELSE old[i]
      BY <1>5, <2>1
    <2>4. p \in Arm!Left \ Arm!Left' <=> BaseAddress <= p /\ p < BaseAddress + n
      BY <1>1, <1>6, <2>1
    <2> HIDE DEF e
    <2>5. CASE BaseAddress <= p /\ p < BaseAddress + n
      <3>1. e = Arm!Block(p, request.attrs)
        BY <2>3, <2>5
      <3>2. e \in BlocksAt(p) /\ e.type = "block" /\ e.bits = request.attrs
        BY <1>8, <3>1 DEF BlocksAt, Arm!Block
      <3> QED BY <1>2, <2>4, <2>5, <3>2 DEF e, i
    <2>6. CASE ~(BaseAddress <= p /\ p < BaseAddress + n)
      BY <2>2, <2>3, <2>4, <2>6 DEF e, i
    <2> QED BY <2>5, <2>6
  <1>11. \A p \in Arm!Pages : Arm!SectionOf(p) # s =>
           p \notin Arm!Left \ Arm!Left' /\ (p \in misdirected' <=> p \in misdirected)
    BY <1>2, <1>9
  <1>12. \A p \in Arm!Pages : Arm!SectionOf(p) = s =>
           LET e == table[p % SectionPages] IN
           /\ IF p \in misdirected' THEN \E a \in Int : e \in BlocksAt(a)
              ELSE e \in {Arm!Fault, Arm!Denied(p)} \cup BlocksAt(p)
           /\ IF p \in Arm!Left \ Arm!Left'
              THEN e.type = "block" /\ e.bits = (Shown(p).bits \cap request.mask) \cup request.attrs
              ELSE (e.type = "block" <=> Shown(p).type = "block") /\ e.bits = Shown(p).bits
    BY <1>2, <1>10
  <1> QED BY <1>1, <1>2, <1>3, <1>4, <1>6, <1>11, <1>12, TableChange

(***************************************************************************)
(* 32-bit Arm: the steps that change no page.                              *)
(***************************************************************************)
LEMMA MapStays ==
  ASSUME ArmMapInv, UNCHANGED <<FirstLevelTable, PageTables, misdirected>>
  PROVE  Arm!Mapping' = Arm!Mapping /\ PagesRight'
  <1>1. Arm!Mapping' = Arm!Mapping
    BY DEF Arm!Mapping, Arm!Translation, Arm!Entry, Arm!PageEntry, Arm!Pages, Arm!Limit,
           Arm!SectionOf
  <1>2. PageTablesFull'
    BY DEF ArmMapInv, PagesRight, PageTablesFull, PageTableNumbers, PageSlots
  <1>3. ASSUME NEW p \in Arm!Pages PROVE PageOK(p)'
    <2>1. Arm!Entry(p)' = Arm!Entry(p) /\ Arm!PageEntry(p)' = Arm!PageEntry(p) /\ PageOK(p)
      BY DEF ArmMapInv, PagesRight, Arm!Entry, Arm!PageEntry, Arm!SectionOf
    <2> QED BY <2>1, SamePage
  <1>4. Arm!Pages' = Arm!Pages
    BY DEF Arm!Pages, Arm!Limit
  <1> QED BY <1>1, <1>2, <1>3, <1>4 DEF PagesRight

\* Control moves, within a call or between calls.
LEMMA StutterStep ==
  ASSUME ArmMapInv,
         \/ Arm!PopulateAtNull \/ Arm!NextChunk \/ Arm!ForwardToPages \/ Arm!ConvertFails
         \/ Arm!PagesDone \/ Arm!SectionsDone \/ Arm!ArmEnableMmu \/ Arm!RootAllocationFails
         \/ UNCHANGED armVars
  PROVE  UNCHANGED ArmMap!vars /\ PagesRight'
  <1>1. /\ UNCHANGED <<FirstLevelTable, PageTables, misdirected, request, result,
                        BaseAddress, Length>>
        /\ state' = state \/ at = "idle"
    BY DEF Arm!PopulateAtNull, Arm!NextChunk, Arm!ForwardToPages, Arm!ConvertFails,
           Arm!PagesDone, Arm!SectionsDone, Arm!ArmEnableMmu, Arm!RootAllocationFails,
           armVars, Arm!tables, Arm!history
  <1>2. Arm!Mapping' = Arm!Mapping /\ PagesRight'
    BY <1>1, MapStays
  <1>3. result = "busy" => Arm!Left' = Arm!Left
    BY <1>1 DEF ArmMapInv, ArmPhases, Arm!Left, Arm!LostTail, Arm!Boundary, Arm!SectionStart
  <1> QED BY <1>1, <1>2, <1>3 DEF ArmMap!vars

\* A call begins, with a region below 4 GB.
LEMMA CallStep ==
  ASSUME ArmMapInv, NEW c \in Call, NEW label, at = "idle",
         Arm!Begin(c, label), c.start < Arm!Limit,
         UNCHANGED <<FirstLevelTable, PageTables, misdirected>>
  PROVE  ArmMap!Call /\ PagesRight'
  <1>1. Arm!Mapping' = Arm!Mapping /\ PagesRight'
    BY MapStays
  <1>2. result # "busy" /\ result' = "busy" /\ request' = c /\ BaseAddress' = c.start
        /\ Length' = Arm!Min({c.length, Limit - c.start})
    BY LimitType DEF ArmMapInv, ArmPhases, Arm!Begin
  <1>3. c.start \in Nat /\ c.length \in Nat /\ Limit \in Nat /\ c.start < Limit
    BY LimitType DEF Call
  <1>4. Length' \in Nat /\ c.start + Length' <= Limit
    BY <1>2, <1>3, Smaller
  <1>5. Arm!Left' \subseteq BaseAddress' .. BaseAddress' + Length' - 1
    BY DEF Arm!Left
  <1>6. Arm!Left' \subseteq Arm!Pages
    <2>1. Arm!Left' \subseteq c.start .. c.start + Length' - 1
      BY <1>2, <1>5
    <2>2. c.start .. c.start + Length' - 1 \subseteq 0 .. Limit - 1
      BY <1>3, <1>4
    <2> QED BY <2>1, <2>2, PagesOfSection
  <1>7. [attrs |-> request'.attrs, mask |-> request'.mask] \in ArmMap!Update
    BY <1>2 DEF Call, ArmMap!Update
  <1> QED BY <1>1, <1>2, <1>6, <1>7 DEF ArmMap!Call

\* A call ends: with success when nothing is left.
LEMMA ReturnStep ==
  ASSUME ArmMapInv, Arm!Return
  PROVE  (ArmMap!Succeed \/ ArmMap!Fail) /\ PagesRight'
  <1> USE DEF Arm!Return
  <1>1. /\ UNCHANGED <<FirstLevelTable, PageTables, misdirected, request>>
        /\ result = "busy" /\ result' # "busy"
        /\ result' = IF at = "failed" THEN "OUT_OF_RESOURCES" ELSE "SUCCESS"
    BY DEF ArmMapInv, ArmPhases, Arm!tables, Arm!history
  <1>2. Arm!Mapping' = Arm!Mapping /\ PagesRight'
    BY <1>1, MapStays
  <1>3. CASE at = "failed"
    BY <1>1, <1>2, <1>3 DEF ArmMap!Fail
  <1>4. CASE at # "failed"
    <2>1. Length = 0 /\ BaseAddress \in Nat
      BY <1>4 DEF ArmMapInv, ArmInv, ArmLengths
    <2>2. Arm!Left = {}
      BY <2>1 DEF Arm!Left
    <2> QED BY <1>1, <1>2, <1>4, <2>2 DEF ArmMap!Succeed
  <1> QED BY <1>2, <1>3, <1>4

(***************************************************************************)
(* 32-bit Arm: the invariant of the refinement is kept.                    *)
(***************************************************************************)
LEMMA PhasesStep ==
  ASSUME ArmMapInv, [Arm!Next]_armVars
  PROVE  ArmPhases' /\ ArmRequests'
  <1> USE DEF ArmMapInv, ArmPhases, ArmRequests, Arm!setting, Arm!history, Arm!chunk
  <1>1. BaseAddress \in Nat /\ SectionPages \in Nat /\ regions \in Seq(Call)
    BY Starts DEF ArmInv, ArmLengths
  <1>2. CASE Arm!FillSection
    BY <1>2 DEF Arm!FillSection
  <1>3. CASE Arm!PopulateLevel2PageTable
    BY <1>3 DEF Arm!PopulateLevel2PageTable
  <1>4. CASE Arm!PopulateAtNull
    BY <1>4 DEF Arm!PopulateAtNull
  <1>5. CASE Arm!NextChunk
    <2>1. Arm!WholeSection => Multiple(BaseAddress)
      BY <1>1, Aligned DEF Arm!WholeSection
    <2>2. Arm!SomePages > Arm!SomePages => FALSE
      <3>1. Length \in Nat /\ Arm!Boundary(BaseAddress) \in Nat
        BY <1>1, BoundaryAfter DEF ArmInv, ArmLengths
      <3>2. Arm!SomePages \in Int
        BY <1>1, <3>1 DEF Arm!SomePages
      <3> QED BY <3>2
    <2> QED BY <1>5, <2>1, <2>2 DEF Arm!NextChunk, Multiple
  <1>6. CASE Arm!UpdateSection
    <2>1. Multiple(BaseAddress + SectionPages)
      BY <1>1, <1>6, Aligned DEF Arm!UpdateSection
    <2> QED BY <1>6, <2>1 DEF Arm!UpdateSection, Arm!Advance, Multiple
  <1>7. CASE Arm!ForwardToPages
    <2>1. Multiple(BaseAddress + SectionPages)
      BY <1>1, <1>7, Aligned DEF Arm!ForwardToPages
    <2> QED BY <1>7, <2>1 DEF Arm!ForwardToPages, Multiple
  <1>8. CASE Arm!ConvertSectionToPages
    BY <1>8 DEF Arm!ConvertSectionToPages, Multiple
  <1>9. CASE Arm!ConvertFails
    BY <1>9 DEF Arm!ConvertFails
  <1>10. CASE Arm!UpdatePage
    <2>1. /\ ChunkLength \in Int /\ PageLength \in Int
          /\ BaseAddress' + PageLength' = BaseAddress + PageLength
          /\ ChunkLength' > PageLength' => ChunkLength > PageLength
      <3>1. ChunkLength \in Int /\ PageLength \in Int
        BY <1>10 DEF ArmInv, ArmLengths, Arm!UpdatePage
      <3>2. /\ BaseAddress' = BaseAddress + 1 /\ ChunkLength' = ChunkLength - 1
            /\ PageLength' = PageLength - 1
        BY <1>10 DEF Arm!UpdatePage, Arm!Advance
      <3> QED BY <1>1, <3>1, <3>2
    <2> QED BY <1>10, <2>1 DEF Arm!UpdatePage, Multiple
  <1>11. CASE Arm!PagesDone
    <2>1. BaseAddress + PageLength = BaseAddress /\ PageLength = 0
      BY <1>1, <1>11 DEF Arm!PagesDone
    <2> QED BY <1>11, <2>1 DEF Arm!PagesDone, Multiple
  <1>12. CASE Arm!SectionsDone
    BY <1>12 DEF Arm!SectionsDone
  <1>13. CASE Arm!Return
    BY <1>13 DEF Arm!Return
  <1>14. CASE Arm!FillTranslationTable
    <2>1. /\ Head(regions) \in Call /\ Head(regions).mask = {}
          /\ \A i \in 1 .. Len(Tail(regions)) : Tail(regions)[i].mask = {}
      BY <1>1, <1>14 DEF Arm!FillTranslationTable
    <2> QED BY <1>14, <2>1 DEF Arm!FillTranslationTable, Arm!Begin, Call
  <1>15. CASE Arm!ArmEnableMmu
    BY <1>15 DEF Arm!ArmEnableMmu
  <1>16. CASE Arm!RootAllocationFails
    BY <1>16 DEF Arm!RootAllocationFails
  <1>17. ASSUME NEW c \in Requests, Arm!ArmSetMemoryAttributes(c)
         PROVE  ArmPhases' /\ ArmRequests'
    BY <1>17, ArmAssumption DEF Arm!ArmSetMemoryAttributes, Arm!Begin, Call
  <1>18. CASE UNCHANGED armVars \/ Arm!Finished
    BY <1>18 DEF armVars, Arm!Finished, Arm!vars, Multiple
  <1> QED BY <1>2, <1>3, <1>4, <1>5, <1>6, <1>7, <1>8, <1>9, <1>10, <1>11, <1>12, <1>13,
             <1>14, <1>15, <1>16, <1>17, <1>18 DEF Arm!Next, Arm!Update

LEMMA ArmMapInit == Arm!Init => ArmMapInv /\ ArmMap!Init
  <1> SUFFICES ASSUME Arm!Init PROVE ArmMapInv /\ ArmMap!Init
    OBVIOUS
  <1> USE DEF Arm!Init
  <1>1. ArmInv
    BY ArmInit
  <1>2. PageTablesFull
    BY DEF PageTablesFull, PageTableNumbers
  <1>3. ASSUME NEW p \in Arm!Pages
        PROVE  PageOK(p) /\ Shown(p) = Arm!Fault
    <2>1. Arm!Entry(p) = Arm!Fault /\ p \notin misdirected
      BY <1>3, PagesOfSection DEF Arm!Entry, SectionNumbers
    <2>2. Arm!Fault.type # "table"
      BY DEF Arm!Fault
    <2> QED BY <2>1, <2>2 DEF PageOK, Shown
  <1>4. ArmPhases
    BY DEF ArmPhases
  <1>5. ArmRequests
    <2>1. regions \in MemoryMaps /\ regions \in Seq(Call)
      BY ArmAssumption
    <2>2. \A i \in 1 .. Len(regions) : regions[i].mask = {}
      BY <2>1, MapAssumption
    <2> QED BY <2>2 DEF ArmRequests
  <1>6. ArmMap!Init
    <2>1. Arm!Mapping = [p \in Arm!Pages |-> Arm!Mapping[p]]
      BY DEF Arm!Mapping
    <2>2. ASSUME NEW p \in Arm!Pages PROVE Arm!Mapping[p] = Unmapped
      <3>1. Seen(p) /\ Shown(p) = Arm!Fault
        BY <1>3, Views
      <3>2. Shown(p).type # "block"
        BY <3>1 DEF Arm!Fault
      <3> QED BY <3>1, <3>2 DEF Seen
    <2>3. [attrs |-> request.attrs, mask |-> request.mask] \in ArmMap!Update
      BY DEF ArmMap!Update
    <2> QED BY <2>1, <2>2, <2>3 DEF ArmMap!Init
  <1> QED BY <1>1, <1>2, <1>3, <1>4, <1>5, <1>6 DEF ArmMapInv, PagesRight

LEMMA ArmMapStep ==
  ASSUME ArmMapInv, [Arm!Next]_armVars
  PROVE  ArmMapInv' /\ [ArmMap!Next]_ArmMap!vars
  <1>1. ArmInv' /\ ArmPhases' /\ ArmRequests'
    BY ArmStep, PhasesStep DEF ArmMapInv
  <1>2. CASE \/ Arm!FillSection \/ Arm!PopulateLevel2PageTable \/ Arm!UpdateSection
             \/ Arm!ConvertSectionToPages \/ Arm!UpdatePage
    <2>1. ArmMap!Change /\ PagesRight'
      BY <1>2, FillSectionChange, PopulateChange, UpdateSectionChange, ConvertChange,
         UpdatePageChange
    <2> QED BY <1>1, <2>1 DEF ArmMapInv, ArmMap!Next
  <1>3. CASE \/ Arm!PopulateAtNull \/ Arm!NextChunk \/ Arm!ForwardToPages \/ Arm!ConvertFails
             \/ Arm!PagesDone \/ Arm!SectionsDone \/ Arm!ArmEnableMmu
             \/ Arm!RootAllocationFails \/ UNCHANGED armVars
    <2>1. UNCHANGED ArmMap!vars /\ PagesRight'
      BY <1>3, StutterStep
    <2> QED BY <1>1, <2>1 DEF ArmMapInv
  <1>4. CASE Arm!Return
    BY <1>1, <1>4, ReturnStep DEF ArmMapInv, ArmMap!Next
  <1>5. CASE Arm!FillTranslationTable
    <2>1. Head(regions) \in Call /\ at = "idle"
          /\ UNCHANGED <<FirstLevelTable, PageTables, misdirected>>
      BY <1>5 DEF Arm!FillTranslationTable, ArmMapInv, ArmInv, ArmLengths, Arm!tables,
                  Arm!history
    <2>2. CASE Head(regions).start >= Arm!Limit
      <3>1. UNCHANGED <<request, result>> /\ result # "busy"
        BY <1>5, <2>2 DEF Arm!FillTranslationTable, ArmMapInv, ArmPhases
      <3> QED BY <1>1, <2>1, <3>1, MapStays DEF ArmMapInv, ArmMap!vars
    <2>3. CASE ~(Head(regions).start >= Arm!Limit)
      <3>1. Head(regions).start < Arm!Limit
        BY <2>1, <2>3, LimitType DEF Call
      <3>2. Arm!Begin(Head(regions), "fill")
        BY <1>5, <2>3 DEF Arm!FillTranslationTable
      <3>3. ArmMap!Call /\ PagesRight'
        BY <2>1, <3>1, <3>2, CallStep
      <3> QED BY <1>1, <3>3 DEF ArmMapInv, ArmMap!Next
    <2> QED BY <2>2, <2>3
  <1>6. ASSUME NEW c \in Requests, Arm!ArmSetMemoryAttributes(c)
        PROVE  ArmMapInv' /\ [ArmMap!Next]_ArmMap!vars
    <2>1. c \in Call /\ at = "idle" /\ UNCHANGED <<FirstLevelTable, PageTables, misdirected>>
      BY <1>6, ArmAssumption DEF Arm!ArmSetMemoryAttributes, Arm!tables, Arm!history
    <2>2. CASE c.start >= Arm!Limit
      <3>1. UNCHANGED <<request, result>> /\ result # "busy"
        BY <1>6, <2>2 DEF Arm!ArmSetMemoryAttributes, ArmMapInv, ArmPhases
      <3> QED BY <1>1, <2>1, <3>1, MapStays DEF ArmMapInv, ArmMap!vars
    <2>3. CASE ~(c.start >= Arm!Limit)
      <3>1. c.start < Arm!Limit
        BY <2>1, <2>3, LimitType DEF Call
      <3>2. Arm!Begin(c, "chunk")
        BY <1>6, <2>3 DEF Arm!ArmSetMemoryAttributes
      <3>3. ArmMap!Call /\ PagesRight'
        BY <2>1, <3>1, <3>2, CallStep
      <3> QED BY <1>1, <3>3 DEF ArmMapInv, ArmMap!Next
    <2> QED BY <2>2, <2>3
  <1>7. CASE Arm!Finished
    <2>1. UNCHANGED armVars
      BY <1>7 DEF Arm!Finished, Arm!vars, armVars
    <2>2. UNCHANGED ArmMap!vars /\ PagesRight'
      BY <2>1, StutterStep
    <2> QED BY <1>1, <2>2 DEF ArmMapInv
  <1> QED BY <1>2, <1>3, <1>4, <1>5, <1>6, <1>7 DEF Arm!Next, Arm!Update

\* A call of the 32-bit build changes every page of its region once and no other,
\* and what a section maps stays while it is converted to pages, but for the pages
\* FillTranslationTable forgets and those UpdatePageEntries misdirects.
THEOREM ArmKeepsPromise == Arm!Spec => ArmImplementsMemoryMap
  <1>1. ArmMapInv /\ [Arm!Next]_Arm!vars => ArmMapInv' /\ [ArmMap!Next]_ArmMap!vars
    BY ArmMapStep DEF Arm!vars, armVars
  <1> QED BY <1>1, ArmMapInit, PTL DEF Arm!Spec, ArmImplementsMemoryMap, ArmMap!Spec

(***************************************************************************)
(* AArch64: blocks and their numbers.                                      *)
(***************************************************************************)
Size == RootCount * BlockSize(RootTableLevel)

\* The number of the block of a level that contains a page, and that of the table
\* with its entry.
Quot(p, level) == p \div BlockSize(level)
Above(p, level) == Quot(p, level) \div Radix

LEMMA OneDivision ==
  ASSUME NEW x \in Nat, x > 0, NEW a \in Nat, NEW b \in Nat,
         NEW q \in 0 .. x - 1, NEW r \in 0 .. x - 1, x * a + q = x * b + r
  PROVE  a = b /\ q = r
  <1>1. ASSUME NEW c \in Nat, NEW d \in Nat, c < d, NEW s \in 0 .. x - 1, NEW t \in 0 .. x - 1
        PROVE  x * c + s < x * d + t
    <2> DEFINE n == d - c - 1
               m == x * n
    <2>1. n \in Nat /\ m \in Nat /\ x * c \in Nat
      BY <1>1
    <2>2. x * d = x * c + m + x
      BY <1>1
    <2> HIDE DEF m
    <2> QED BY <1>1, <2>1, <2>2
  <1>2. x * a \in Nat /\ x * b \in Nat
    OBVIOUS
  <1>3. a = b
    <2>1. ~(a < b)
      BY <1>1, <1>2
    <2>2. ~(b < a)
      BY <1>1, <1>2
    <2> QED BY <2>1, <2>2
  <1> QED BY <1>2, <1>3

LEMMA Division ==
  ASSUME NEW n \in Nat, NEW x \in Nat, x > 0
  PROVE  /\ n \div x \in Nat /\ n % x \in 0 .. x - 1
         /\ n = x * (n \div x) + (n % x) /\ x * (n \div x) \in Nat
  <1> DEFINE q == n \div x
             r == n % x
  <1>1. n = x * q + r /\ q \in Nat /\ r \in 0 .. x - 1
    OBVIOUS
  <1> HIDE DEF q, r
  <1>2. x * q \in Nat
    BY <1>1
  <1> QED BY <1>1, <1>2 DEF q, r

LEMMA Nested ==
  /\ \A level \in Levels : BlockSize(level) \in Nat /\ BlockSize(level) > 0
  /\ \A level \in 0 .. 2 : BlockSize(level) = BlockSize(level + 1) * Radix
  /\ Radix \in Nat /\ Radix >= 2
  <1>1. Radix \in Nat /\ Radix >= 2
    BY RadixAssumption
  <1>2. /\ BlockSize(3) = 1 /\ BlockSize(2) = Radix
        /\ BlockSize(1) = Radix * Radix /\ BlockSize(0) = Radix * Radix * Radix
    BY DEF BlockSize
  <1>3. /\ BlockSize(0) = BlockSize(0 + 1) * Radix /\ BlockSize(1) = BlockSize(1 + 1) * Radix
        /\ BlockSize(2) = BlockSize(2 + 1) * Radix
    BY <1>1, <1>2
  <1>4. \A level \in 0 .. 2 : level = 0 \/ level = 1 \/ level = 2
    OBVIOUS
  <1> QED BY <1>1, <1>3, <1>4, BlockSizes

LEMMA Quotients ==
  ASSUME NEW p \in Nat, NEW level \in Levels
  PROVE  /\ Quot(p, level) \in Nat /\ Above(p, level) \in Nat /\ IndexOf(p, level) \in Slots
         /\ Quot(p, level) = Radix * Above(p, level) + IndexOf(p, level)
         /\ p = BlockSize(level) * Quot(p, level) + (p % BlockSize(level))
         /\ BlockSize(level) * Quot(p, level) \in Nat
         /\ p % BlockSize(level) \in 0 .. BlockSize(level) - 1
  <1> DEFINE q == Quot(p, level)
  <1>1. BlockSize(level) \in Nat /\ BlockSize(level) > 0 /\ Radix \in Nat /\ Radix > 0
    BY Nested
  <1>2. /\ q \in Nat /\ p = BlockSize(level) * q + (p % BlockSize(level))
        /\ BlockSize(level) * q \in Nat
        /\ p % BlockSize(level) \in 0 .. BlockSize(level) - 1
    BY <1>1, Division DEF Quot
  <1>3. IndexOf(p, level) = q % Radix /\ Above(p, level) = q \div Radix
    BY DEF IndexOf, Quot, Above
  <1> HIDE DEF q
  <1>4. /\ q \div Radix \in Nat /\ q % Radix \in 0 .. Radix - 1
        /\ q = Radix * (q \div Radix) + (q % Radix)
    BY <1>1, <1>2, Division
  <1>5. /\ q \in Nat /\ Above(p, level) \in Nat /\ IndexOf(p, level) \in Slots
        /\ q = Radix * Above(p, level) + IndexOf(p, level)
    BY <1>2, <1>3, <1>4 DEF Slots
  <1> QED BY <1>2, <1>5 DEF q

\* The block that contains a page is where its pages are.
LEMMA InBlock ==
  ASSUME NEW p \in Nat, NEW level \in Levels, NEW k \in Nat
  PROVE  Quot(p, level) = k <=>
           BlockSize(level) * k <= p /\ p < BlockSize(level) * k + BlockSize(level)
  <1> DEFINE b == BlockSize(level)
             q == Quot(p, level)
             r == p % BlockSize(level)
  <1>1. b \in Nat /\ b > 0
    BY Nested
  <1>2. /\ q \in Nat /\ p = b * q + r /\ b * q \in Nat /\ r \in 0 .. b - 1
    BY Quotients
  <1> HIDE DEF b, q, r
  <1>3. b * k \in Nat
    BY <1>1
  <1>4. ASSUME q = k PROVE b * k <= p /\ p < b * k + b
    BY <1>1, <1>2, <1>3, <1>4
  <1>5. ASSUME b * k <= p, p < b * k + b PROVE q = k
    <2> DEFINE s == p - b * k
    <2>1. s \in 0 .. b - 1 /\ b * k + s = p
      BY <1>1, <1>3, <1>5
    <2> HIDE DEF s
    <2> QED BY <1>1, <1>2, <2>1, OneDivision
  <1>6. q = k <=> b * k <= p /\ p < b * k + b
    BY <1>4, <1>5
  <1> QED BY <1>6 DEF b, q

\* A block is an entry of the table of the next level that takes its place.
LEMMA AboveNext ==
  ASSUME NEW p \in Nat, NEW level \in 0 .. 2
  PROVE  Above(p, level + 1) = Quot(p, level)
  <1> DEFINE b == BlockSize(level + 1)
             a == Above(p, level + 1)
             i == IndexOf(p, level + 1)
             r == p % b
             q == Quot(p, level + 1)
             s == b * i + r
  <1>1. level \in Levels /\ level + 1 \in Levels
    BY DEF Levels
  <1>2. b \in Nat /\ b > 0 /\ BlockSize(level) = b * Radix /\ Radix \in Nat /\ Radix >= 2
    BY <1>1, Nested
  <1>3. /\ a \in Nat /\ i \in 0 .. Radix - 1 /\ r \in 0 .. b - 1 /\ p = b * q + r
        /\ q = Radix * a + i /\ q \in Nat
    BY <1>1, Quotients DEF Slots
  <1> HIDE DEF b, a, i, r, q
  <1>4. b * q = (b * Radix) * a + b * i
    BY <1>2, <1>3
  <1>5. s \in 0 .. (b * Radix) - 1
    <2> DEFINE n == Radix - 1 - i
               m == b * n
               u == b * i
    <2>1. n \in Nat /\ m \in Nat /\ u \in Nat
      BY <1>2, <1>3
    <2>2. b * Radix = u + m + b
      BY <1>2, <1>3
    <2> HIDE DEF m, u
    <2>3. s = u + r
      BY DEF u
    <2> HIDE DEF s
    <2> QED BY <1>2, <1>3, <2>1, <2>2, <2>3
  <1>6. p = BlockSize(level) * a + s
    <2> DEFINE u == b * i
               v == (b * Radix) * a
    <2>1. u \in Nat /\ v \in Nat
      BY <1>2, <1>3
    <2>2. b * q = v + u /\ s = u + r
      BY <1>4
    <2>3. v = BlockSize(level) * a
      BY <1>2
    <2> HIDE DEF u, v, s
    <2> QED BY <1>2, <1>3, <2>1, <2>2, <2>3
  <1> HIDE DEF s
  <1>7. BlockSize(level) * a <= p /\ p < BlockSize(level) * a + BlockSize(level)
    <2> DEFINE v == BlockSize(level) * a
    <2>1. v \in Nat /\ BlockSize(level) \in Nat /\ p = v + s
      BY <1>2, <1>3, <1>6
    <2> HIDE DEF v
    <2>2. v <= p /\ p < v + BlockSize(level)
      BY <1>2, <1>5, <2>1
    <2> QED BY <2>2 DEF v
  <1>8. Quot(p, level) = a
    BY <1>1, <1>3, <1>7, InBlock
  <1> QED BY <1>8 DEF a

\* The root has an entry for each page.
LEMMA RootAbove ==
  /\ Size \in Nat /\ Pages = 0 .. Size - 1
  /\ \A p \in Pages : p \in Nat /\ Above(p, RootTableLevel) = 0
  /\ RootTableLevel \in Levels
  <1> DEFINE b == BlockSize(RootTableLevel)
  <1>1. RootTableLevel \in Levels /\ RootCount \in Nat /\ RootCount <= Radix /\ Radix \in Nat
    BY RootAssumption, RadixAssumption DEF Levels
  <1>2. b \in Nat /\ b > 0
    BY <1>1, Nested
  <1>3. Size = RootCount * b /\ Size \in Nat /\ Pages = 0 .. Size - 1
    BY <1>1, <1>2 DEF Size, Pages
  <1> HIDE DEF b
  <1>4. ASSUME NEW p \in Pages PROVE p \in Nat /\ Above(p, RootTableLevel) = 0
    <2> DEFINE q == Quot(p, RootTableLevel)
               a == Above(p, RootTableLevel)
               i == IndexOf(p, RootTableLevel)
               n == q - RootCount
    <2>1. p \in Nat /\ p < Size
      BY <1>3
    <2>2. q \in Nat /\ a \in Nat /\ i \in 0 .. Radix - 1 /\ q = Radix * a + i
          /\ b * q <= p
      <3>1. /\ q \in Nat /\ a \in Nat /\ i \in 0 .. Radix - 1 /\ q = Radix * a + i
        BY <1>1, <2>1, Quotients DEF Slots
      <3>2. b * q <= p
        BY <1>1, <2>1, <3>1, InBlock DEF b
      <3> QED BY <3>1, <3>2
    <2> HIDE DEF q, a, i
    <2>3. q < RootCount
      <3>1. SUFFICES ASSUME q >= RootCount PROVE FALSE
        BY <1>1, <2>2
      <3> DEFINE m == b * n
      <3>2. n \in Nat /\ m \in Nat
        BY <1>1, <1>2, <2>2, <3>1
      <3>3. b * q = RootCount * b + m
        BY <1>1, <1>2, <2>2
      <3> HIDE DEF m
      <3> QED BY <1>3, <2>1, <2>2, <3>2, <3>3
    <2>4. Radix * 0 + q = Radix * a + i /\ q \in 0 .. Radix - 1
      BY <1>1, <2>2, <2>3
    <2>5. a = 0
      BY <1>1, <2>2, <2>4, OneDivision, RadixAssumption
    <2> QED BY <2>1, <2>5 DEF a
  <1> QED BY <1>1, <1>3, <1>4

(***************************************************************************)
(* AArch64: the tree of the tables.                                        *)
(***************************************************************************)
\* What a page translates to if its walk ends at an entry.
View(p, e) == IF e.type = "invalid" THEN Unmapped ELSE [to |-> p, bits |-> e.bits]

\* The entry i of table t is for the block with this number, at the table's level;
\* L has the levels of the tables, K the numbers of the blocks they stand for.
Number(K, t, i) == Radix * K[t] + i

\* An entry that is no table maps its own block, or nothing.
Tree(L, K) ==
  /\ L \in [Numbers -> Levels] /\ K \in [Numbers -> Nat]
  /\ L[1] = RootTableLevel /\ K[1] = 0
  /\ \A u \in Numbers, i \in Slots :
       IF Entry(u, i).type = "table"
       THEN /\ Entry(u, i).address \in Numbers
            /\ L[Entry(u, i).address] = L[u] + 1
            /\ K[Entry(u, i).address] = Number(K, u, i)
       ELSE \/ Entry(u, i) = Invalid
            \/ Entry(u, i) = Block(BlockSize(L[u]) * Number(K, u, i), Entry(u, i).bits)

\* A page's walk ends at an entry for a block that contains it.
Leaf(L, K, p, t, i) ==
  /\ t \in Numbers /\ i \in Slots
  /\ Quot(p, L[t]) = Number(K, t, i)
  /\ Entry(t, i).type # "table"

\* The walk of a page from a table of a level on.
Walked(level, t, p) ==
  CASE level = 0 -> Reached0(p, t)
    [] level = 1 -> Reached1(p, t)
    [] level = 2 -> Reached2(p, t)
    [] level = 3 -> Reached3(p, t)

LEMMA Turn ==
  ASSUME NEW level \in Levels, NEW t, NEW p
  PROVE  Walked(level, t, p) =
           IF level < 3 /\ Entry(t, IndexOf(p, level)).type = "table"
           THEN Walked(level + 1, Entry(t, IndexOf(p, level)).address, p)
           ELSE [level |-> level, entry |-> Entry(t, IndexOf(p, level))]
  <1>1. CASE level = 0
    BY <1>1 DEF Walked, Reached0
  <1>2. CASE level = 1
    BY <1>2 DEF Walked, Reached1
  <1>3. CASE level = 2
    BY <1>3 DEF Walked, Reached2
  <1>4. CASE level = 3
    BY <1>4 DEF Walked, Reached3
  <1> QED BY <1>1, <1>2, <1>3, <1>4 DEF Levels

\* Every table but the root has an entry that points to it.
LEMMA Parents ==
  ASSUME TableInv, NEW t \in Numbers, t # 1
  PROVE  \E u \in Numbers, i \in Slots : Entry(u, i).type = "table" /\ Entry(u, i).address = t
  <1>1. t \in 2 .. Len(tables) /\ NoTableLost
    BY DEF TableInv, TableTypes, Numbers
  <1>2. PICK e \in References(t) : References(t) = {e}
    BY <1>1 DEF NoTableLost
  <1>3. e[1] \in Numbers /\ e[2] \in Slots /\ Entry(e[1], e[2]) = Table(t)
    BY <1>2 DEF References, Numbers, Slots
  <1> QED BY <1>3 DEF Table

\* A page is in the block that its table stands for.
On(L, K, t, p) == t \in Numbers /\ Above(p, L[t]) = K[t]

LEMMA OnTable ==
  ASSUME NEW L, NEW K, Tree(L, K), NEW p \in Nat, NEW t \in Numbers, NEW i \in Slots
  PROVE  Quot(p, L[t]) = Number(K, t, i) <=> On(L, K, t, p) /\ IndexOf(p, L[t]) = i
  <1>1. L[t] \in Levels /\ K[t] \in Nat
    BY DEF Tree
  <1>2. /\ Above(p, L[t]) \in Nat /\ IndexOf(p, L[t]) \in 0 .. Radix - 1
        /\ Quot(p, L[t]) = Radix * Above(p, L[t]) + IndexOf(p, L[t])
    BY <1>1, Quotients DEF Slots
  <1>3. Radix \in Nat /\ Radix > 0 /\ i \in 0 .. Radix - 1
    BY Nested DEF Slots
  <1>4. ASSUME Quot(p, L[t]) = Number(K, t, i)
        PROVE  Above(p, L[t]) = K[t] /\ IndexOf(p, L[t]) = i
    <2>1. Radix * Above(p, L[t]) + IndexOf(p, L[t]) = Radix * K[t] + i
      BY <1>2, <1>4 DEF Number
    <2> DEFINE a == Above(p, L[t])
               b == K[t]
               j == IndexOf(p, L[t])
    <2>2. /\ a \in Nat /\ b \in Nat /\ j \in 0 .. Radix - 1
          /\ Radix * a + j = Radix * b + i
      BY <1>1, <1>2, <2>1
    <2> HIDE DEF a, b, j
    <2>3. a = b /\ j = i
      BY <1>3, <2>2, OneDivision
    <2> QED BY <2>3 DEF a, b, j
  <1> QED BY <1>2, <1>4 DEF On, Number

\* From a table down.
LEMMA Down ==
  ASSUME NEW L, NEW K, Tree(L, K), NEW p \in Nat, NEW t \in Numbers, On(L, K, t, p),
         Entry(t, IndexOf(p, L[t])).type = "table"
  PROVE  LET u == Entry(t, IndexOf(p, L[t])).address IN
         /\ u \in Numbers /\ L[u] = L[t] + 1 /\ L[t] \in 0 .. 2
         /\ On(L, K, u, p)
  <1> DEFINE i == IndexOf(p, L[t])
             u == Entry(t, i).address
  <1>1. L[t] \in Levels
    BY DEF Tree
  <1>2. i \in Slots
    BY <1>1, Quotients
  <1>3. u \in Numbers /\ L[u] = L[t] + 1 /\ K[u] = Number(K, t, i) /\ L[u] \in Levels
    BY <1>2 DEF Tree
  <1>4. L[t] \in 0 .. 2
    BY <1>1, <1>3 DEF Levels
  <1>5. Quot(p, L[t]) = K[u]
    BY <1>2, <1>3, OnTable
  <1>6. Above(p, L[u]) = K[u]
    BY <1>3, <1>4, <1>5, AboveNext
  <1> QED BY <1>3, <1>4, <1>6 DEF On

\* From a table up.
LEMMA Up ==
  ASSUME TableInv, NEW L, NEW K, Tree(L, K), NEW p \in Nat, NEW t \in Numbers, t # 1,
         On(L, K, t, p)
  PROVE  \E u \in Numbers :
           /\ On(L, K, u, p) /\ L[t] = L[u] + 1
           /\ Walked(L[u], u, p) = Walked(L[t], t, p)
  <1>1. PICK u \in Numbers, i \in Slots : Entry(u, i).type = "table" /\ Entry(u, i).address = t
    BY Parents
  <1>2. L[t] = L[u] + 1 /\ K[t] = Number(K, u, i) /\ L[u] \in Levels /\ L[t] \in Levels
    BY <1>1 DEF Tree
  <1>3. L[u] \in 0 .. 2
    BY <1>2 DEF Levels
  <1>4. Quot(p, L[u]) = Number(K, u, i)
    BY <1>2, <1>3, AboveNext DEF On
  <1>5. On(L, K, u, p) /\ IndexOf(p, L[u]) = i
    BY <1>4, OnTable
  <1>6. Walked(L[u], u, p) = Walked(L[t], t, p)
    BY <1>1, <1>2, <1>3, <1>5, Turn
  <1> QED BY <1>2, <1>5, <1>6

\* The walk of a page goes through each table whose block contains it.
LEMMA Through ==
  ASSUME TableInv, NEW L, NEW K, Tree(L, K), NEW p \in Nat
  PROVE  \A t \in Numbers : On(L, K, t, p) => Reached(p) = Walked(L[t], t, p)
  <1> DEFINE Good(t) == On(L, K, t, p) => Reached(p) = Walked(L[t], t, p)
  <1>1. L[1] = RootTableLevel /\ RootTableLevel \in {0, 1} /\ 1 \in Numbers
    BY RootAssumption DEF Tree, TableInv, TableTypes, Numbers
  <1>2. Reached(p) = Walked(L[1], 1, p)
    BY <1>1 DEF Reached, Walked
  <1>3. \A t \in Numbers : L[t] \in Levels
    BY DEF Tree
  <1>4. ASSUME NEW t \in Numbers, L[t] = 0 PROVE Good(t)
    <2>1. SUFFICES ASSUME t # 1, On(L, K, t, p) PROVE FALSE
      BY <1>2
    <2> QED BY <1>3, <1>4, <2>1, Up DEF Levels
  <1>5. ASSUME NEW t \in Numbers, L[t] = 1 PROVE Good(t)
    <2>1. SUFFICES ASSUME t # 1, On(L, K, t, p) PROVE Reached(p) = Walked(L[t], t, p)
      BY <1>2
    <2>2. PICK u \in Numbers : /\ On(L, K, u, p) /\ L[t] = L[u] + 1
                               /\ Walked(L[u], u, p) = Walked(L[t], t, p)
      BY <2>1, Up
    <2>3. L[u] = 0
      BY <1>3, <1>5, <2>2 DEF Levels
    <2> QED BY <1>4, <2>2, <2>3
  <1>6. ASSUME NEW t \in Numbers, L[t] = 2 PROVE Good(t)
    <2>1. SUFFICES ASSUME t # 1, On(L, K, t, p) PROVE Reached(p) = Walked(L[t], t, p)
      BY <1>2
    <2>2. PICK u \in Numbers : /\ On(L, K, u, p) /\ L[t] = L[u] + 1
                               /\ Walked(L[u], u, p) = Walked(L[t], t, p)
      BY <2>1, Up
    <2>3. L[u] = 1
      BY <1>3, <1>6, <2>2 DEF Levels
    <2> QED BY <1>5, <2>2, <2>3
  <1>7. ASSUME NEW t \in Numbers, L[t] = 3 PROVE Good(t)
    <2>1. SUFFICES ASSUME t # 1, On(L, K, t, p) PROVE Reached(p) = Walked(L[t], t, p)
      BY <1>2
    <2>2. PICK u \in Numbers : /\ On(L, K, u, p) /\ L[t] = L[u] + 1
                               /\ Walked(L[u], u, p) = Walked(L[t], t, p)
      BY <2>1, Up
    <2>3. L[u] = 2
      BY <1>3, <1>7, <2>2 DEF Levels
    <2> QED BY <1>6, <2>2, <2>3
  <1>8. \A t \in Numbers : L[t] = 0 \/ L[t] = 1 \/ L[t] = 2 \/ L[t] = 3
    BY <1>3 DEF Levels
  <1> QED BY <1>4, <1>5, <1>6, <1>7, <1>8

\* A page ends its walk at an entry.
LEMMA Ends ==
  ASSUME TableInv, NEW L, NEW K, Tree(L, K), NEW p \in Pages
  PROVE  \E t, i : Leaf(L, K, p, t, i)
  <1> DEFINE Good == \E t, i : Leaf(L, K, p, t, i)
             Next1(t) == Entry(t, IndexOf(p, L[t])).address
  <1>1. /\ p \in Nat /\ 1 \in Numbers /\ L[1] \in {0, 1} /\ On(L, K, 1, p)
    <2>1. 1 \in Numbers
      BY DEF TableInv, TableTypes, Numbers
    <2> QED BY <2>1, RootAbove, RootAssumption DEF Tree, On
  <1>2. ASSUME NEW t \in Numbers, On(L, K, t, p)
        PROVE  Good \/ (/\ L[t] \in 0 .. 2 /\ Next1(t) \in Numbers
                        /\ L[Next1(t)] = L[t] + 1 /\ On(L, K, Next1(t), p))
    <2>1. CASE Entry(t, IndexOf(p, L[t])).type = "table"
      BY <1>1, <1>2, <2>1, Down
    <2>2. CASE Entry(t, IndexOf(p, L[t])).type # "table"
      <3>1. L[t] \in Levels
        BY DEF Tree
      <3>2. IndexOf(p, L[t]) \in Slots
        BY <1>1, <3>1, Quotients
      <3>3. Leaf(L, K, p, t, IndexOf(p, L[t]))
        BY <1>1, <1>2, <2>2, <3>2, OnTable DEF Leaf
      <3> QED BY <3>3
    <2> QED BY <2>1, <2>2
  <1> HIDE DEF Good, Next1
  <1>3. \A t \in Numbers : On(L, K, t, p) /\ L[t] = 3 => Good
    BY <1>2
  <1>4. \A t \in Numbers : On(L, K, t, p) /\ L[t] = 2 => Good
    BY <1>2, <1>3
  <1>5. \A t \in Numbers : On(L, K, t, p) /\ L[t] = 1 => Good
    BY <1>2, <1>4
  <1>6. \A t \in Numbers : On(L, K, t, p) /\ L[t] = 0 => Good
    BY <1>2, <1>5
  <1>7. Good
    BY <1>1, <1>5, <1>6
  <1> QED BY <1>7 DEF Good

\* What the MMU sees of a page.
LEMMA EndSeen ==
  ASSUME TableInv, NEW L, NEW K, Tree(L, K), NEW p \in Pages, NEW t, NEW i,
         Leaf(L, K, p, t, i)
  PROVE  Translation(p) = View(p, Entry(t, i))
  <1> DEFINE e == Entry(t, i)
             b == BlockSize(L[t])
             q == Quot(p, L[t])
  <1>1. /\ p \in Nat /\ t \in Numbers /\ i \in Slots /\ L[t] \in Levels
        /\ q = Number(K, t, i) /\ e.type # "table"
    BY RootAbove DEF Leaf, Tree
  <1>2. On(L, K, t, p) /\ IndexOf(p, L[t]) = i
    BY <1>1, OnTable
  <1>3. Reached(p) = [level |-> L[t], entry |-> e]
    BY <1>1, <1>2, Through, Turn
  <1>4. e = Invalid \/ e = Block(b * q, e.bits)
    BY <1>1 DEF Tree
  <1>5. p = b * q + (p % b)
    BY <1>1, Quotients
  <1> HIDE DEF e, b, q
  <1>6. Translation(p) = IF e.type = "invalid" THEN Unmapped
                         ELSE [to |-> e.address + (p % b), bits |-> e.bits]
    BY <1>3 DEF Translation, b
  <1>7. CASE e = Invalid
    BY <1>6, <1>7 DEF View, Invalid, e
  <1>8. CASE e = Block(b * q, e.bits)
    <2>1. e.type = "block" /\ e.address = b * q
      BY <1>8 DEF Block
    <2> QED BY <1>5, <1>6, <2>1 DEF View, e
  <1> QED BY <1>4, <1>7, <1>8

\* The same, as a formula of the state.
Faithful ==
  \A L, K : Tree(L, K) =>
    \A p \in Pages :
      /\ \E t, i : Leaf(L, K, p, t, i)
      /\ \A t, i : Leaf(L, K, p, t, i) => Translation(p) = View(p, Entry(t, i))

LEMMA TablesAreFaithful == TableInv => Faithful
  BY Ends, EndSeen DEF Faithful

(***************************************************************************)
(* AArch64: the invariant of the refinement.                               *)
(***************************************************************************)
\* The walk is at a table whose block contains the start of what is left.
Here(L, K) ==
  pc \in {"walk", "fill"} =>
    L[TranslationTable] = IndexLevel /\ On(L, K, TranslationTable, RegionStart)

\* What is left of a region is pages of the root, and a block begins where it does.
Place ==
  /\ status = "busy" <=> pc # "idle"
  /\ RegionLength > 0 => RegionStart + RegionLength <= Size
  /\ pc \in {"walk", "fill"} => RegionStart % BlockSize(PageLevel) = 0
  /\ pc = "fill" => Slot = IndexOf(RegionStart, PageLevel)
  /\ \A i \in DOMAIN MemoryTable : MemoryTable[i].start + MemoryTable[i].length <= Size

WalkInv == TableInv /\ Place /\ \E L, K : Tree(L, K) /\ Here(L, K)

Mapped == [p \in Pages |-> Translation(p)]
Update64 == [attrs |-> call.attrs, mask |-> call.mask]
Todo == IF status = "busy" THEN RegionStart .. RegionStart + RegionLength - 1 ELSE {}

Quiet == UNCHANGED <<Mapped, Update64, Todo, status>>

LEMMA SameTree ==
  ASSUME UNCHANGED tables
  PROVE  /\ \A L, K : Tree(L, K) => Tree(L, K)'
         /\ Mapped' = Mapped /\ Numbers' = Numbers
  <1>1. Numbers' = Numbers
    BY DEF Numbers
  <1>2. \A t, i : Entry(t, i)' = Entry(t, i)
    BY DEF Entry
  <1>3. \A L, K : Tree(L, K) => Tree(L, K)'
    BY <1>1, <1>2 DEF Tree
  <1>4. \A p : Translation(p)' = Translation(p)
    BY <1>2 DEF Translation, Reached, Reached0, Reached1, Reached2, Reached3
  <1> QED BY <1>1, <1>3, <1>4 DEF Mapped

LEMMA AlignedNext ==
  ASSUME NEW n \in Nat, NEW level \in 0 .. 2, n % BlockSize(level) = 0
  PROVE  n % BlockSize(level + 1) = 0
  <1> DEFINE b == BlockSize(level + 1)
             q == Quot(n, level)
             m == Radix * q
  <1>1. /\ level \in Levels /\ level + 1 \in Levels
    BY DEF Levels
  <1>2. b \in Nat /\ b > 0 /\ BlockSize(level) = b * Radix /\ Radix \in Nat
    BY <1>1, Nested
  <1>3. q \in Nat /\ n = BlockSize(level) * q + (n % BlockSize(level))
    BY <1>1, Quotients
  <1> HIDE DEF b, q
  <1>4. n = b * m /\ m \in Nat
    BY <1>2, <1>3
  <1> HIDE DEF m
  <1> DEFINE a == n \div b
             r == n % b
  <1>5. a \in Nat /\ r \in 0 .. b - 1 /\ n = b * a + r
    BY <1>2, <1>4, Division
  <1> HIDE DEF a, r
  <1>6. b * a + r = b * m + 0 /\ 0 \in 0 .. b - 1
    BY <1>2, <1>4, <1>5
  <1>7. r = 0
    BY <1>2, <1>4, <1>5, <1>6, OneDivision
  <1> QED BY <1>7 DEF r, b

\* The start of what is left is a page while there is something left.
LEMMA StartIsPage ==
  ASSUME TableInv, Place, RegionLength > 0
  PROVE  RegionStart \in Pages
  BY RootAbove DEF TableInv, TableTypes, Place

LEMMA WalkFind ==
  ASSUME WalkInv, TableInv', Find
  PROVE  WalkInv' /\ Quiet
  <1> USE DEF Find
  <1>1. PICK L, K : Tree(L, K)
    BY DEF WalkInv
  <1>2. Tree(L, K)' /\ Mapped' = Mapped /\ Numbers' = Numbers
    BY <1>1, SameTree
  <1>3. RegionStart \in Pages /\ RegionStart \in Nat
    <2>1. RegionLength > 0
      BY DEF WalkInv, TableInv, Lengths
    <2> QED BY <2>1, StartIsPage, RootAbove DEF WalkInv
  <1>4. PageLevel' \in 1 .. 3 /\ Fits(PageLevel')
    <2> DEFINE fitting == {level \in 1 .. 3 : Fits(level)}
    <2>1. 3 \in fitting
      BY BlockSizes, <1>3 DEF Fits, WalkInv, TableInv, TableTypes, Lengths
    <2>2. \E x \in fitting : \A y \in fitting : x =< y
      <3>1. CASE 1 \in fitting
        BY <3>1
      <3>2. CASE 1 \notin fitting /\ 2 \in fitting
        BY <3>2
      <3>3. CASE 1 \notin fitting /\ 2 \notin fitting
        <4>1. \A y \in fitting : y = 3
          BY <3>3
        <4> QED BY <2>1, <4>1
      <3> QED BY <3>1, <3>2, <3>3
    <2>3. Min(fitting) \in fitting
      BY <2>2 DEF Min
    <2> QED BY <2>3
  <1>5. RegionStart % BlockSize(PageLevel') = 0
    <2>1. BlockSize(PageLevel') \in Nat /\ BlockSize(PageLevel') > 0
      BY <1>4, Nested DEF Levels
    <2>2. 0 % BlockSize(PageLevel') = 0
      BY <2>1
    <2> QED BY <1>4, <2>2 DEF Fits
  <1>6. Place'
    BY <1>5 DEF WalkInv, Place, BlockSize, region, setting
  <1>7. Here(L, K)'
    BY <1>1, <1>2, <1>3, RootAbove DEF Here, On, Tree, region, Above, Quot, BlockSize,
      TableInv, TableTypes
  <1>8. Quiet
    BY <1>2 DEF Quiet, Todo, Update64, region
  <1> QED BY <1>2, <1>6, <1>7, <1>8 DEF WalkInv

LEMMA WalkDescend ==
  ASSUME WalkInv, TableInv', Descend
  PROVE  WalkInv' /\ Quiet
  <1> USE DEF Descend
  <1>1. PICK L, K : Tree(L, K) /\ Here(L, K)
    BY DEF WalkInv
  <1>2. Tree(L, K)' /\ Mapped' = Mapped /\ Numbers' = Numbers
    BY <1>1, SameTree
  <1>3. /\ RegionStart \in Nat /\ TranslationTable \in Numbers /\ IndexLevel \in Levels
        /\ L[TranslationTable] = IndexLevel /\ On(L, K, TranslationTable, RegionStart)
        /\ PageLevel \in 1 .. 3
    BY <1>1 DEF Here, WalkInv, TableInv, TableTypes
  <1>4. /\ L[TranslationTable'] = IndexLevel + 1 /\ IndexLevel \in 0 .. 2
        /\ On(L, K, TranslationTable', RegionStart)
    BY <1>1, <1>3, Down DEF BlockEntry
  <1>5. RegionStart % BlockSize(PageLevel') = 0
    <2>1. RegionStart % BlockSize(PageLevel) = 0
      BY DEF WalkInv, Place
    <2> QED BY <1>3, <1>4, <2>1, AlignedNext
  <1>6. Place'
    BY <1>5 DEF WalkInv, Place, BlockSize, region, setting
  <1>7. Here(L, K)'
    BY <1>2, <1>4 DEF Here, On, region, Above, Quot, BlockSize
  <1>8. Quiet
    BY <1>2 DEF Quiet, Todo, Update64, region
  <1> QED BY <1>2, <1>6, <1>7, <1>8 DEF WalkInv

LEMMA WalkFound ==
  ASSUME WalkInv, TableInv', Found
  PROVE  WalkInv' /\ Quiet
  <1> USE DEF Found
  <1>1. PICK L, K : Tree(L, K) /\ Here(L, K)
    BY DEF WalkInv
  <1>2. Tree(L, K)' /\ Mapped' = Mapped /\ Numbers' = Numbers
    BY <1>1, SameTree
  <1>3. Place'
    BY DEF WalkInv, Place, BlockSize, IndexOf, region, setting, walk
  <1>4. Here(L, K)'
    BY <1>1, <1>2 DEF Here, On, region, walk, Above, Quot, BlockSize
  <1>5. Quiet
    BY <1>2 DEF Quiet, Todo, Update64, region
  <1> QED BY <1>2, <1>3, <1>4, <1>5 DEF WalkInv

LEMMA WalkEnds ==
  ASSUME WalkInv, TableInv', AllocateFails \/ ArmEnableMmu \/ UNCHANGED vars
  PROVE  WalkInv' /\ Quiet
  <1>1. PICK L, K : Tree(L, K) /\ Here(L, K)
    BY DEF WalkInv
  <1>2. /\ UNCHANGED <<tables, call, RegionStart, RegionLength, TranslationTable, IndexLevel,
                       PageLevel, Slot, status, MemoryTable>>
        /\ pc' = pc \/ (pc' = "return" /\ pc = "walk")
    BY DEF AllocateFails, ArmEnableMmu, vars, walk, region, setting
  <1>3. Tree(L, K)' /\ Mapped' = Mapped /\ Numbers' = Numbers
    BY <1>1, <1>2, SameTree
  <1>4. Place'
    BY <1>2 DEF WalkInv, Place, BlockSize, IndexOf
  <1>5. Here(L, K)'
    BY <1>1, <1>2, <1>3 DEF Here, On, Above, Quot, BlockSize
  <1>6. Quiet
    BY <1>2, <1>3 DEF Quiet, Todo, Update64
  <1> QED BY <1>3, <1>4, <1>5, <1>6 DEF WalkInv

LEMMA WalkReturn ==
  ASSUME WalkInv, TableInv', Return
  PROVE  WalkInv' /\ (Map!Succeed \/ Map!Fail)
  <1> USE DEF Return
  <1>1. PICK L, K : Tree(L, K)
    BY DEF WalkInv
  <1>2. Tree(L, K)' /\ Mapped' = Mapped
    BY <1>1, SameTree
  <1>3. Place' /\ Here(L, K)'
    BY DEF WalkInv, Place, Here, setting, region
  <1>4. status = "busy" /\ RegionStart \in Nat /\ RegionLength \in Nat
    BY DEF WalkInv, Place, TableInv, TableTypes
  <1>5. CASE RegionLength = 0
    <2>1. Todo = {} /\ Todo' = {}
      BY <1>4, <1>5 DEF Todo
    <2>2. Map!Succeed
      BY <1>2, <1>4, <1>5, <2>1 DEF Map!Succeed, Mapped, Todo
    <2> QED BY <1>2, <1>3, <2>2 DEF WalkInv
  <1>6. CASE RegionLength # 0
    <2>1. Map!Fail
      BY <1>2, <1>4, <1>6 DEF Map!Fail, Mapped
    <2> QED BY <1>2, <1>3, <2>1 DEF WalkInv
  <1> QED BY <1>5, <1>6

\* A call begins.
LEMMA WalkStart ==
  ASSUME WalkInv, TableInv', NEW c \in Call, Start(c), c.start + c.length <= Size,
         pc = "idle", UNCHANGED tables,
         MemoryTable' = MemoryTable \/ (MemoryTable # << >> /\ MemoryTable' = Tail(MemoryTable))
  PROVE  WalkInv' /\ Map!Call
  <1> USE DEF Start
  <1>1. PICK L, K : Tree(L, K)
    BY DEF WalkInv
  <1>2. Tree(L, K)' /\ Mapped' = Mapped
    BY <1>1, SameTree
  <1>3. /\ c.start \in Nat /\ c.length \in Nat
        /\ c.attrs \in SUBSET Bit /\ c.mask \in SUBSET Bit
    BY DEF Call
  <1>4. \A i \in DOMAIN MemoryTable' : MemoryTable'[i].start + MemoryTable'[i].length <= Size
    <2>1. MemoryTable \in Seq(Call)
      BY DEF WalkInv, TableInv, TableTypes
    <2>2. CASE MemoryTable' = Tail(MemoryTable) /\ MemoryTable # << >>
      <3>1. \A i \in DOMAIN MemoryTable' :
              i + 1 \in DOMAIN MemoryTable /\ MemoryTable'[i] = MemoryTable[i + 1]
        BY <2>1, <2>2
      <3> QED BY <3>1 DEF WalkInv, Place
    <2> QED BY <2>2 DEF WalkInv, Place
  <1>5. Place' /\ Here(L, K)'
    BY <1>3, <1>4 DEF WalkInv, Place, Here
  <1>6. Todo' \subseteq Pages /\ status # "busy"
    <2>1. Todo' = c.start .. c.start + c.length - 1
      BY DEF Todo
    <2> QED BY <1>3, <2>1, RootAbove DEF WalkInv, Place
  <1>7. Update64' = [attrs |-> c.attrs, mask |-> c.mask]
    BY DEF Update64
  <1>8. Map!Call
    BY <1>2, <1>3, <1>6, <1>7 DEF Map!Call, Map!Update, Mapped, Todo, Update64
  <1> QED BY <1>2, <1>5, <1>8 DEF WalkInv

LEMMA SeenBefore ==
  ASSUME TableInv, NEW L, NEW K, Tree(L, K), NEW p \in Pages, NEW t, NEW i,
         Leaf(L, K, p, t, i)
  PROVE  Mapped[p] = View(p, Entry(t, i))
  BY EndSeen DEF Mapped

LEMMA SeenAfter ==
  ASSUME TableInv', NEW L, NEW K, Tree(L, K)', NEW p \in Pages, NEW t, NEW i,
         Leaf(L, K, p, t, i)'
  PROVE  Mapped'[p] = View(p, Entry(t, i)')
  <1>1. Faithful'
    BY TablesAreFaithful, PTL
  <1>2. (\A q \in Pages : \A u, j : Leaf(L, K, q, u, j) => Translation(q) = View(q, Entry(u, j)))'
    BY <1>1 DEF Faithful
  <1>3. \A q \in Pages : \A u, j : Leaf(L, K, q, u, j)' => Translation(q)' = View(q, Entry(u, j))'
    BY <1>2 DEF Pages, BlockSize
  <1>4. Translation(p)' = View(p, Entry(t, i))'
    BY <1>3
  <1>5. Translation(p)' = View(p, Entry(t, i)')
    BY <1>4 DEF View
  <1> QED BY <1>5 DEF Mapped, Pages, BlockSize

LEMMA ViewBits ==
  ASSUME TableInv, NEW L, NEW K, Tree(L, K), NEW p \in Pages, NEW t \in Numbers,
         NEW i \in Slots, Entry(t, i).type # "table"
  PROVE  Map!BitsOf(View(p, Entry(t, i))) = Entry(t, i).bits
  <1> DEFINE e == Entry(t, i)
  <1>1. e.bits \in SUBSET Bit
    BY EntryType DEF TableInv, TableTypes, Entries
  <1>2. e = Invalid \/ e = Block(BlockSize(L[t]) * Number(K, t, i), e.bits)
    BY DEF Tree
  <1>3. CASE e = Invalid
    BY <1>3 DEF Map!BitsOf, View, Invalid
  <1>4. CASE e # Invalid
    <2>1. e.type = "block"
      BY <1>2, <1>4 DEF Block
    <2>2. View(p, e) = [to |-> p, bits |-> e.bits] /\ p \in Int
      BY <2>1, RootAbove DEF View
    <2>3. View(p, e) # Unmapped
      BY <1>1, <2>2, UnmappedAssumption
    <2> QED BY <2>2, <2>3 DEF Map!BitsOf
  <1> QED BY <1>3, <1>4

LEMMA Small ==
  ASSUME NEW x \in Nat, NEW n \in 0 .. x - 1
  PROVE  n % x = n
  <1> DEFINE q == n \div x
             r == n % x
  <1>1. x > 0 /\ n \in Nat
    OBVIOUS
  <1>2. q \in Nat /\ r \in 0 .. x - 1 /\ n = x * q + r
    BY <1>1, Division
  <1> HIDE DEF q, r
  <1>3. x * q + r = x * 0 + n
    BY <1>2
  <1>4. r = n
    BY <1>1, <1>2, <1>3, OneDivision
  <1> QED BY <1>4 DEF r

LEMMA WalkFill ==
  ASSUME WalkInv, TableInv', Fill
  PROVE  WalkInv' /\ Map!Change
  <1> USE DEF Fill
  <1> DEFINE b == BlockSize(PageLevel)
             q == Quot(RegionStart, PageLevel)
             T == TranslationTable
  <1>1. PICK L, K : Tree(L, K) /\ Here(L, K)
    BY DEF WalkInv
  <1>2. /\ RegionStart \in Nat /\ RegionLength \in Nat /\ PageLevel \in Levels
        /\ RegionLength >= b /\ T \in Numbers /\ Slot \in Slots /\ Slot \in Int
        /\ Entry(T, Slot).type # "table" /\ L[T] = PageLevel /\ On(L, K, T, RegionStart)
        /\ RegionStart % b = 0 /\ Slot = IndexOf(RegionStart, PageLevel)
        /\ status = "busy"
    BY <1>1 DEF WalkInv, TableInv, TableTypes, Lengths, Walking, Place, Here, Levels, Slots
  <1>3. b \in Nat /\ b > 0
    BY <1>2, Nested
  <1>4. q = Number(K, T, Slot)
    BY <1>1, <1>2, OnTable
  <1>5. q \in Nat /\ RegionStart = b * q /\ b * q \in Nat
    BY <1>2, <1>3, Quotients
  <1>6. RegionStart + RegionLength <= Size /\ Size \in Nat /\ Size <= AddressLimit
        /\ AddressLimit \in Nat
    BY <1>2, <1>3, RootAbove, RangeAssumption, BoundAssumption DEF WalkInv, Place, Size
  <1>7. RegionLength' = RegionLength - b /\ RegionLength' \in Nat
    BY <1>2, <1>3 DEF Less
  <1>8. RegionLength' > 0 => RegionStart' = RegionStart + b
    <2> HIDE DEF b, q
    <2>1. ASSUME RegionLength' > 0 PROVE RegionStart + b \in 0 .. AddressLimit - 1
      BY <1>2, <1>3, <1>6, <1>7, <2>1
    <2>2. RegionStart' = (RegionStart + b) % AddressLimit
      BY DEF b
    <2> QED BY <1>6, <2>1, <2>2, Small
  <1>9. /\ Numbers' = Numbers
        /\ \A u \in Numbers, i \in Slots :
             Entry(u, i)' = IF u = T /\ i = Slot THEN Written ELSE Entry(u, i)
    BY FillWrites DEF WalkInv
  <1>10. Written = Block(BlockSize(L[T]) * Number(K, T, Slot), Written.bits)
         /\ Written.type = "block"
    BY <1>2, <1>4, <1>5 DEF Written, Block
  <1>11. Tree(L, K)'
    <2>1. L \in [Numbers' -> Levels] /\ K \in [Numbers' -> Nat]
      BY <1>1, <1>9 DEF Tree
    <2>2. ASSUME NEW u \in Numbers', NEW i \in Slots
          PROVE  IF Entry(u, i)'.type = "table"
                 THEN /\ Entry(u, i)'.address \in Numbers'
                      /\ L[Entry(u, i)'.address] = L[u] + 1
                      /\ K[Entry(u, i)'.address] = Number(K, u, i)
                 ELSE \/ Entry(u, i)' = Invalid
                      \/ Entry(u, i)' = Block(BlockSize(L[u]) * Number(K, u, i),
                                              Entry(u, i)'.bits)
      <3>1. CASE u = T /\ i = Slot
        BY <1>9, <1>10, <2>2, <3>1
      <3>2. CASE ~(u = T /\ i = Slot)
        <4>1. Entry(u, i)' = Entry(u, i) /\ u \in Numbers
          BY <1>9, <2>2, <3>2
        <4> QED BY <1>1, <1>9, <4>1 DEF Tree
      <3> QED BY <3>1, <3>2
    <2>3. L[1] = RootTableLevel /\ K[1] = 0
      BY <1>1 DEF Tree
    <2> QED BY <2>1, <2>2, <2>3 DEF Tree, BlockSize, Slots
  <1>12. ASSUME pc' = "fill"
         PROVE  /\ RegionStart' % b = 0 /\ On(L, K, T, RegionStart')
                /\ Slot' = IndexOf(RegionStart', PageLevel)
    <2>1. RegionLength' > 0 /\ Slot' = Slot + 1 /\ Slot' \in Slots
      <3>1. Slot' \in Slots
        BY DEF TableInv, TableTypes, Slots
      <3> QED BY <1>2, <1>3, <1>7, <1>12, <3>1
    <2>2. RegionStart' = RegionStart + b /\ RegionStart' \in Nat
      BY <1>2, <1>3, <1>8, <2>1
    <2>3. RegionStart' = b * (q + 1) /\ q + 1 \in Nat
      BY <1>3, <1>5, <2>2
    <2>4. Quot(RegionStart', PageLevel) = q + 1
      BY <1>2, <1>3, <2>2, <2>3, InBlock
    <2>5. Number(K, T, Slot + 1) = q + 1
      <3>1. K[T] \in Nat /\ Radix \in Nat
        BY <1>1, <1>2, Nested DEF Tree
      <3> DEFINE m == Radix * K[T]
      <3>2. m \in Nat /\ q = m + Slot /\ Number(K, T, Slot + 1) = m + (Slot + 1)
        BY <1>4, <3>1 DEF Number
      <3> HIDE DEF m
      <3> QED BY <1>2, <3>2
    <2>6. On(L, K, T, RegionStart') /\ IndexOf(RegionStart', PageLevel) = Slot + 1
      BY <1>1, <1>2, <2>1, <2>2, <2>4, <2>5, OnTable
    <2>7. /\ RegionStart' = b * (q + 1) + (RegionStart' % b)
          /\ RegionStart' % b \in 0 .. b - 1
      BY <1>2, <2>2, <2>4, Quotients
    <2>8. RegionStart' % b = 0
      <3> DEFINE m == b * (q + 1)
                 r == RegionStart' % b
      <3>1. m \in Nat /\ RegionStart' = m /\ RegionStart' = m + r /\ r \in 0 .. b - 1
        BY <2>2, <2>3, <2>7
      <3> HIDE DEF m, r
      <3>2. r = 0
        BY <1>3, <3>1
      <3> QED BY <3>2 DEF r
    <2> QED BY <2>1, <2>6, <2>8
  <1>13. Place'
    <2>1. status' = "busy" /\ pc' \in {"fill", "return", "find"}
      BY <1>2
    <2>2. RegionLength' > 0 => RegionStart' + RegionLength' <= Size
      BY <1>2, <1>3, <1>6, <1>7, <1>8
    <2>3. Size' = Size /\ BlockSize(PageLevel)' = b
      BY DEF Size, BlockSize, walk
    <2>4. IndexOf(RegionStart, PageLevel)' = IndexOf(RegionStart', PageLevel)
      BY DEF IndexOf, BlockSize, walk
    <2> QED BY <1>12, <2>1, <2>2, <2>3, <2>4 DEF WalkInv, Place, setting
  <1>14. Here(L, K)'
    <2>1. ASSUME pc' = "fill" PROVE L[T'] = IndexLevel' /\ On(L, K, T, RegionStart)'
      BY <1>1, <1>9, <1>12, <2>1 DEF Here, On, Above, Quot, BlockSize, walk
    <2> QED BY <2>1 DEF Here
  <1>15. /\ Todo' \subseteq Todo /\ status' = status
         /\ \A p \in Pages : p \in Todo \ Todo' <=> Quot(p, PageLevel) = q
    <2>1. Todo = RegionStart .. RegionStart + RegionLength - 1
          /\ Todo' = RegionStart' .. RegionStart' + RegionLength' - 1
      BY <1>2 DEF Todo
    <2>2. RegionStart' \in Nat
      BY DEF TableInv, TableTypes
    <2>3. /\ Todo' \subseteq Todo
          /\ \A p \in Nat : p \in Todo \ Todo' <=> RegionStart <= p /\ p < RegionStart + b
      <3> HIDE DEF b, q
      <3>1. CASE RegionLength' = 0
        BY <1>2, <1>3, <1>7, <2>1, <2>2, <3>1
      <3>2. CASE RegionLength' > 0
        BY <1>2, <1>3, <1>7, <1>8, <2>1, <2>2, <3>2
      <3> QED BY <1>7, <3>1, <3>2
    <2>4. ASSUME NEW p \in Pages
          PROVE  Quot(p, PageLevel) = q <=> RegionStart <= p /\ p < RegionStart + b
      BY <1>2, <1>5, InBlock, RootAbove
    <2> QED BY <2>3, <2>4, RootAbove
  <1>16. ASSUME NEW p \in Pages
         PROVE  Mapped'[p] = IF p \in Todo \ Todo' THEN Map!Updated(p) ELSE Mapped[p]
    <2>1. CASE Quot(p, PageLevel) = q
      <3>1. PICK t \in Numbers, i \in Slots : t = T /\ i = Slot
        BY <1>2
      <3>2. Leaf(L, K, p, t, i)
        BY <1>2, <1>4, <2>1, <3>1 DEF Leaf
      <3>3. Entry(t, i)' = Written
        BY <1>9, <3>1
      <3>4. Leaf(L, K, p, t, i)'
        BY <1>9, <1>10, <3>2, <3>3 DEF Leaf, Quot, BlockSize, Slots, Number
      <3>5. Mapped[p] = View(p, Entry(t, i)) /\ Mapped'[p] = View(p, Written)
        <4>1. TableInv
          BY DEF WalkInv
        <4> QED BY <1>1, <1>11, <3>2, <3>3, <3>4, <4>1, SeenBefore, SeenAfter
      <3>6. Map!BitsOf(Mapped[p]) = Entry(T, Slot).bits
        BY <1>1, <1>2, <3>1, <3>5, ViewBits DEF WalkInv
      <3>7. Mapped'[p] = [to |-> p, bits |-> (Entry(T, Slot).bits \cap call.mask) \cup call.attrs]
        BY <3>5 DEF View, Written, Block
      <3>8. Map!Updated(p) = [to |-> p, bits |-> (Map!BitsOf(Mapped[p]) \cap call.mask) \cup call.attrs]
        BY DEF Map!Updated, Mapped
      <3> QED BY <1>15, <2>1, <3>6, <3>7, <3>8
    <2>2. CASE Quot(p, PageLevel) # q
      <3>1. PICK t, i : Leaf(L, K, p, t, i)
        BY <1>1, Ends DEF WalkInv
      <3>2. Entry(t, i)' = Entry(t, i)
        BY <1>2, <1>4, <1>9, <2>2, <3>1 DEF Leaf
      <3>3. Leaf(L, K, p, t, i)'
        BY <1>9, <3>1, <3>2 DEF Leaf, Quot, BlockSize, Slots, Number
      <3>4. Mapped[p] = View(p, Entry(t, i)) /\ Mapped'[p] = View(p, Entry(t, i)')
        <4>1. TableInv
          BY DEF WalkInv
        <4> QED BY <1>1, <1>11, <3>1, <3>3, <4>1, SeenBefore, SeenAfter
      <3> QED BY <1>15, <2>2, <3>2, <3>4
    <2> QED BY <2>1, <2>2
  <1>17. Map!Change
    <2>1. Mapped' = [p \in Pages |-> IF p \in Todo \ Todo' THEN Map!Updated(p) ELSE Mapped[p]]
      BY <1>16 DEF Mapped, Pages, BlockSize
    <2>2. call' = call
      OBVIOUS
    <2> QED BY <1>2, <1>15, <2>1, <2>2 DEF Map!Change, Mapped, Todo
  <1> QED BY <1>11, <1>13, <1>14, <1>17 DEF WalkInv

LEMMA WalkAllocate ==
  ASSUME WalkInv, TableInv', Allocate
  PROVE  WalkInv' /\ Quiet
  <1> DEFINE new == Len(tables) + 1
             s == IndexOf(RegionStart, IndexLevel)
             next == BlockSize(IndexLevel + 1)
             q == Quot(RegionStart, IndexLevel)
  <1>1. PICK L, K : Tree(L, K) /\ Here(L, K)
    BY DEF WalkInv
  <1>2. PICK T \in Numbers : T = TranslationTable
    BY DEF WalkInv, TableInv, TableTypes
  <1>3. /\ RegionStart \in Nat /\ IndexLevel \in Levels /\ pc = "walk" /\ pc' = "walk"
        /\ L[T] = IndexLevel /\ On(L, K, T, RegionStart)
        /\ BlockEntry = Entry(T, s) /\ Entry(T, s).type # "table" /\ IndexLevel' = IndexLevel + 1
        /\ UNCHANGED <<RegionStart, RegionLength, PageLevel, Slot, status, call, MemoryTable>>
    BY <1>1, <1>2 DEF Allocate, Here, WalkInv, TableInv, TableTypes, BlockEntry, region, setting
  <1>4. IndexLevel \in 0 .. 2 /\ IndexLevel + 1 \in Levels
    <2>1. IndexLevel + 1 \in Levels
      BY NewTableType DEF Allocate, WalkInv
    <2> QED BY <1>3, <2>1 DEF Levels
  <1>5. /\ TranslationTable' = new /\ Numbers' = Numbers \cup {new} /\ new \notin Numbers
        /\ s \in Slots
        /\ \A u \in Numbers', i \in Slots :
             Entry(u, i)' = IF u = new THEN NewTable[i]
                            ELSE IF u = T /\ i = s THEN Table(new) ELSE Entry(u, i)
    BY <1>2, AllocateWrites DEF WalkInv
  <1>6. q = Number(K, T, s) /\ q \in Nat
    <2>1. Quot(RegionStart, L[T]) = Number(K, T, s)
      BY <1>1, <1>3, <1>5, OnTable
    <2>2. q \in Nat
      BY <1>3, Quotients
    <2> QED BY <1>3, <2>1, <2>2
  <1>7. PICK n, j : n = new /\ j = s
    OBVIOUS
  <1> DEFINE M == [u \in Numbers' |-> IF u = n THEN IndexLevel + 1 ELSE L[u]]
             J == [u \in Numbers' |-> IF u = n THEN q ELSE K[u]]
  <1>8. /\ M \in [Numbers' -> Levels] /\ J \in [Numbers' -> Nat]
        /\ M[1] = RootTableLevel /\ J[1] = 0
        /\ M[n] = IndexLevel + 1 /\ J[n] = q
        /\ \A u \in Numbers : u # n /\ u \in Numbers' /\ M[u] = L[u] /\ J[u] = K[u]
    <2>1. 1 \in Numbers
      BY DEF WalkInv, TableInv, TableTypes, Numbers
    <2> QED BY <1>1, <1>4, <1>5, <1>6, <1>7, <2>1 DEF Tree
  <1>9. PICK G, H : G = M /\ H = J
    OBVIOUS
  <1> HIDE DEF M, J, new, s, q, next
  <1>10. \A u \in Numbers : \A i : Number(H, u, i) = Number(K, u, i)
    BY <1>8, <1>9 DEF Number
  <1>11. \A i \in Slots : NewTable[i] = IF Entry(T, s).type = "block"
                                       THEN Block(next * Number(H, n, i), Entry(T, s).bits)
                                       ELSE Invalid
    <2>1. ASSUME NEW i \in Slots PROVE SplitEntry(i) = Block(next * Number(H, n, i), Entry(T, s).bits)
      <3> DEFINE b == BlockSize(IndexLevel)
                 m == b * q
                 r == RegionStart % b
      <3>1. m \in Nat /\ RegionStart = m + r /\ r \in Nat
        <4>1. b \in Nat /\ b > 0
          BY <1>3, Nested
        <4> QED BY <1>3, <4>1, Quotients DEF q
      <3>2. BlockStart(RegionStart, IndexLevel) = RegionStart - r
        BY DEF BlockStart
      <3>3. b = next * Radix /\ next \in Nat /\ Radix \in Nat /\ i \in Nat
        BY <1>4, Nested DEF next, Slots
      <3> HIDE DEF r
      <3>4. BlockStart(RegionStart, IndexLevel) = m
        <4> HIDE DEF m
        <4> QED BY <3>1, <3>2
      <3>5. m + i * next = next * Number(H, n, i)
        <4>1. Number(H, n, i) = Radix * q + i
          BY <1>8, <1>9 DEF Number
        <4> HIDE DEF b
        <4> QED BY <1>6, <3>3, <4>1
      <3>6. SplitEntry(i) = Block(BlockStart(RegionStart, IndexLevel) + i * next, BlockEntry.bits)
        BY DEF SplitEntry, next
      <3> HIDE DEF m
      <3> QED BY <1>3, <3>4, <3>5, <3>6
    <2>2. \A i \in Slots : NewTable[i] = IF BlockEntry.type = "block" THEN SplitEntry(i) ELSE Invalid
      BY DEF NewTable, Slots
    <2> QED BY <1>3, <2>1, <2>2
  <1>12. ASSUME NEW i \in Slots
         PROVE  /\ NewTable[i].type = IF Entry(T, s).type = "block" THEN "block" ELSE "invalid"
                /\ Entry(T, s).type = "block" => NewTable[i].bits = Entry(T, s).bits
                /\ \/ NewTable[i] = Invalid
                   \/ NewTable[i] = Block(next * Number(H, n, i), NewTable[i].bits)
    <2> DEFINE a == next * Number(H, n, i)
    <2>1. NewTable[i] = IF Entry(T, s).type = "block" THEN Block(a, Entry(T, s).bits) ELSE Invalid
      BY <1>11
    <2> HIDE DEF a
    <2>2. CASE Entry(T, s).type = "block"
      <3>1. NewTable[i] = Block(a, Entry(T, s).bits)
        BY <2>1, <2>2
      <3>2. NewTable[i].type = "block" /\ NewTable[i].bits = Entry(T, s).bits
        BY <3>1 DEF Block
      <3> QED BY <2>2, <3>1, <3>2 DEF a
    <2>3. CASE Entry(T, s).type # "block"
      BY <2>1, <2>3 DEF Invalid
    <2> QED BY <2>2, <2>3
  <1>13. ASSUME NEW u \in Numbers', NEW i \in Slots
         PROVE  IF Entry(u, i)'.type = "table"
                THEN /\ Entry(u, i)'.address \in Numbers'
                     /\ G[Entry(u, i)'.address] = G[u] + 1
                     /\ H[Entry(u, i)'.address] = Number(H, u, i)
                ELSE \/ Entry(u, i)' = Invalid
                     \/ Entry(u, i)' = Block(BlockSize(G[u]) * Number(H, u, i), Entry(u, i)'.bits)
    <2>1. CASE u = n
      <3>1. Entry(u, i)' = NewTable[i] /\ BlockSize(G[u]) = next
        BY <1>5, <1>7, <1>8, <1>9, <2>1 DEF next
      <3> QED BY <1>12, <2>1, <3>1
    <2>2. CASE u = T /\ i = s
      <3>1. Entry(u, i)' = Table(n)
        BY <1>5, <1>7, <1>8, <2>2
      <3>2. n \in Numbers' /\ G[n] = G[u] + 1 /\ H[n] = Number(H, u, i)
        BY <1>3, <1>5, <1>6, <1>7, <1>8, <1>9, <1>10, <2>2
      <3> QED BY <3>1, <3>2 DEF Table
    <2>3. CASE u # n /\ ~(u = T /\ i = s)
      <3>1. Entry(u, i)' = Entry(u, i) /\ u \in Numbers
        BY <1>5, <1>7, <2>3
      <3>2. G[u] = L[u] /\ Number(H, u, i) = Number(K, u, i)
        BY <1>8, <1>9, <1>10, <3>1
      <3>3. CASE Entry(u, i).type = "table"
        <4>1. /\ Entry(u, i).address \in Numbers /\ L[Entry(u, i).address] = L[u] + 1
              /\ K[Entry(u, i).address] = Number(K, u, i)
          BY <1>1, <3>1, <3>3 DEF Tree
        <4> QED BY <1>8, <1>9, <3>1, <3>2, <3>3, <4>1
      <3>4. CASE Entry(u, i).type # "table"
        <4>1. \/ Entry(u, i) = Invalid
              \/ Entry(u, i) = Block(BlockSize(L[u]) * Number(K, u, i), Entry(u, i).bits)
          BY <1>1, <3>1, <3>4 DEF Tree
        <4> QED BY <3>1, <3>2, <3>4, <4>1
      <3> QED BY <3>3, <3>4
    <2> QED BY <2>1, <2>2, <2>3
  <1>14. Tree(G, H)'
    <2>1. G \in [Numbers' -> Levels] /\ H \in [Numbers' -> Nat]
          /\ G[1] = RootTableLevel /\ H[1] = 0
      BY <1>8, <1>9
    <2> QED BY <1>13, <2>1 DEF Tree, BlockSize, Slots
  <1>15. Here(G, H)'
    <2>1. Above(RegionStart, IndexLevel + 1) = q
      BY <1>3, <1>4, AboveNext DEF q
    <2>2. On(G, H, n, RegionStart)' /\ G[n] = IndexLevel'
      BY <1>3, <1>5, <1>7, <1>8, <1>9, <2>1 DEF On, Above, Quot, BlockSize
    <2> QED BY <1>5, <1>7, <2>2 DEF Here
  <1>16. Place'
    <2>1. Size' = Size /\ BlockSize(PageLevel)' = BlockSize(PageLevel)
      BY <1>3 DEF Size, BlockSize
    <2> QED BY <1>3, <2>1 DEF WalkInv, Place
  <1>17. ASSUME NEW p \in Pages PROVE Mapped'[p] = Mapped[p]
    <2>1. TableInv
      BY DEF WalkInv
    <2>2. PICK t, i : Leaf(L, K, p, t, i)
      BY <1>1, <2>1, Ends
    <2>3. Mapped[p] = View(p, Entry(t, i))
      BY <1>1, <2>1, <2>2, SeenBefore
    <2>4. CASE t = T /\ i = s
      <3> DEFINE x == IndexOf(p, IndexLevel + 1)
      <3>1. p \in Nat /\ Quot(p, IndexLevel) = q
        BY <1>3, <1>6, <2>2, <2>4, RootAbove DEF Leaf
      <3>2. x \in Slots /\ Quot(p, IndexLevel + 1) = Number(H, n, x)
        <4>1. /\ x \in Slots
              /\ Quot(p, IndexLevel + 1) = Radix * Above(p, IndexLevel + 1) + x
          BY <1>4, <3>1, Quotients
        <4>2. Above(p, IndexLevel + 1) = q
          BY <1>4, <3>1, AboveNext
        <4> QED BY <1>8, <1>9, <4>1, <4>2 DEF Number
      <3>3. PICK k \in Slots : k = x
        BY <3>2
      <3>4. Entry(n, k)' = NewTable[k] /\ n \in Numbers'
        BY <1>5, <1>7
      <3>5. Leaf(G, H, p, n, k)'
        <4>1. NewTable[k].type # "table"
          BY <1>12
        <4>2. Quot(p, G[n]) = Number(H, n, k)
          BY <1>8, <1>9, <3>2, <3>3
        <4> QED BY <3>4, <4>1, <4>2 DEF Leaf, Quot, BlockSize, Slots, Number
      <3>6. Mapped'[p] = View(p, NewTable[k])
        BY <1>14, <3>4, <3>5, SeenAfter
      <3>7. View(p, NewTable[k]) = View(p, Entry(T, s))
        <4>1. Entry(T, s) \in Entries
          BY <1>5, <2>1, EntryType DEF TableInv, TableTypes
        <4>2. Entry(T, s).type \in {"block", "invalid"}
          BY <1>3, <4>1 DEF Entries
        <4> QED BY <1>12, <4>2 DEF View
      <3> QED BY <2>3, <2>4, <3>6, <3>7
    <2>5. CASE ~(t = T /\ i = s)
      <3>1. Entry(t, i)' = Entry(t, i) /\ t \in Numbers
        BY <1>5, <2>2, <2>5 DEF Leaf
      <3>2. Leaf(G, H, p, t, i)'
        <4>1. t \in Numbers' /\ Quot(p, G[t]) = Number(H, t, i)
          BY <1>8, <1>9, <1>10, <2>2, <3>1 DEF Leaf
        <4> QED BY <2>2, <3>1, <4>1 DEF Leaf, Quot, BlockSize, Slots, Number
      <3> QED BY <1>14, <2>3, <3>1, <3>2, SeenAfter
    <2> QED BY <2>4, <2>5
  <1>18. Quiet
    <2>1. Mapped' = Mapped
      BY <1>17 DEF Mapped, Pages, BlockSize
    <2> QED BY <1>3, <2>1 DEF Quiet, Todo, Update64
  <1> QED BY <1>14, <1>15, <1>16, <1>18 DEF WalkInv

LEMMA WalkInit == Init => WalkInv /\ Map!Init
  <1> SUFFICES ASSUME Init PROVE WalkInv /\ Map!Init
    OBVIOUS
  <1> DEFINE root == [i \in Slots |-> Invalid]
             L == [n \in Numbers |-> RootTableLevel]
             K == [n \in Numbers |-> 0]
  <1>1. tables = <<root>> /\ Numbers = {1}
    BY DEF Init, Numbers, Slots
  <1>2. \A u \in Numbers, i \in Slots : Entry(u, i) = Invalid
    <2>1. tables[1] = root /\ \A i \in Slots : root[i] = Invalid
      BY <1>1
    <2> HIDE DEF root
    <2> QED BY <1>1, <2>1 DEF Entry
  <1>3. Tree(L, K)
    <2>1. RootTableLevel \in Levels
      BY RootAssumption DEF Levels
    <2>2. L \in [Numbers -> Levels] /\ K \in [Numbers -> Nat] /\ L[1] = RootTableLevel /\ K[1] = 0
      BY <1>1, <2>1
    <2> QED BY <1>2, <2>2 DEF Tree, Invalid
  <1>4. WalkInv
    <2>1. TableInv
      BY TableInit
    <2>2. Here(L, K) /\ Place
      BY RangeAssumption DEF Init, Here, Place, Size
    <2>3. \E G, H : Tree(G, H) /\ Here(G, H)
      BY <1>3, <2>2
    <2> QED BY <2>1, <2>2, <2>3 DEF WalkInv
  <1>5. ASSUME NEW p \in Pages PROVE Mapped[p] = Unmapped
    <2>1. PICK t, i : Leaf(L, K, p, t, i)
      BY <1>3, <1>4, Ends DEF WalkInv
    <2>2. Mapped[p] = View(p, Entry(t, i))
      BY <1>3, <1>4, <2>1, SeenBefore DEF WalkInv
    <2> QED BY <1>2, <2>1, <2>2 DEF Leaf, View, Invalid
  <1>6. Mapped = [p \in Pages |-> Unmapped]
    BY <1>5 DEF Mapped
  <1>7. Map!Init
    BY <1>6 DEF Map!Init, Map!Update, Mapped, Init
  <1> QED BY <1>4, <1>7

LEMMA WalkStep == WalkInv /\ [Next]_vars => WalkInv' /\ [Map!Next]_Map!vars
  <1> SUFFICES ASSUME WalkInv, [Next]_vars PROVE WalkInv' /\ [Map!Next]_Map!vars
    OBVIOUS
  <1>1. TableInv'
    BY TableStep DEF WalkInv
  <1>2. Quiet => UNCHANGED Map!vars
    BY DEF Quiet, Map!vars, Mapped, Update64, Todo
  <1>3. CASE Find \/ Descend \/ Found \/ Allocate \/ AllocateFails \/ ArmEnableMmu
             \/ UNCHANGED vars
    <2>1. WalkInv' /\ Quiet
      BY <1>1, <1>3, WalkFind, WalkDescend, WalkFound, WalkAllocate, WalkEnds
    <2> QED BY <1>2, <2>1
  <1>4. CASE Fill
    BY <1>1, <1>4, WalkFill DEF Map!Next
  <1>5. CASE Return
    BY <1>1, <1>5, WalkReturn DEF Map!Next
  <1>6. CASE FillTranslationTable
    <2>1. MemoryTable \in Seq(Call) /\ MemoryTable # << >>
      BY <1>6 DEF FillTranslationTable, WalkInv, TableInv, TableTypes
    <2>2. Head(MemoryTable) \in Call /\ Head(MemoryTable).start + Head(MemoryTable).length <= Size
      <3>1. 1 \in DOMAIN MemoryTable /\ Head(MemoryTable) = MemoryTable[1]
        BY <2>1
      <3> QED BY <2>1, <3>1 DEF WalkInv, Place
    <2>3. WalkInv' /\ Map!Call
      BY <1>1, <1>6, <2>2, WalkStart DEF FillTranslationTable
    <2> QED BY <2>3 DEF Map!Next
  <1>7. ASSUME NEW c \in Calls, SetMemoryRegionAttribute(c)
        PROVE  WalkInv' /\ [Map!Next]_Map!vars
    <2>1. c \in Call /\ c.start + c.length <= Size
      BY CallAssumption, RangeAssumption DEF Size
    <2>2. WalkInv' /\ Map!Call
      BY <1>1, <1>7, <2>1, WalkStart DEF SetMemoryRegionAttribute, setting
    <2> QED BY <2>2 DEF Map!Next
  <1> QED BY <1>3, <1>4, <1>5, <1>6, <1>7 DEF Next, Update, Finished

\* The AArch64 build keeps the promise of MemoryMap: whatever blocks it splits and
\* whatever tables are in the way, every step is a step of MemoryMap or changes
\* nothing that the MMU sees.
THEOREM PromiseIsKept == Spec => ImplementsMemoryMap
  <1>1. Init => WalkInv /\ Map!Init
    BY WalkInit
  <1>2. WalkInv /\ [Next]_vars => WalkInv' /\ [Map!Next]_Map!vars
    BY WalkStep
  <1> QED BY <1>1, <1>2, PTL DEF Spec, ImplementsMemoryMap, Map!Spec

\* Whichever build of ArmMmuLib runs, the promise is kept, and what the other sees
\* does not change.
THEOREM BothBuildsKeepPromise == MCSpec => BothImplementMemoryMap
  <1>1. MCInit => /\ WalkInv /\ Map!Init
                  /\ ArmMapInv /\ ArmMap!Init
    BY WalkInit, ArmMapInit DEF MCInit
  <1>2. WalkInv /\ ArmMapInv /\ [MCNext]_<<build, vars, armVars>> =>
          /\ WalkInv' /\ [Map!Next]_Map!vars
          /\ ArmMapInv' /\ [ArmMap!Next]_ArmMap!vars
    BY WalkStep, ArmMapStep DEF MCNext
  <1> QED BY <1>1, <1>2, PTL DEF MCSpec, BothImplementMemoryMap, ImplementsMemoryMap,
            ArmImplementsMemoryMap, Map!Spec, ArmMap!Spec
(***************************************************************************)
(* What the tables say when the MMU goes on.                               *)
(***************************************************************************)
\* The last of the regions numbered S decides what a page translates to.
Decided(e, S, f, p) ==
  IF S = {} THEN e = Unmapped
  ELSE \E m \in S : (\A i \in S : i <= m) /\ e = [to |-> p, bits |-> f[m].attrs]

LEMMA DecidedByMax ==
  ASSUME NEW S \in SUBSET Nat, NEW e, NEW f, NEW p, Decided(e, S, f, p)
  PROVE  e = IF S = {} THEN Unmapped ELSE [to |-> p, bits |-> f[Max(S)].attrs]
  <1>1. CASE S = {}
    BY <1>1 DEF Decided
  <1>2. CASE S # {}
    <2>1. PICK m \in S : (\A i \in S : i <= m) /\ e = [to |-> p, bits |-> f[m].attrs]
      BY <1>2 DEF Decided
    <2>2. Max(S) = m
      <3>1. \E x \in S : \A y \in S : x >= y
        BY <2>1
      <3>2. Max(S) \in S /\ \A y \in S : Max(S) >= y
        BY <3>1 DEF Max
      <3>3. m \in Nat /\ Max(S) \in Nat /\ Max(S) <= m /\ Max(S) >= m
        BY <2>1, <3>2
      <3> QED BY <3>3
    <2> QED BY <1>2, <2>1, <2>2
  <1> QED BY <1>1, <1>2

(***************************************************************************)
(* AArch64: the regions so far.                                            *)
(***************************************************************************)
Begun == Len(configured) - Len(MemoryTable)

About(p) == {i \in 1 .. Begun : Covers(configured[i], p)}

\* A page that the region in progress has yet to change is as the ones before say.
Settled(p) == About(p) \ (IF p \in Todo THEN {Begun} ELSE {})

AsToldSoFar ==
  /\ configured \in Seq(Call) /\ \A i \in DOMAIN configured : configured[i].mask = {}
  /\ Begun \in Nat
  /\ \A i \in 1 .. Len(MemoryTable) : MemoryTable[i] = configured[Begun + i]
  /\ status = "busy" => /\ Begun >= 1 /\ call = configured[Begun]
                        /\ \A p \in Todo : Covers(configured[Begun], p)
  /\ \A p \in Pages : Decided(Mapped[p], Settled(p), configured, p)

ToldInv == WalkInv /\ (mmu = "configuring" => AsToldSoFar)

LEMMA ToldInit == Init => ToldInv
  <1> SUFFICES ASSUME Init PROVE AsToldSoFar
    BY WalkInit DEF ToldInv
  <1>1. configured \in Seq(Call) /\ \A i \in DOMAIN configured : configured[i].mask = {}
    BY CallAssumption, MapAssumption DEF Init
  <1>2. Begun = 0 /\ MemoryTable = configured /\ status # "busy"
    BY <1>1 DEF Init, Begun
  <1>3. ASSUME NEW p \in Pages PROVE Decided(Mapped[p], Settled(p), configured, p)
    <2>1. Mapped = [q \in Pages |-> Unmapped]
      BY WalkInit DEF Map!Init, Mapped
    <2>2. Settled(p) = {}
      BY <1>2 DEF Settled, About
    <2> QED BY <2>1, <2>2 DEF Decided
  <1> QED BY <1>1, <1>2, <1>3 DEF AsToldSoFar

\* Steps that neither change a page nor take up a region.
LEMMA ToldStays ==
  ASSUME AsToldSoFar, UNCHANGED <<configured, MemoryTable, Mapped>>,
         Todo' = Todo, status' = "busy" => status = "busy" /\ call' = call
  PROVE  AsToldSoFar'
  <1>1. Begun' = Begun
    BY DEF Begun
  <1>2. \A p : Settled(p)' = Settled(p)
    BY <1>1 DEF Settled, About, Covers
  <1>3. \A p \in Pages : Decided(Mapped[p], Settled(p), configured, p)'
    BY <1>2 DEF AsToldSoFar, Decided
  <1> QED BY <1>1, <1>3 DEF AsToldSoFar, Covers, Pages, BlockSize

LEMMA ToldFill ==
  ASSUME WalkInv, AsToldSoFar, Fill, Map!Change
  PROVE  AsToldSoFar'
  <1>1. /\ UNCHANGED <<configured, MemoryTable, status, call>> /\ status = "busy"
        /\ Todo' \subseteq Todo
        /\ Mapped' = [p \in Pages |-> IF p \in Todo \ Todo' THEN Map!Updated(p) ELSE Mapped[p]]
    BY DEF Fill, setting, Map!Change, Todo, Mapped
  <1>2. Begun' = Begun /\ Begun \in Nat /\ Begun >= 1 /\ call = configured[Begun]
        /\ call.mask = {} /\ \A p \in Todo : Covers(configured[Begun], p)
    <2>1. Begun \in DOMAIN configured
      BY <1>1 DEF AsToldSoFar, Begun, WalkInv, TableInv, TableTypes
    <2> QED BY <1>1, <2>1 DEF AsToldSoFar, Begun
  <1>3. \A p : About(p)' = About(p)
    BY <1>1, <1>2 DEF About, Covers
  <1>4. ASSUME NEW p \in Pages PROVE Decided(Mapped'[p], Settled(p)', configured, p)
    <2>1. Decided(Mapped[p], Settled(p), configured, p)
      BY DEF AsToldSoFar
    <2>2. Settled(p)' = About(p) \ (IF p \in Todo' THEN {Begun} ELSE {})
      BY <1>2, <1>3 DEF Settled
    <2>3. CASE p \in Todo \ Todo'
      <3>1. Mapped'[p] = [to |-> p, bits |-> configured[Begun].attrs]
        <4>1. Map!Updated(p) = [to |-> p, bits |-> (Map!BitsOf(Mapped[p]) \cap call.mask) \cup call.attrs]
          BY DEF Map!Updated, Mapped
        <4> QED BY <1>1, <1>2, <2>3, <4>1
      <3>2. Settled(p)' = About(p) /\ Begun \in About(p)
        BY <1>2, <2>2, <2>3 DEF About
      <3>3. \A i \in About(p) : i <= Begun
        BY DEF About
      <3> QED BY <3>1, <3>2, <3>3 DEF Decided
    <2>4. CASE p \notin Todo \ Todo'
      <3>1. Mapped'[p] = Mapped[p] /\ (p \in Todo' <=> p \in Todo)
        BY <1>1, <2>4
      <3> QED BY <2>1, <2>2, <3>1 DEF Settled
    <2> QED BY <2>3, <2>4
  <1>5. \A p \in Pages : Decided(Mapped[p], Settled(p), configured, p)'
    BY <1>1, <1>4 DEF Decided
  <1> QED BY <1>1, <1>2, <1>5 DEF AsToldSoFar, Covers, Pages, BlockSize

LEMMA ToldStart ==
  ASSUME WalkInv, AsToldSoFar, FillTranslationTable, Map!Call
  PROVE  AsToldSoFar'
  <1> DEFINE c == configured[Begun + 1]
  <1>1. /\ MemoryTable \in Seq(Call) /\ MemoryTable # << >> /\ configured \in Seq(Call)
        /\ Begun \in Nat /\ MemoryTable' = Tail(MemoryTable) /\ UNCHANGED configured
        /\ \A i \in 1 .. Len(MemoryTable) : MemoryTable[i] = configured[Begun + i]
    BY DEF FillTranslationTable, WalkInv, TableInv, TableTypes, AsToldSoFar
  <1>2. /\ Len(MemoryTable) \in Nat /\ Len(MemoryTable) >= 1 /\ Head(MemoryTable) = MemoryTable[1]
        /\ Len(MemoryTable') = Len(MemoryTable) - 1
        /\ \A i \in 1 .. Len(MemoryTable') : MemoryTable'[i] = MemoryTable[i + 1]
    BY <1>1
  <1>3. Begun' = Begun + 1
    BY <1>1, <1>2 DEF Begun
  <1>4. Head(MemoryTable) = c /\ c \in Call
    <2>1. 1 \in 1 .. Len(MemoryTable)
      BY <1>2
    <2> QED BY <1>1, <1>2, <2>1
  <1>5. \A i \in 1 .. Len(MemoryTable') : MemoryTable'[i] = configured'[Begun' + i]
    <2> SUFFICES ASSUME NEW i \in 1 .. Len(MemoryTable')
                 PROVE  MemoryTable'[i] = configured[Begun + 1 + i]
      BY <1>1, <1>3
    <2>1. i + 1 \in 1 .. Len(MemoryTable) /\ Begun + (i + 1) = Begun + 1 + i
      BY <1>1, <1>2
    <2> QED BY <1>1, <1>2, <2>1
  <1>6. status' = "busy" /\ call' = c /\ status # "busy" /\ Mapped' = Mapped
        /\ Todo' = c.start .. c.start + c.length - 1
    BY <1>4 DEF FillTranslationTable, Start, Map!Call, Todo, Mapped
  <1>7. \A p \in Nat : p \in Todo' <=> Covers(c, p)
    BY <1>4, <1>6 DEF Covers, Call
  <1>8. Todo' \subseteq Nat
    BY <1>4, <1>6 DEF Call
  <1>9. ASSUME NEW p \in Pages PROVE Decided(Mapped[p], Settled(p)', configured, p)
    <2>1. Decided(Mapped[p], Settled(p), configured, p) /\ p \in Nat
      BY RootAbove DEF AsToldSoFar
    <2>2. Settled(p) = About(p)
      BY <1>6 DEF Settled, Todo
    <2>3. About(p)' = About(p) \cup (IF Covers(c, p) THEN {Begun + 1} ELSE {})
      <3>1. About(p)' = {i \in 1 .. Begun + 1 : Covers(configured[i], p)}
        BY <1>1, <1>3 DEF About, Covers
      <3>2. 1 .. Begun + 1 = (1 .. Begun) \cup {Begun + 1}
        BY <1>1
      <3> QED BY <3>1, <3>2 DEF About
    <2>4. Begun + 1 \notin About(p)
      BY <1>1 DEF About
    <2>5. Settled(p)' = About(p)
      BY <1>3, <1>7, <2>1, <2>3, <2>4 DEF Settled
    <2> QED BY <2>1, <2>2, <2>5
  <1>10. \A p \in Pages : Decided(Mapped[p], Settled(p), configured, p)'
    BY <1>1, <1>6, <1>9 DEF Decided
  <1>11. \A p \in Todo' : Covers(configured'[Begun'], p)
    BY <1>1, <1>3, <1>7, <1>8
  <1>12. Begun' \in Nat /\ Begun' >= 1 /\ call' = configured'[Begun']
    BY <1>1, <1>3, <1>6
  <1>13. configured' \in Seq(Call) /\ \A i \in DOMAIN configured' : configured'[i].mask = {}
    BY <1>1 DEF AsToldSoFar
  <1> HIDE DEF c
  <1> QED BY <1>5, <1>10, <1>11, <1>12, <1>13 DEF AsToldSoFar, Covers, Pages, BlockSize

LEMMA ToldStep == ToldInv /\ [Next]_vars => ToldInv'
  <1> SUFFICES ASSUME ToldInv, [Next]_vars PROVE ToldInv'
    OBVIOUS
  <1>1. WalkInv' /\ TableInv' /\ WalkInv
    BY WalkStep, TableStep DEF ToldInv, WalkInv
  <1>2. SUFFICES ASSUME mmu' = "configuring" PROVE AsToldSoFar'
    BY <1>1 DEF ToldInv
  <1>3. CASE Find \/ Descend \/ Found \/ Allocate \/ AllocateFails \/ UNCHANGED vars
    <2>1. Quiet
      BY <1>1, <1>3, WalkFind, WalkDescend, WalkFound, WalkAllocate, WalkEnds
    <2>2. UNCHANGED <<mmu, configured, MemoryTable, call>>
      BY <1>3 DEF Find, Descend, Found, Allocate, AllocateFails, vars, setting
    <2> QED BY <1>2, <2>1, <2>2, ToldStays DEF Quiet, ToldInv
  <1>4. CASE Fill
    <2>1. mmu = "configuring"
      BY <1>2, <1>4 DEF Fill
    <2> QED BY <1>1, <1>4, <2>1, ToldFill, WalkFill DEF ToldInv
  <1>5. CASE Return
    <2>1. /\ UNCHANGED <<mmu, configured, MemoryTable, tables>> /\ RegionLength = 0
          /\ status' # "busy"
      BY <1>2, <1>5 DEF Return, AfterFailure, setting
    <2>2. Mapped' = Mapped
      BY <2>1, SameTree
    <2>3. Todo' = Todo
      <3>1. RegionStart \in Nat
        BY <1>1 DEF TableInv, TableTypes, WalkInv
      <3> QED BY <2>1, <3>1 DEF Todo
    <2> QED BY <1>2, <2>1, <2>2, <2>3, ToldStays DEF ToldInv
  <1>6. CASE FillTranslationTable
    <2>1. MemoryTable \in Seq(Call) /\ MemoryTable # << >>
      BY <1>1, <1>6 DEF FillTranslationTable, WalkInv, TableInv, TableTypes
    <2>2. Head(MemoryTable) \in Call /\ Head(MemoryTable).start + Head(MemoryTable).length <= Size
      <3>1. 1 \in DOMAIN MemoryTable /\ Head(MemoryTable) = MemoryTable[1]
        BY <2>1
      <3> QED BY <1>1, <2>1, <3>1 DEF WalkInv, Place
    <2>3. Map!Call /\ mmu = "configuring"
      BY <1>1, <1>2, <1>6, <2>2, WalkStart DEF FillTranslationTable
    <2> QED BY <1>1, <1>6, <2>3, ToldStart DEF ToldInv
  <1>7. CASE ArmEnableMmu \/ \E c \in Calls : SetMemoryRegionAttribute(c)
    BY <1>2, <1>7 DEF ArmEnableMmu, SetMemoryRegionAttribute
  <1> QED BY <1>3, <1>4, <1>5, <1>6, <1>7 DEF Next, Update, Finished

LEMMA ToldEnable ==
  ASSUME ToldInv, ArmEnableMmu, NEW p \in Pages
  PROVE  Translation(p) = IF ToldAbout(p) = {} THEN Unmapped
                          ELSE [to |-> p, bits |-> configured[Max(ToldAbout(p))].attrs]
  <1>1. AsToldSoFar /\ pc = "idle" /\ MemoryTable = << >>
    BY DEF ToldInv, ArmEnableMmu
  <1>2. status # "busy"
    BY <1>1 DEF ToldInv, WalkInv, Place
  <1>3. Begun = Len(configured) /\ DOMAIN configured = 1 .. Begun
    BY <1>1 DEF Begun, AsToldSoFar
  <1>4. Settled(p) = ToldAbout(p) /\ ToldAbout(p) \in SUBSET Nat
    BY <1>2, <1>3 DEF Settled, About, ToldAbout, Todo
  <1>5. Decided(Translation(p), ToldAbout(p), configured, p)
    BY <1>1, <1>4 DEF AsToldSoFar, Mapped
  <1> QED BY <1>4, <1>5, DecidedByMax

AsTold == \A p \in Pages :
            Translation(p) = IF ToldAbout(p) = {} THEN Unmapped
                             ELSE [to |-> p, bits |-> configured[Max(ToldAbout(p))].attrs]

LEMMA OnStep == ToldInv /\ [Next]_vars => [mmu # "on" /\ mmu' = "on" => AsTold]_vars
  <1> SUFFICES ASSUME ToldInv, Next, mmu # "on", mmu' = "on" PROVE AsTold
    OBVIOUS
  <1>1. ArmEnableMmu
    BY DEF Next, Update, Find, Descend, Allocate, AllocateFails, Found, Fill, Return,
           AfterFailure, FillTranslationTable, SetMemoryRegionAttribute, Finished, vars
  <1> QED BY <1>1, ToldEnable DEF AsTold

\* FillTranslationTable: the MMU goes on with the map that ArmConfigureMmu was given,
\* each page as the last region that contains it says, and no other page mapped.
THEOREM OnWithTheMapTold == Spec => EnabledAsTold
  BY ToldInit, ToldStep, OnStep, PTL DEF Spec, EnabledAsTold, AsTold

(***************************************************************************)
(* 32-bit Arm: the regions so far.                                         *)
(***************************************************************************)
ArmBegun == Len(given) - Len(regions)

ArmAbout(p) == {i \in 1 .. ArmBegun : Arm!Maps(given[i], p)}

ArmTodo == IF result = "busy" THEN Arm!Left ELSE {}

ArmSettled(p) == ArmAbout(p) \ (IF p \in ArmTodo THEN {ArmBegun} ELSE {})

ArmAsTold ==
  /\ given \in Seq(Call) /\ \A i \in DOMAIN given : given[i].mask = {}
  /\ ArmBegun \in Nat
  /\ \A i \in 1 .. Len(regions) : regions[i] = given[ArmBegun + i]
  /\ result = "busy" => /\ ArmBegun >= 1 /\ request = given[ArmBegun]
                        /\ \A p \in Arm!Left : Arm!Maps(given[ArmBegun], p)
  /\ \A p \in Arm!Pages : Decided(Arm!Mapping[p], ArmSettled(p), given, p)

ArmToldInv == ArmMapInv /\ (state = "configuring" => ArmAsTold)

LEMMA SameMaps == \A c, p : Arm!Maps(c, p)' = Arm!Maps(c', p')
  BY DEF Arm!Maps, Arm!Contains, Arm!LostTail, Arm!Boundary, Arm!SectionStart, Arm!Min, Arm!Limit

LEMMA ArmToldInit == Arm!Init => ArmToldInv
  <1> SUFFICES ASSUME Arm!Init PROVE ArmAsTold
    BY ArmMapInit DEF ArmToldInv
  <1>1. given \in Seq(Call) /\ \A i \in DOMAIN given : given[i].mask = {}
    BY ArmAssumption, MapAssumption DEF Arm!Init
  <1>2. ArmBegun = 0 /\ regions = given /\ result # "busy"
    BY <1>1 DEF Arm!Init, ArmBegun
  <1>3. ASSUME NEW p \in Arm!Pages PROVE Decided(Arm!Mapping[p], ArmSettled(p), given, p)
    <2>1. Arm!Mapping[p] = Unmapped
      BY ArmMapInit DEF ArmMap!Init
    <2>2. ArmSettled(p) = {}
      BY <1>2 DEF ArmSettled, ArmAbout
    <2> QED BY <2>1, <2>2 DEF Decided
  <1> QED BY <1>1, <1>2, <1>3 DEF ArmAsTold

\* Steps that neither change a page nor take up a region.
LEMMA ArmToldStays ==
  ASSUME ArmAsTold, UNCHANGED <<given, regions, Arm!Mapping, ArmTodo>>,
         result' = "busy" => result = "busy" /\ request' = request
  PROVE  ArmAsTold'
  <1>1. ArmBegun' = ArmBegun
    BY DEF ArmBegun
  <1>2. \A p : ArmSettled(p)' = ArmSettled(p)
    BY <1>1 DEF ArmSettled, ArmAbout, Arm!Maps, Arm!Contains, Arm!LostTail, Arm!Boundary,
                Arm!SectionStart, Arm!Min, Arm!Limit
  <1>3. \A p \in Arm!Pages : Decided(Arm!Mapping[p], ArmSettled(p), given, p)'
    BY <1>2 DEF ArmAsTold, Decided
  <1>4. result' = "busy" =>
          /\ ArmBegun' >= 1 /\ request' = given'[ArmBegun']
          /\ \A p \in Arm!Left' : Arm!Maps(given[ArmBegun], p)
    BY <1>1 DEF ArmAsTold, ArmTodo
  <1> QED BY <1>1, <1>3, <1>4 DEF ArmAsTold, Arm!Maps, Arm!Contains, Arm!LostTail,
             Arm!Boundary, Arm!SectionStart, Arm!Min, Arm!Limit, Arm!Pages

\* A section, or the part of a page table.
LEMMA ArmToldFill ==
  ASSUME ArmMapInv, ArmAsTold, ArmMap!Change, UNCHANGED <<given, regions, request>>
  PROVE  ArmAsTold'
  <1>1. /\ result = "busy" /\ result' = "busy" /\ Arm!Left' \subseteq Arm!Left
        /\ Arm!Mapping' = [p \in Arm!Pages |-> IF p \in Arm!Left \ Arm!Left'
                                               THEN ArmMap!Updated(p) ELSE Arm!Mapping[p]]
    BY DEF ArmMap!Change
  <1>2. /\ ArmBegun' = ArmBegun /\ ArmBegun \in Nat /\ ArmBegun >= 1
        /\ request = given[ArmBegun] /\ ArmBegun \in DOMAIN given /\ request.mask = {}
        /\ \A p \in Arm!Left : Arm!Maps(given[ArmBegun], p)
    <2>1. regions \in Seq(Call)
      BY DEF ArmMapInv, ArmInv, ArmLengths
    <2> QED BY <1>1, <2>1 DEF ArmAsTold, ArmBegun
  <1>3. \A p : ArmAbout(p)' = ArmAbout(p)
    BY <1>2 DEF ArmAbout, Arm!Maps, Arm!Contains, Arm!LostTail, Arm!Boundary,
                Arm!SectionStart, Arm!Min, Arm!Limit
  <1>4. ASSUME NEW p \in Arm!Pages
        PROVE  Decided(Arm!Mapping'[p], ArmSettled(p)', given, p)
    <2>1. Decided(Arm!Mapping[p], ArmSettled(p), given, p)
      BY DEF ArmAsTold
    <2>2. /\ ArmSettled(p)' = ArmAbout(p) \ (IF p \in Arm!Left' THEN {ArmBegun} ELSE {})
          /\ ArmSettled(p) = ArmAbout(p) \ (IF p \in Arm!Left THEN {ArmBegun} ELSE {})
      BY <1>1, <1>2, <1>3 DEF ArmSettled, ArmTodo
    <2>3. CASE p \in Arm!Left \ Arm!Left'
      <3>1. Arm!Mapping'[p] = [to |-> p, bits |-> given[ArmBegun].attrs]
        <4>1. ArmMap!Updated(p) =
                [to |-> p, bits |-> (ArmMap!BitsOf(Arm!Mapping[p]) \cap request.mask)
                                      \cup request.attrs]
          BY DEF ArmMap!Updated
        <4> QED BY <1>1, <1>2, <2>3, <4>1
      <3>2. ArmSettled(p)' = ArmAbout(p) /\ ArmBegun \in ArmAbout(p)
        BY <1>2, <2>2, <2>3 DEF ArmAbout
      <3>3. \A i \in ArmAbout(p) : i <= ArmBegun
        BY DEF ArmAbout
      <3> QED BY <3>1, <3>2, <3>3 DEF Decided
    <2>4. CASE p \notin Arm!Left \ Arm!Left'
      <3>1. Arm!Mapping'[p] = Arm!Mapping[p] /\ (p \in Arm!Left' <=> p \in Arm!Left)
        BY <1>1, <2>4
      <3> QED BY <2>1, <2>2, <3>1
    <2> QED BY <2>3, <2>4
  <1>5. \A p \in Arm!Pages : Decided(Arm!Mapping[p], ArmSettled(p), given, p)'
    BY <1>1, <1>4 DEF Decided
  <1>6. \A p \in Arm!Left' : Arm!Maps(given[ArmBegun], p)
    BY <1>1, <1>2
  <1> QED BY <1>1, <1>2, <1>5, <1>6 DEF ArmAsTold, Arm!Maps, Arm!Contains, Arm!LostTail,
             Arm!Boundary, Arm!SectionStart, Arm!Min, Arm!Limit, Arm!Pages

\* What a region maps of the pages below 4 GB is what it leaves to do.
LEMMA LeftIsMapped ==
  ASSUME ArmMapInv, state' = "configuring", NEW c \in Call, c.start < Arm!Limit,
         Arm!Begin(c, "fill"), NEW p \in Arm!Pages
  PROVE  p \in Arm!Left' <=> Arm!Maps(c, p)
  <1> DEFINE n == Arm!Min({c.length, Arm!Limit - c.start})
  <1>1. c.start \in Nat /\ c.length \in Nat /\ Limit \in Nat /\ Arm!Limit = Limit /\ p \in 0 .. Limit - 1
    BY LimitType, PagesOfSection DEF Call
  <1>2. n = IF c.length <= Limit - c.start THEN c.length ELSE Limit - c.start
    BY <1>1, Smaller
  <1>3. BaseAddress' = c.start /\ Length' = n
    BY DEF Arm!Begin
  <1>4. Arm!Left' = (c.start .. c.start + n - 1) \ Arm!LostTail(c.start, n)
    BY <1>3 DEF Arm!Left, Arm!LostTail, Arm!Boundary, Arm!SectionStart
  <1>5. p \in c.start .. c.start + n - 1 <=> Arm!Contains(c, p)
    <2> HIDE DEF n
    <2> QED BY <1>1, <1>2 DEF Arm!Contains
  <1> QED BY <1>4, <1>5 DEF Arm!Maps

LEMMA ArmToldStart ==
  ASSUME ArmMapInv, ArmAsTold, Arm!FillTranslationTable,
         \A p \in Arm!Pages : Arm!Mapping'[p] = Arm!Mapping[p],
         ArmTodo' \subseteq Arm!Pages
  PROVE  ArmAsTold'
  <1> DEFINE c == given[ArmBegun + 1]
  <1>1. /\ regions \in Seq(Call) /\ regions # << >> /\ given \in Seq(Call)
        /\ ArmBegun \in Nat /\ regions' = Tail(regions) /\ UNCHANGED given
        /\ \A i \in 1 .. Len(regions) : regions[i] = given[ArmBegun + i]
        /\ state' = "configuring" /\ state = "configuring"
    BY DEF Arm!FillTranslationTable, ArmMapInv, ArmInv, ArmLengths, ArmAsTold
  <1>2. /\ Len(regions) \in Nat /\ Len(regions) >= 1 /\ Head(regions) = regions[1]
        /\ Len(regions') = Len(regions) - 1
        /\ \A i \in 1 .. Len(regions') : regions'[i] = regions[i + 1]
    BY <1>1
  <1>3. ArmBegun' = ArmBegun + 1
    BY <1>1, <1>2 DEF ArmBegun
  <1>4. Head(regions) = c /\ c \in Call
    <2>1. 1 \in 1 .. Len(regions)
      BY <1>2
    <2> QED BY <1>1, <1>2, <2>1
  <1>5. \A i \in 1 .. Len(regions') : regions'[i] = given'[ArmBegun' + i]
    <2> SUFFICES ASSUME NEW i \in 1 .. Len(regions') PROVE regions'[i] = given[ArmBegun + 1 + i]
      BY <1>1, <1>3
    <2>1. i + 1 \in 1 .. Len(regions) /\ ArmBegun + (i + 1) = ArmBegun + 1 + i
      BY <1>1, <1>2
    <2> QED BY <1>1, <1>2, <2>1
  <1>6. ArmTodo = {}
    BY DEF ArmTodo, ArmMapInv, ArmPhases, Arm!FillTranslationTable
  <1>7. \A p \in Arm!Pages : p \in ArmTodo' <=> Arm!Maps(c, p)
    <2>1. CASE c.start >= Arm!Limit
      <3>1. result' = result /\ result # "busy"
        BY <1>4, <2>1 DEF Arm!FillTranslationTable, ArmMapInv, ArmPhases
      <3>2. \A p \in Arm!Pages : ~Arm!Maps(c, p)
        <4>1. c.start \in Nat /\ Limit \in Nat /\ Arm!Limit = Limit
          BY <1>4, LimitType DEF Call
        <4> QED BY <2>1, <4>1, PagesOfSection DEF Arm!Maps, Arm!Contains
      <3> QED BY <3>1, <3>2 DEF ArmTodo
    <2>2. CASE ~(c.start >= Arm!Limit)
      <3>1. c.start < Arm!Limit
        BY <1>4, <2>2, LimitType DEF Call
      <3>2. Arm!Begin(c, "fill")
        BY <1>4, <2>2 DEF Arm!FillTranslationTable
      <3>3. result' = "busy"
        BY <3>2 DEF Arm!Begin
      <3>4. \A p \in Arm!Pages : p \in Arm!Left' <=> Arm!Maps(c, p)
        BY <1>1, <1>4, <3>1, <3>2, LeftIsMapped
      <3> QED BY <3>3, <3>4 DEF ArmTodo
    <2> QED BY <2>1, <2>2
  <1>8. result' = "busy" => request' = c
    BY <1>4 DEF Arm!FillTranslationTable, Arm!Begin, ArmMapInv, ArmPhases
  <1> HIDE DEF c
  <1>9. ASSUME NEW p \in Arm!Pages PROVE Decided(Arm!Mapping[p], ArmSettled(p)', given, p)
    <2>1. Decided(Arm!Mapping[p], ArmSettled(p), given, p)
      BY DEF ArmAsTold
    <2>2. ArmSettled(p) = ArmAbout(p)
      BY <1>6 DEF ArmSettled
    <2>3. ArmAbout(p)' = ArmAbout(p) \cup (IF Arm!Maps(c, p) THEN {ArmBegun + 1} ELSE {})
      <3>1. ArmAbout(p)' = {i \in 1 .. ArmBegun + 1 : Arm!Maps(given[i], p)}
        BY <1>1, <1>3 DEF ArmAbout, Arm!Maps, Arm!Contains, Arm!LostTail, Arm!Boundary,
                          Arm!SectionStart, Arm!Min, Arm!Limit
      <3>2. 1 .. ArmBegun + 1 = (1 .. ArmBegun) \cup {ArmBegun + 1}
        BY <1>1
      <3> QED BY <3>1, <3>2 DEF ArmAbout, c
    <2>4. ArmBegun + 1 \notin ArmAbout(p)
      BY <1>1 DEF ArmAbout
    <2>5. p \in ArmTodo' <=> Arm!Maps(c, p)
      BY <1>7
    <2>6. ArmSettled(p)' = ArmAbout(p)
      BY <1>3, <2>3, <2>4, <2>5 DEF ArmSettled
    <2> QED BY <2>1, <2>2, <2>6
  <1>10. \A p \in Arm!Pages : Decided(Arm!Mapping[p], ArmSettled(p), given, p)'
    BY <1>1, <1>9 DEF Decided
  <1>11. result' = "busy" =>
           /\ ArmBegun' >= 1 /\ request' = given'[ArmBegun']
           /\ \A p \in Arm!Left' : Arm!Maps(given[ArmBegun'], p)
    <2>1. result' = "busy" => Arm!Left' = ArmTodo'
      BY DEF ArmTodo
    <2> QED BY <1>1, <1>3, <1>7, <1>8, <2>1 DEF c
  <1>12. ArmBegun' \in Nat /\ given' \in Seq(Call) /\ \A i \in DOMAIN given' : given'[i].mask = {}
    BY <1>1, <1>3 DEF ArmAsTold
  <1> QED BY <1>1, <1>5, <1>10, <1>11, <1>12 DEF ArmAsTold, Arm!Maps, Arm!Contains,
             Arm!LostTail, Arm!Boundary, Arm!SectionStart, Arm!Min, Arm!Limit, Arm!Pages

LEMMA RangeBelow ==
  ASSUME NEW b \in Nat, NEW n \in Nat, NEW m \in Nat, b + n <= m
  PROVE  b .. b + n - 1 \subseteq 0 .. m - 1
  OBVIOUS

LEMMA ArmToldStep == ArmToldInv /\ [Arm!Next]_armVars => ArmToldInv'
  <1> SUFFICES ASSUME ArmToldInv, [Arm!Next]_armVars PROVE ArmToldInv'
    OBVIOUS
  <1>1. ArmMapInv /\ ArmMapInv'
    BY ArmMapStep DEF ArmToldInv
  <1>2. SUFFICES ASSUME state' = "configuring" PROVE ArmAsTold'
    BY <1>1 DEF ArmToldInv
  <1> USE DEF Arm!setting
  <1>3. CASE Arm!FillSection \/ Arm!PopulateLevel2PageTable
    <2>1. ArmMap!Change
      BY <1>1, <1>3, FillSectionChange, PopulateChange
    <2>2. state = "configuring" /\ UNCHANGED <<given, regions, request>>
      BY <1>2, <1>3 DEF Arm!FillSection, Arm!PopulateLevel2PageTable
    <2> QED BY <1>1, <2>1, <2>2, ArmToldFill DEF ArmToldInv
  <1>4. CASE Arm!PopulateAtNull \/ UNCHANGED armVars \/ Arm!Finished
    <2>1. /\ UNCHANGED <<state, given, regions, request, result, BaseAddress, Length,
                         FirstLevelTable, PageTables, misdirected>>
      BY <1>4 DEF Arm!PopulateAtNull, armVars, Arm!Finished, Arm!vars, Arm!tables, Arm!history
    <2>2. Arm!Mapping' = Arm!Mapping
      BY <1>1, <2>1, MapStays
    <2>3. ArmTodo' = ArmTodo
      BY <2>1 DEF ArmTodo, Arm!Left, Arm!LostTail, Arm!Boundary, Arm!SectionStart
    <2> QED BY <1>2, <2>1, <2>2, <2>3, ArmToldStays DEF ArmToldInv
  <1>5. CASE Arm!Return
    <2>1. /\ UNCHANGED <<state, given, regions, FirstLevelTable, PageTables, misdirected>>
          /\ result' # "busy" /\ at = "fill" /\ Length = 0 /\ BaseAddress \in Nat
      BY <1>1, <1>2, <1>5 DEF Arm!Return, Arm!tables, Arm!history, ArmMapInv, ArmPhases,
                              ArmInv, ArmLengths
    <2>2. Arm!Mapping' = Arm!Mapping
      BY <1>1, <2>1, MapStays
    <2>3. ArmTodo = {} /\ ArmTodo' = {}
      BY <2>1 DEF ArmTodo, Arm!Left
    <2> QED BY <1>2, <2>1, <2>2, <2>3, ArmToldStays DEF ArmToldInv
  <1>6. CASE Arm!FillTranslationTable
    <2>1. state = "configuring" /\ UNCHANGED <<FirstLevelTable, PageTables, misdirected>>
      BY <1>6 DEF Arm!FillTranslationTable, Arm!tables, Arm!history
    <2>2. Arm!Mapping' = Arm!Mapping
      BY <1>1, <2>1, MapStays
    <2>3. ArmTodo' \subseteq Arm!Pages
      <3>1. BaseAddress' \in Nat /\ Length' \in Nat /\ BaseAddress' + Length' <= Limit
            /\ Limit \in Nat
        BY <1>1, LimitType DEF ArmMapInv, ArmInv, ArmLengths, Limit
      <3>2. Arm!Left' \subseteq BaseAddress' .. BaseAddress' + Length' - 1
        BY DEF Arm!Left
      <3>3. BaseAddress' .. BaseAddress' + Length' - 1 \subseteq 0 .. Limit - 1
        BY <3>1, RangeBelow
      <3>4. ArmTodo' \subseteq Arm!Left'
        BY DEF ArmTodo
      <3> QED BY <3>2, <3>3, <3>4, PagesOfSection
    <2> QED BY <1>1, <1>6, <2>1, <2>2, <2>3, ArmToldStart DEF ArmToldInv
  <1>7. CASE \/ Arm!NextChunk \/ Arm!UpdateSection \/ Arm!ForwardToPages
             \/ Arm!ConvertSectionToPages \/ Arm!ConvertFails \/ Arm!UpdatePage
             \/ Arm!PagesDone \/ Arm!SectionsDone
    <2>1. at \in {"chunk", "sections", "pages"} /\ state' = state
      BY <1>7 DEF Arm!NextChunk, Arm!UpdateSection, Arm!ForwardToPages,
                  Arm!ConvertSectionToPages, Arm!ConvertFails, Arm!UpdatePage,
                  Arm!PagesDone, Arm!SectionsDone
    <2> QED BY <1>1, <1>2, <2>1 DEF ArmMapInv, ArmPhases
  <1>8. CASE \/ Arm!ArmEnableMmu \/ Arm!RootAllocationFails
             \/ \E c \in Requests : Arm!ArmSetMemoryAttributes(c)
    BY <1>2, <1>8 DEF Arm!ArmEnableMmu, Arm!RootAllocationFails, Arm!ArmSetMemoryAttributes
  <1> QED BY <1>3, <1>4, <1>5, <1>6, <1>7, <1>8 DEF Arm!Next, Arm!Update

LEMMA GreatestOf ==
  ASSUME NEW S \in SUBSET Nat, NEW m \in S, \A i \in S : i <= m
  PROVE  Arm!Max(S) = m
  <1>1. \E x \in S : \A y \in S : x >= y
    OBVIOUS
  <1>2. Arm!Max(S) \in S /\ \A y \in S : Arm!Max(S) >= y
    BY <1>1 DEF Arm!Max
  <1>3. m \in Nat /\ Arm!Max(S) \in Nat /\ Arm!Max(S) <= m /\ Arm!Max(S) >= m
    BY <1>2
  <1> QED BY <1>3

LEMMA ArmToldEnable ==
  ASSUME ArmToldInv, Arm!ArmEnableMmu, NEW p \in Arm!Pages
  PROVE  /\ Arm!Translation(p) = IF Arm!ToldAbout(p) = {} THEN Unmapped
                                  ELSE [to |-> p, bits |-> given[Arm!Max(Arm!ToldAbout(p))].attrs]
         /\ Arm!ToldAbout(p) \in SUBSET Nat
         /\ Arm!ToldAbout(p) # {} => Arm!Max(Arm!ToldAbout(p)) \in Arm!ToldAbout(p)
  <1>1. ArmAsTold /\ at = "idle" /\ regions = << >> /\ state = "configuring"
    BY DEF ArmToldInv, Arm!ArmEnableMmu
  <1>2. result # "busy" /\ misdirected = {}
    BY <1>1 DEF ArmToldInv, ArmMapInv, ArmPhases
  <1>3. ArmBegun = Len(given) /\ DOMAIN given = 1 .. ArmBegun
    BY <1>1 DEF ArmBegun, ArmAsTold
  <1>4. ArmSettled(p) = Arm!ToldAbout(p) /\ Arm!ToldAbout(p) \in SUBSET Nat
    BY <1>2, <1>3 DEF ArmSettled, ArmAbout, Arm!ToldAbout, ArmTodo
  <1>5. Decided(Arm!Translation(p), Arm!ToldAbout(p), given, p)
    BY <1>1, <1>2, <1>4 DEF ArmAsTold, Arm!Mapping
  <1>6. CASE Arm!ToldAbout(p) = {}
    BY <1>4, <1>5, <1>6 DEF Decided
  <1>7. CASE Arm!ToldAbout(p) # {}
    <2>1. PICK m \in Arm!ToldAbout(p) :
            /\ \A i \in Arm!ToldAbout(p) : i <= m
            /\ Arm!Translation(p) = [to |-> p, bits |-> given[m].attrs]
      BY <1>5, <1>7 DEF Decided
    <2>2. Arm!Max(Arm!ToldAbout(p)) = m
      BY <1>4, <2>1, GreatestOf
    <2> QED BY <1>4, <1>7, <2>1, <2>2
  <1> QED BY <1>6, <1>7

\* The first level table is in write-back memory, unless its page was forgotten.
LEMMA ArmRootTold ==
  ASSUME ArmToldInv, Arm!ArmEnableMmu, Arm!RootInWriteBack, ~Arm!Forgotten(RootPage)
  PROVE  Arm!Translation(RootPage) = [to |-> RootPage, bits |-> WriteBack]
  <1>1. RootPage \in Arm!Pages
    BY WriteBackAssumption DEF Arm!Pages, Arm!Limit
  <1>2. Arm!ToldAbout(RootPage) = {i \in DOMAIN given : Arm!Contains(given[i], RootPage)}
    BY DEF Arm!Forgotten, Arm!ToldAbout, Arm!Maps
  <1>3. /\ Arm!ToldAbout(RootPage) # {}
        /\ given[Arm!Max(Arm!ToldAbout(RootPage))].attrs = WriteBack
    BY <1>2, WriteBackAssumption DEF Arm!RootInWriteBack, Arm!RootAttributes
  <1> QED BY <1>1, <1>3, ArmToldEnable

ArmTold ==
  /\ \A p \in Arm!Pages :
       Arm!Translation(p) =
         IF Arm!ToldAbout(p) = {} THEN Unmapped
         ELSE [to |-> p, bits |-> given[Arm!Max(Arm!ToldAbout(p))].attrs]
  /\ ~Arm!Forgotten(RootPage) => Arm!Translation(RootPage) =
                                   [to |-> RootPage, bits |-> WriteBack]

LEMMA ArmOnStep ==
  ArmToldInv /\ [Arm!Next]_armVars => [state # "on" /\ state' = "on" => ArmTold]_armVars
  <1> SUFFICES ASSUME ArmToldInv, Arm!Next, state # "on", state' = "on" PROVE ArmTold
    OBVIOUS
  <1>1. Arm!ArmEnableMmu /\ Arm!RootInWriteBack
    BY DEF Arm!Next, Arm!Update, Arm!FillSection, Arm!PopulateLevel2PageTable,
           Arm!PopulateAtNull, Arm!NextChunk, Arm!UpdateSection, Arm!ForwardToPages,
           Arm!ConvertSectionToPages, Arm!ConvertFails, Arm!UpdatePage, Arm!PagesDone,
           Arm!SectionsDone, Arm!Return, Arm!FillTranslationTable, Arm!ArmEnableMmu,
           Arm!RootAllocationFails, Arm!ArmSetMemoryAttributes, Arm!Finished, Arm!vars
  <1> QED BY <1>1, ArmToldEnable, ArmRootTold DEF ArmTold

\* FillTranslationTable of the 32-bit build: the MMU goes on with the map that
\* ArmConfigureMmu was given, but for what is forgotten, and the first level table in
\* write-back memory.
THEOREM ArmOnWithTheMapTold == Arm!Spec => Arm!EnabledAsTold
  <1>1. ArmToldInv /\ [Arm!Next]_Arm!vars =>
          ArmToldInv' /\ [state # "on" /\ state' = "on" => ArmTold]_Arm!vars
    BY ArmToldStep, ArmOnStep DEF armVars, Arm!vars
  <1> QED BY <1>1, ArmToldInit, PTL DEF Arm!Spec, Arm!EnabledAsTold, ArmTold

\* Whichever build of ArmMmuLib runs, the MMU goes on only with the map it was told to
\* make.
THEOREM BothGoOnAsTold == MCSpec => BothEnabledAsTold
  <1>1. MCInit => ToldInv /\ ArmToldInv
    BY ToldInit, ArmToldInit DEF MCInit
  <1>2. ToldInv /\ ArmToldInv /\ [MCNext]_<<build, vars, armVars>> =>
          /\ ToldInv' /\ [mmu # "on" /\ mmu' = "on" => AsTold]_vars
          /\ ArmToldInv' /\ [state # "on" /\ state' = "on" => ArmTold]_Arm!vars
    <2> SUFFICES ASSUME ToldInv, ArmToldInv, [MCNext]_<<build, vars, armVars>>
                 PROVE  /\ ToldInv' /\ [mmu # "on" /\ mmu' = "on" => AsTold]_vars
                        /\ ArmToldInv' /\ [state # "on" /\ state' = "on" => ArmTold]_Arm!vars
      OBVIOUS
    <2>1. [Next]_vars /\ [Arm!Next]_armVars
      BY DEF MCNext
    <2>2. ToldInv' /\ ArmToldInv'
      BY <2>1, ToldStep, ArmToldStep
    <2>3. [mmu # "on" /\ mmu' = "on" => AsTold]_vars
      BY <2>1, OnStep
    <2>4. [state # "on" /\ state' = "on" => ArmTold]_Arm!vars
      <3>1. [state # "on" /\ state' = "on" => ArmTold]_armVars
        BY <2>1, ArmOnStep
      <3> QED BY <3>1 DEF armVars, Arm!vars
    <2> QED BY <2>2, <2>3, <2>4
  <1> QED BY <1>1, <1>2, PTL DEF MCSpec, BothEnabledAsTold, EnabledAsTold, AsTold,
            Arm!EnabledAsTold, ArmTold
=============================================================================
