# Verification of the RK3399 UEFI platform code

TLA+ models of the drivers and libraries of this EDK2 platform that keep state
and make decisions: the keypad driver, the MMC stack with its host controller,
the page tables of both builds of the MMU library, the clocks, the debug ports,
and what the boot manager library keeps from boot to boot. TLC checks them on
small instances and TLAPS proves the results that matter most for every instance.
Paths below are relative to `src/sdm845Pkg/`.

## 1. Inventory

UEFI code runs on one processor. "Concurrency" is preemption by priority: code
at `TPL_APPLICATION` is interrupted by event handlers at `TPL_CALLBACK`, these
by handlers at `TPL_NOTIFY`, and `RaiseTPL` opens a critical section. Every
race below is of that kind, and hardware and users act at any time.

| Component | State it keeps | Operations | Who it talks to | What must hold |
|---|---|---|---|---|
| Key queue (`Drivers/KeypadDxe/KeypadTextIn.c` 27-83) | ring of `EFI_KEY_DATA`, head, tail | push, pop, test | everything in the driver | it is a FIFO, drops only its oldest key |
| Text input (`KeypadTextIn.c`, `Keypad.c` 156-201, `KeypadController.c`) | two queues, notify list, event signals, partial-key flag | timer poll, ReadKeyStroke(Ex), WaitForKey, Reset, SetState, Register, Unregister, notify handler | keypad device protocol, clients, callbacks of clients | no lost wakeup; the list walk survives callbacks; a signalled wait finds a key |
| Driver binding (`Keypad.c` 116-558) | events, protocols, memory, armed timer | Supported, Start, ErrorExit, Stop | boot services | a failed Start owns nothing; nothing runs on freed memory |
| Block I/O (`Drivers/MmcDxe/MmcBlockIo.c`) | state, counters, address and buffer of a request | Reset, ReadBlocks, WriteBlocks | host protocol, card | every block once at its place; all blocks or an error; the card left ready |
| Card detection (`Drivers/MmcDxe/Mmc.c`) | host pool, `Initialized`, `Media` | timer callback, Start, Stop, initialize | host protocol, Block I/O clients | the media seen by clients follow the slot; data go to the card that was named |
| Identification (`Drivers/MmcDxe/MmcIdentification.c`) | `State`, `CardInfo` | InitializeMmcDevice and its parts | host protocol, card | a good card is identified; success means a usable card; it ends |
| Diagnostics (`Drivers/MmcDxe/Diagnostics.c`) | two buffers | RunDiagnostics | Block I/O | a passing test restores what it overwrites |
| Host controller (`Drivers/DwEmmcDxe/DwEmmcDxe.c`) | held command, FIFO, registers | SendCommand, ReceiveResponse, ReadBlockData, WriteBlockData, SetIos, NotifyState | registers, card | only words of this transfer; success means all of them; transfers end; the card's clock is off while it changes |
| MMU library (`Library/ArmMmuLib/AArch64`) | translation tables, TTBR0, MMU enable | ArmConfigureMmu, ArmSetMemoryAttributes, Set/ClearRegionNoExec/ReadOnly | page allocator, MMU hardware | tables translate as asked; no table lost; MMU on only when all was mapped |
| MMU library (`Library/ArmMmuLib/Arm`) | first level table, page tables, MMU enable | ArmConfigureMmu, ArmSetMemoryAttributes and its five callers | the same | the same, by sections or by pages (not built for this platform) |
| Memory init (`Library/MemoryInitPeiLib`, `Include/Configuration/DeviceMemoryMap.h`) | HOBs, descriptor array | MemoryPeim | MMU library | every region of the device map is mapped |
| Frame buffer console (`Library/FrameBufferSerialPortLib`) | cursor, colours, interrupt state | SerialPortInitialize, SerialPortWrite, SerialPortWriteCritical | frame buffer, writers of every priority | glyphs on the screen, the last one shown; colours and interrupts restored; the paint loop ends |
| Memory console (`Library/InMemorySerialPortLib`) | log area, offset | SerialPortWrite | memory | the area holds the last characters |
| UART (`Library/SerialPortLib`) | registers, FIFOs | initialise, set attributes, read, write | UART, writers of every priority | no character lost; settings as asked; writes end |
| Clocks (`Library/CRULib`) | PLL and divider registers | rk3399_clock_init, rk3399_pmu_clock_init, rk3399_configure_cpu, rk3399_{hdcp,vio,vop}_set_clk, rate queries | CRU registers, PLLs | no bus further above its nominal rate than rounding makes it; an unlocked PLL feeds nothing; the best dividers are found |
| Boot manager (`Library/PlatformBootManagerLib`) | ConIn, ConOut, ErrOut, Boot#### and Key#### variables, which outlive the boot | BeforeConsole, AfterConsole, UnableToBoot | external boot manager library, variable store, the user | every console of this boot is listed, whatever earlier boots left; an option is registered once; the setup key opens the menu; a boot gets somewhere |
| Tables and one-shot drivers | none | SMBIOS, ACPI, logo, frame buffer GOP, RTC stub, PEI stubs, board misc | protocols | none |

Hard behaviours: event handlers preempting services and `Start`; callbacks of
clients changing the list being walked; a full key queue; Start and Stop failing
half way; host calls failing in the middle of a request; cards coming and going
under requests; unbounded and off-by-one poll loops; wrapping block addresses;
words left in a FIFO; splitting a block mapping whose allocation fails; a reset
between two variables that belong together; writers of a debug port interrupting
each other between a test and a write; stale bits left in registers by partial
masks; the rounding of clock dividers.
`PROJECT.json` lists each at its line, with the property that guards it.

## 2. Modules

| Module | Models | State and actions |
|---|---|---|
| `KeyFifo` | the promise of a key queue | bounded sequence, oldest dropped |
| `KeyRing` | `EFI_KEY_QUEUE` | `Queue.Head/Tail/Buffer`, one action per queue function |
| `MCKeyRing`, `KeyRingProofs` | instance; refinement proof | |
| `Keypad` | the text input protocols | queues as sequences (what `KeyRing` justifies); `handler` is the program counter, key and link of `KeyNotifyProcessHandler`; `reading` is a caller of ReadKeyStroke between its critical section and its return |
| `MCKeypad`, `KeypadProofs` | instance; seven theorems, two of them on `KeypadBinding` | both modules are extended; they share no name |
| `KeypadBinding` | Start, ErrorExit, Stop | `todo` is the list of steps still to do, `held` what is owned; the timer, readers and clients act in between |
| `MmcBlockIo`, `MmcBlockIoProofs` | one request of `MmcIoBlocks`; five theorems, two of them on `MmcDiagnostics` | `pc` the label in MmcIoBlocks or MmcTransferBlock, each host call a step that may fail |
| `MmcCards` | detection, binding, MediaId | the callback is one action (`Tick`), which may fall anywhere, inside Start too; Start's own call of it is split at each access of a shared field |
| `MmcCardsProofs` | five theorems, three on card detection and two on identification | extends `MmcCards` and `MmcIdentification`, which share no name |
| `MmcIdentification` | the command sequence | the calls are a table `Program` of rows: the label, the call, where it goes on if the call succeeds and if it fails; `MakeCall` makes the call of the row of its label; branches are actions; the card is a small state machine |
| `DwEmmc`, `DwEmmcProofs` | the data path and the clock of the host controller; three theorems | words are "new" or "old"; FIFO, error bits and card are the environment; a clock register takes effect with an update |
| `MmcDiagnostics`, `MCMmcDiagnostics` | the five destructive tests, over `MmcBlockIo` | block contents, two buffers; a block read or written is a request of `MmcBlockIo`, run to its end |
| `MemoryMap` | the promise of the MMU library | a function from page to translation |
| `PageTable` | `UpdateRegionMapping` of AArch64 and its callers | tables as records of entries, `GetBlockEntryListFromAddress` and the two nested loops step by step |
| `ArmPageTable` | the 32-bit build | a first level table and page tables; `BaseAddress`, `Length` and the lengths of a chunk as in the code; a step per section or page |
| `MCArmMmu` | instance of both builds | `build` says which one runs; `ArmMap` is what `MemoryMap` sees of the 32-bit build |
| `ArmMmuProofs` | the tables of both builds, their refinement of `MemoryMap`, and what they hold when the MMU goes on | `EXTENDS MCArmMmu`, where the two builds meet; no constant is fixed |
| `Cru`, `MCCru` | `CRULib.c` and the calls of `ArmPlatformInitialize` | a function is the sequence of its register accesses, `todo`; a register is the set of its bits that are one and a write has its mask, so a partial mask leaves what it leaves; PLLs lock in their own time |
| `PlatformBoot` | `PlatformBm.c` | `con`, `options` and `key` are the variables, kept over a reset if `persistent`; `at` is the stage of the boot; each write is a step that may fail, and a reset may come between any two |
| `MCPlatformBoot` | instance | `fault` says whether consoles or options have failures and deletions |
| `BoardProofs` | eight theorems, three on `PlatformBoot` and five on `Cru` | the boot manager and the clocks share neither state nor names: both modules are extended |
| `DebugPort`, `MCDebugPort` | the three libraries of the class `SerialPortLib` | `calls` is the stack of calls in progress, the interrupting one last, each with its program counter and saved interrupt state; the console, the log and the UART are a record each |
| `DebugPortProofs` | five theorems on the three libraries | |

Composition: `KeyRing` implements `KeyFifo`, and `Keypad` uses the sequence that
`KeyFifo` promises. `PageTable` and `ArmPageTable` implement the one
`MemoryMap`, each through its own refinement mapping. `MmcDiagnostics` extends
`MmcBlockIo` and is its client: every block a test reads or writes goes through
`MmcIoBlocks` piece by piece, so that a success that hides a failure reaches the
test as it does in the code. The other MMC modules meet at their interfaces:
`MmcCards` takes an identification as `MmcIdentification` has it (it fails before
or after the media are set), and `MmcIdentification` takes the two kinds of host
from `DwEmmc`.

Data are reduced to what the properties tell apart: a key is a code and a shift
state, with the wildcard and partial key the code distinguishes; a block is its
address and its place in the buffer; a page attribute is a bit of a small set;
commands are names. Debug output is left out.

## 3. Runs

| Run | Shows | Bounds, and why they are enough |
|---|---|---|
| `key_ring` | the ring refines the FIFO | four slots: empty, full, overflow and wrap at every head position |
| `keypad` | no lost wakeup, live links, every function hears each queued key once, kept promises, draining | queue of two keys and three keystrokes, so it overflows; one function and two handles, so a walk meets added and removed nodes and two nodes for one function; registrations with either wildcard and with none |
| `keypad_binding` | Start/Stop with every failure | three registrations; the step lists are the code's |
| `mmc_block_io` | pieces, range, readiness, termination; a passing diagnostic test restores | blocks of two bytes, up to three blocks, last blocks 0 and 3, addresses that wrap at 8; two polls before and one after; the diagnostics on media of two and three blocks, where the tests' addresses coincide in every way |
| `mmc_block_io_errors` (violation) | `AllBlocksOrError` | same, commands and data may fail |
| `mmc_cards` | media agreement, named media, insertions and removals followed | two cards: the same, another, none; ticks anywhere, inside Start too; MediaId wraps at 3 |
| `mmc_identification` | success means a usable card, good cards succeed, it ends | all six kinds of card, two retries, the four sorts of host |
| `dw_emmc` | FIFO purity, completeness, termination of reads and writes, clock changes | three words, one word of room, two polls; 400 kHz, 25 MHz and a rate no divider reaches |
| `arm_mmu` | refinement by both builds, no table lost, MMU enable, termination | AArch64: three levels of two entries, every region of eight pages, two attribute changes after each of five device maps. Arm: three sections of three pages, so that a region crosses a boundary without filling a section; six maps with overlaps, gaps and regions that end or begin beyond the last section; every region, two changes |
| `platform_boot` | consoles listed, options once, setup key, boots end | two graphics devices, one without a path, a keypad; three boot options, so that numbers are reused; two failed writes in a boot, as `AddOutput` makes two; both builds, with and without a store that lasts. The number of boots is not bounded |
| `cru` | assertions, bus rates, shared registers, dividers, rates, no unlocked PLL in use | registers empty, full or mixed at reset; the start of the platform, then any two calls: five CPU frequencies of one cluster (the other has registers of its own), four bus rates, one of them odd and one that the unit cannot give, and nine pixel rates: at the edges of what the PLLs give, beyond them, where rounding is worst (found by a search over all kHz), and one at which the search overshoots the VCO |
| `debug_port` | glyphs, colours, interrupts, log, UART settings and losses, termination | three calls, two deep (the console was also run three deep); a screen of two lines of two characters (as tight as 1080 pixels are for 44 lines), a log of three characters, FIFOs of two |

The properties of a run are those a step can really break; `HandlersSafe`,
`PresenceFollowed`, `OptionsFollow`, `DividersRight`, `RatesRight` and
`ConsoleRight` are conjunctions of named parts. A type invariant is stated where
it is proved, in the module or in its proof module, and is a theorem rather than
a property of a run.

Every passing run has one mutant per property: a plausible mistake in one
definition (the operators marked "Mistake" in the modules) that TLC finds.

### What the violation shows

* `MmcIoBlocks` logs an error of `MmcTransferBlock` (`MmcBlockIo.c` 330) and
  returns `EFI_SUCCESS`; `Mmc.h` 396 and 430 promise all blocks or an error.

### What the models do that the code's documentation does not say

The models follow the code, so these are behaviours of the models; the
properties are stated with the exception written out, or not stated.

* A keystroke that matches n registrations is queued n times (`Keypad.c` 195) and
  the handler shows each copy to all of them: every function runs n times.
  `EveryFunctionHears` speaks of each copy. The test for a registration that is
  already there (`KeypadTextIn.c` 551) does not prevent this: it looks for one that
  covers the new key, and two that overlap, each with its wildcard, are both kept.
* A partial key that comes into a full queue pushes out the oldest key, which may be
  the only one a signalled `WaitForKey` stands for (`Keypad.c` 190-201,
  `KeypadTextIn.c` 75): the client then reads `EFI_NOT_READY`. `PromiseKept` is
  stated with this one exception (`crowded`); it also says that nothing else does it.
* `DwEmmcSendCommand` does not mark CMD8 as a command with data (`DwEmmcDxe.c`
  368), so the ECSD never arrives and an eMMC card fails on the only host in this
  repository: `GoodCardIdentified` leaves out that pair.
* `SetState` returns an unassigned variable (`KeypadTextIn.c` 495): `Keypad`
  answers with success or `"uninitialized"`.
* A callback that unregisters itself frees the node the walk stands on
  (`KeypadTextIn.c` 692). `SelfUnregister` switches this on; `HandlerLinkLive`
  is proved without it and fails with it.
* Registering a covered key returns the earlier handle (`KeypadTextIn.c` 551),
  documented as unique.
* ErrorExit walks the notify list of a `ConsoleIn` that was not allocated
  (`Keypad.c` 393): `pc = "exception"` in `KeypadBinding`.
* A Stop that cannot uninstall has already closed the timer (`Keypad.c` 467).
* A ready poll that gives up leaves -1, not 0 (`MmcBlockIo.c` 303): a busy card
  is given commands, and one that answers at the last poll is refused.
* The range check wraps (`MmcBlockIo.c` 264): `WithinDevice` excludes requests
  whose end does not fit in an `EFI_LBA`.
* The timer is armed before Start calls the callback itself (`Mmc.c` 302). A tick
  may fall anywhere in Start. One that sees a change where Start has still to write
  one of the two flags, `Initialized` (299, 368) or `MediaPresent` (367, and again
  when the card's data are set), turns both and Start then turns one back: the
  two stay apart, and until the next change that is seen the clients may be told of a
  card that has gone, for ever if none comes. The history `torn` marks those ticks
  (`Tearing`), and `MediaAgrees` and `PresenceFollowed` are stated of the rest: a tick
  before Start's test or between the test and the first assignment does no such harm.
* The host is set to four lines after ACMD6 whether or not the card has four
  (`MmcIdentification.c` 441-452): an SD card with one line is reported as identified
  and left at one. `OneLineLeftBehind` names it in `SuccessIsTransfer`.
* An error that the controller raises after the driver's last look at the status
  (`DwEmmcDxe.c` 579-583) is cleared by the next command and reported to nobody.
  `SuccessIsComplete` speaks of the step in which a transfer returns.
* Reset on an empty slot clears the media but not `Initialized`
  (`MmcBlockIo.c` 82-88): the history variable `wiped`.
* `MediaId` is looked at once per request (`MmcBlockIo.c` 246):
  the history field `interrupted`.
* `UartWrite` tests the FIFO and then writes (`UartLib.c` 356): a handler that
  writes in between can fill the FIFO, and the character is lost;
  `AloneNothingLost` is stated of calls that do not overlap. A write while the
  divisor latch is open goes to the divisor.
* `UartInitializePort` clears the word length only (`UartLib.c` 183): parity and
  stop bits of an earlier setting stay, unless the reset clears them, which the
  model leaves open. It takes a parity of 1 for "on" and a stop value of 1 for
  more than one bit (203-224).
* A newline reads `intstate` before any assignment (`FrameBufferSerialPortLib.c`
  125, 182): TRUE enables interrupts inside a call. The history `accident`.
* Between the two assignments of a newline (168-169) the column is still the old one,
  and a handler that writes there draws from it.
* `InMemorySerialPortLib.c` stores the incremented offset before it wraps it (50-52):
  a handler that logs a character in between stores it behind the area. The model
  has both steps; the log is compared for calls that do not overlap.
* A space that fills the last place of the screen clears it (162-177).
* `rk3399_configure_cpu` gives masks without their shift (`CRULib.c` 188-190):
  stale bits stay in the dividers. The parent of a cluster can likewise not be taken
  back to 0. The write of register 25 has no mask for the HCLK divider (697).
* The dividers of a cluster are quotients rounded down, and the assertions take the
  nominal rates (27-29) for the least a bus may run at, not the most: 816 MHz gives a
  bus of 408 MHz and 1700 MHz one of 340 MHz where 300 MHz is nominal.
  `CpuBusesNearNominal` says that a bus is above its nominal rate by less than one
  part in its divider, and that stale bits only slow it down.
* `pll_para_config` accepts pixel rates up to 3200 MHz (748), but reckons with a
  reference of whole kHz, rounded down, and above 3198 MHz may take a pair whose real
  VCO is out of range: for 3199884 kHz, refdiv 21 and fbdiv 2802, 3202285 kHz, and the
  assertion at 512 fails. Some other rates from 3198031 kHz up do the same.
  `Overshoots` marks the rates above 3198 MHz, after which `AssertionsHold` claims
  nothing.
* The PWM divider of a VOP is shifted by its mask (`CRULib.c` 880) and is 0.
* Raising a CPU frequency changes the PLL before the dividers of its buses (572):
  the limits hold at rest, not in between.
* Both VOPs use the VPLL: the second rate replaces the first.
* 32-bit Arm: a region shorter than a section that crosses into the next section
  is mapped only up to the boundary (`Arm/ArmMmuLibCore.c` 294-305): `LostTail`.
  The test that the first level table is in write-back memory looks at the regions
  given and not at what was mapped of them, so a table that lies in such a tail
  passes it and is not mapped when the MMU goes on: `Forgotten`, which the proof of
  `ArmOnWithTheMapTold` found.
  An entry of 0 in a page table gets attributes but no address (591):
  `misdirected`. The refinement of `MemoryMap` is stated with both exceptions.
* 32-bit Arm: when no page table can be allocated, `FillTranslationTable` does not
  look at the result (168, 192) and the table goes to address 0: `at = "undefined"`,
  where the model ends.
* 32-bit Arm: a whole section over a page table overwrites it (287): `replaced`.
* A RELEASE build that cannot register the boot manager menu binds the setup key
  to a `BootOption` nothing has set (`PlatformBm.c` 459-467), and a key bound that
  way stays: the keys with `sure = FALSE`.
* `AddOutput` skips ErrOut when ConOut fails: `Excused`.
* An error of the controller with the FIFO full leaves the write loop polling for
  room that never comes: `Wedged`.
* Stop closes the host protocol for a wrong agent (`Mmc.c` 333): `bound` stays.

The only host in this repository always reports a card, so the removal cases
concern `MmcDxe` with a host that detects cards.

## 4. Fairness

Safety is checked without fairness. Liveness assumes only that called code goes
on:

* `Keypad`: the core dispatches a signalled event and runs the handler (weak
  fairness); a callback returns and finishes a read it has begun (strong
  fairness, since clients and the timer interrupt it). Typing stops because it
  is bounded; nothing is assumed of clients, and `NotifyDrains` leaves out
  callbacks that register for ever.
* `MmcBlockIo` with `MmcDiagnostics`, `PageTable`, `ArmPageTable`: weak fairness
  of the code's own steps; the loops wait for nothing else.
* `PlatformBoot`: weak fairness of the stages of a boot. Nobody has to press a
  key, to reset the platform or to switch it on.
* `MmcCards`: weak fairness of the periodic timer and of Start's steps.
* `MmcIdentification`: also of the card finishing what it has begun, since the
  polls of `EmmcGetDeviceState` have no bound.
* `DwEmmc`: weak fairness of the driver, of the card taking the words of a write
  that has raised no error, and of the card going from busy to idle, which is what
  the unbounded polls for DATA_BUSY and DTO wait for. A read ends whatever the card
  sends. Nothing is assumed of the card's answer to a clock update, and nothing is
  claimed of its end.
* `Cru`: none. Its spin on a lock bit has no bound (`CRULib.c` 537), so that its
  functions return exactly if the PLLs lock, and nothing is claimed of that.
* `DebugPort`: weak fairness of the running call and of the line that takes what
  the UART sends. Reads wait for the other end and nothing is claimed of them.

## 5. Proofs

All constants are arbitrary under the assumptions named in the modules, and each
assumption is a fact of the code: the sizes of the rings, FIFOs and registers are
positive, an `EFI_LBA` is wider than the blocks the diagnostics use
(`DiagnosticsAssumption`), a region that `ArmConfigureMmu` is given replaces all the
bits of its entries (`MapAssumption`; only the attribute changes keep some), no
region given to the AArch64 build goes past what its root table covers
(`RangeAssumption`: the root is sized for every physical address, and nobody maps
what is none; the code does not check it), the first level table is below 4 GB and
write-back memory has attribute bits (`WriteBackAssumption`), a page without a translation is told from one with (`UnmappedAssumption`), a rate is a whole number of kHz and not 0, that of a bus
at most that of the GPLL it is divided from (`RateAssumption`; nothing is assumed of how
high a pixel rate is), and the screen is one of the configured heights
(`ScreenAssumption`: at most half a line is left below the last whole one; with
more, a newline that interrupts a newline can leave its cursor on a line that is
only partly on the screen, which the proof of `ConsoleShown` found).

* `KeyRingProofs`: `RingTypeOK`, then `RingImplementsFifo`: with `Contents`, the
  sequence read from head to tail modulo the ring size, as the mapping, each
  step of the ring is a step of `KeyFifo`. The lemmas say what pop and push do
  to `Contents` when the ring wraps.
* `KeypadProofs`: `KeypadTypeOK` and `KeypadNoLostWakeup` (the strengthening is
  the handler's own state: only an empty pop leaves the loop, and a push always
  signals); `KeypadHandlerLinkLive` for callbacks that do not unregister
  themselves, from the uniqueness of handles in the list;
  `KeypadEveryFunctionHears`, from the same uniqueness: those that wait for the key in
  hand are the matching nodes from the link on, or behind it while its function
  runs; a node that is registered goes to the end and so is still ahead, and one that
  is removed takes its place with it. `KeypadPromiseKept`: the key a poll
  pushes is itself a key with a value unless it is partial, a partial key drops a key
  only if the queue is full, which `crowded` records, and what a waiter leaves in the
  queue is headed by a key with a value. `BindingHandlersSafe` and
  `BindingNothingLeaked`: what is held is a function of the place in the list of
  steps alone, so the invariant is that the steps still to do are the rest of
  one of the three lists, with what the earlier ones acquired or the later ones
  release, and that no client is registered before the protocols are there.
* `MmcCardsProofs`: `CardsTypeOK`; `CardsMediaAgrees`, with ticks at every
  label of Start, strengthened by what the flags are at each of them: they differ
  between the two assignments, and `torn` marks a change seen where one is pending;
  `CardsNamedMediaOnly`, strengthened by "the card selected is the one described"
  and "a request not interrupted names it". The last rests on Start running once
  because Stop never gives the host back. `IdentSuccessIsTransfer` and
  `IdentGoodCardIdentified`: the invariant says at each label which kinds of card can
  be there, in which state the card is, what the host has been told, how wide the bus
  is on each side and whether CMD55 was the command before; where no call fails, also
  which labels an eMMC card never reaches. A lemma says what a command that is sent
  leads to, and there is one case for each row of the table. Without SetIos the host
  cannot be told of a wider bus, so the equal widths are claimed only with it; and the
  SD card with one line is the one card for which they are not (`OneLineLeftBehind`).
* `MmcBlockIoProofs`: `RequestPiecesInOrder`, `RequestWithinDevice`,
  `RequestReadyForNext`, for every size of a block, a buffer, an `EFI_LBA` and a
  device. The property speaks of the blocks asked so far; the strengthening says
  where the next piece starts: after those blocks, in the buffer and on the media,
  with what is left in bytes. Four lemmas on quotients and remainders carry the
  arithmetic, since the solver does not multiply two unknowns. The same three
  hold of the diagnostics (`DiagnosticsRequests`), where a request follows a
  request; and `DiagnosticsRestore` follows from what the buffers and the blocks
  hold at each place of a test: the block was saved before it was overwritten, the
  saved copy is the old content until it is written back, no other block has
  changed, and a request that did what it reported has moved every block.
* `DwEmmcProofs`: `TransferOnlyNewWords` and `TransferSuccessIsComplete` (a property of the step that
  returns, since an error may still come after it),
  strengthened by "from the command on the FIFO holds words of this transfer" (the
  reset before it empties the FIFO) and "the words a receiver has and those still
  to move add up to the transfer". `ClockIsChangedSafely`: the clock is off from
  the stop to the update that starts it unless an update was refused; the divider
  chosen is the smallest that is slow enough, which exists because the numbers are
  well founded.
* `ArmMmuProofs`: `TablesAreKept` for AArch64, `PageTablesAreKept` for 32-bit Arm,
  and `NoBuildLosesTables` for both, for tables of any size, any memory maps and
  calls, and any failing allocations. AArch64: `UpdateRegionMapping` looks for a
  table in the way only above level 3, so nothing may point to a table from there;
  the strengthening gives each table a level, one more than that of the table that
  points to it, and keeps the walk at its table's level and above the level of the
  block that fits. Arm: an entry that is a table points to one that was allocated,
  the rest of a region ends below 4 GB, and what is left when the pages are done is
  whole sections.
  `ArmKeepsPromise`: the 32-bit build implements `MemoryMap`, the lost tails and the
  misdirected pages excepted as in `Arm!Left` and `Arm!Mapping`. The invariant adds
  that the walk of every page that is not misdirected ends at a fault or at a block
  for that very page, that a page table is full of entries, that nothing is
  misdirected before the MMU is on, and where a chunk begins and ends: at a section
  while sections are written. From it each entry written is a `Change` of the pages
  it serves and of no other (`NoTableLost` is what makes a page table serve one
  section), a section turned into a page table of equal entries is a stutter, the
  beginning of a region is a `Call`, and its end a `Succeed` or a `Fail`.
  `PromiseIsKept`: the AArch64 build implements `MemoryMap`. The walk of a page is
  bounded by the levels and goes down tables whose place in the address space no
  entry names, so the invariant (`Tree`) numbers the blocks: each table stands for a
  numbered block of its parent's level, and an entry that is no table maps its own
  block or nothing. Every table has a parent (`NoTableLost`), hence the walk of a page
  goes through each table whose block contains it, and ends at one entry. The place of
  `UpdateRegionMapping` is the table that the start of what is left goes through, and
  what is left is aligned to the level looked for. Then `Fill` is a `Change` of the
  pages of one block, and `Allocate`, which replaces a block by a table of entries
  that map the same, is a stutter. `BothBuildsKeepPromise` puts the two builds
  together.
  `OnWithTheMapTold`, `ArmOnWithTheMapTold` and `BothGoOnAsTold` follow from the
  refinement: at any time before the MMU is on, a page is as the last region begun
  that contains it says, those the region in progress has still to change excepted,
  which are as the ones before it say; and `ArmEnableMmu` comes after the last region.
* `BoardProofs`: `BootInvariant`, then `BootConsolesFollow` and
  `BootOptionsFollow`, for any handles, options, boots, resets, failed writes and
  deletions. Each stage of BeforeConsole adds its devices and none takes one away,
  so the invariant says of each stage what is listed by now; and the number that
  `GetMenuForKey` set is the menu's until `AddKeyOption` has used it, since nothing
  runs in between. `ClockFeedsOnlyLocked`: each function of `CRULib` is a program in
  which an access to a PLL follows the one before it on the same PLL, from slow mode
  to the lock; programs may follow one another, and the first access still to be made
  finds its PLL in slow mode, or locked, as the one before it has left it.
  The other properties of `Cru` speak of the system at rest, when `todo` is empty,
  and of fields that several functions write. For each field or PLL the invariant
  (`WillHold`, `WillBeSet`, `WillRun`) has two cases: what is still to be done gives
  it its value and does not touch it afterwards, or it has its value and nothing
  still to be done touches it. Each access keeps that, each function is shown once
  to give what it gives and to leave the rest alone, and at rest only the second case
  is left. `ClockSettingsKept` needs that each of HDCP and VIO writes its own mask
  of registers 42 and 43; `ClockDividersRight` needs only that enough bits of a
  divider are one, since stale bits, which the masks of the code leave, make a divider
  larger and a bus slower, and that no assertion still to be met fails unless a rate
  was asked that the unit cannot give or one above 3198 MHz. Of the assertion on the
  VCO this is the error of the search again: it is less than what is left up to
  3200 MHz.
  `BestFound` is about the numbers alone. Of the multiples of a reference frequency
  the search takes the nearest to the VCO, which is one of the two around it, and the
  best of the references 1 to r is kept from r to r + 1 (a least counterexample would
  have a predecessor). Where the nearest multiple is out of reach of the feedback
  divider, the reference divider before or a much finer one does at least as well.
  `ClockRatesRight` adds that a pixel clock of any rate the code accepts is within
  4 MHz, overshooting ones included: by the
  code's reckoning the best pair is off by 600 kHz at most, as the reference divider 20
  has one that is, and the truncation of the reference adds less than 1 kHz for each
  of the 3199 times at most that it is multiplied.
* `DebugPortProofs`: one invariant for the three libraries. Console
  (`ConsoleShown`, `InterruptsGivenBack`): until the accident of an interrupted
  newline, interrupts are disabled inside a call, so there is one call at most, the
  colours are its own and the saved state is the one to restore. Whatever
  interrupts, the cursor moves down by whole lines, and on the last line of the page
  is only a call whose newline is still to be checked, or one that interrupted it
  there and has not yet ended a line. Memory (`LogKeepsTail`): the place of the k-th last character is
  the offset less k, modulo the size, also while the offset is still to be wrapped,
  and two of the last `size` places differ. UART
  (`UartLosesNothing`, `UartSettings`): a call that runs alone finds the FIFO as it
  tested it, opens the divisor latch only inside `UartInitializePort`, and closes it
  on every path; each label of the initialisation says which registers are set by now.

Model-checked only, with the reason:

* liveness and anything under fairness: out of the prover's reach.

Every invariant and every action property that a passing run checks is a theorem. Recursion over data is met
in one place, the search of `pll_para_config`: it is a recursive function on 0 .. 62,
and the proof takes the least argument at which it would go wrong, so that no
induction rule over an operator is needed.

## 6. Not modelled

* MMU: TLB and cache maintenance (break-before-make of live entries included), the
  TCR, shareability; for 32-bit Arm also domains and the NS bit. A call with no
  length, which both builds answer before they touch a table.
* `MemoryInitPeiLib` and the device memory map: one loop without a branch over a
  constant table; the call it ends in is modelled. `Rk3399Lib`, `sdm845Lib` and
  `Rk3399Mem.c`: constants, the last not called.
* MMC: the decoding of CSD and ECSD fields, debug printing, component names.
* Host controller: the encoding of the command register, the PHY.
* Debug ports: the pixels of a glyph.
* Boot manager: what `UefiBootManagerLib`, BDS and the variable driver do inside
  (`PlatformBoot` has what `PlatformBm.c` relies on); the logo and the text shown
  while waiting, which change no state. `sdm845Pkg.dsc` names this library (59)
  after the one of ArmPkg (28), and runs the variable driver in its emulated mode
  (138); `persistent` has both values, so that the properties do not depend on it.
* SMBIOS and ACPI tables, `SimpleFbDxe`, `VirtualRealTimeClockLib` (a counter read),
  the entry points that install one protocol, and stubs: no state or no decision.

`PROJECT.json` gives the reason for each.

## 7. Plan

Done in this order: keypad (queue, protocols, binding), MMC (requests,
detection, identification, host), address map, clocks, debug ports; then the
32-bit MMU as a second refinement of `MemoryMap`, the diagnostics over the
requests, the boot manager, writes of the host controller to their end, and the
proofs of requests, host, boot manager and translation tables; then those of the
driver binding, the diagnostics, the PLLs, the debug ports, the identification of
cards and the refinement of `MemoryMap` by both MMUs; and last those of the clock
dividers, the shared registers and the search for the rate of a pixel clock. Next:

1. An abstract specification of the debug port (the last lines written) that the
   console and the log implement.
2. The data rate of the eMMC bus, and the decoding of CSD and ECSD.
