----------------------------- MODULE PlatformBoot -----------------------------
(***************************************************************************)
(* PlatformBootManagerLib: what the platform does at each boot to the      *)
(* consoles, boot options and setup key that BDS works from, and what it   *)
(* does when nothing boots.  All of it is kept in variables, so what a     *)
(* boot finds is what the boots before it left: a reset may come between   *)
(* any two writes, a write may fail, and whoever runs after the boot (an   *)
(* operating system, the boot manager menu) may delete what it likes.      *)
(*                                                                         *)
(* UefiBootManagerLib, the variable driver and BDS are not in the          *)
(* repository and are modelled by what PlatformBm.c relies on.  The logo,  *)
(* the ESRT, capsules and connecting drivers touch none of this state.     *)
(***************************************************************************)
EXTENDS Naturals, FiniteSets

CONSTANTS
  Graphics,    \* handles with a graphics output, and
  Keypads,     \* with a keypad
  Pathless,    \* those of them that have no device path
  MaxNumber,   \* bound: options are Boot0000 .. Boot<MaxNumber>
  MaxFailures, \* bound: writes that fail in one boot
  MaxPresses   \* bound: keys pressed while the platform waits for one

ASSUME BootAssumption ==
  /\ Pathless \subseteq Graphics \cup Keypads
  /\ Graphics \cap Keypads = {}
  /\ {MaxNumber, MaxFailures, MaxPresses} \subseteq Nat
  /\ MaxNumber >= 2

Numbers == 0 .. MaxNumber

Variables == {"ConIn", "ConOut", "ErrOut"}

NoKey == [number |-> 0, kind |-> "none", sure |-> TRUE]

VARIABLES
  con,        \* the devices each console variable lists
  options,    \* what each boot option starts, "none" where there is no option
  key,        \* the option that Enter starts, and what it was when bound
  build,      \* "DEBUG": an ASSERT stops the platform
  persistent, \* does the variable store outlive a reset?
  at,         \* where the boot is
  present,    \* the handles BeforeConsole finds
  remaining,  \* those FilterAndProcess has still to process
  handle,     \* the one AddOutput is adding
  number,     \* BootOption.OptionNumber, and whether it has been set
  sure,
  failed,     \* the writes that failed before EndOfDxe, and after it
  keys,       \* keys waiting to be read
  presses     \* keys pressed in this boot

stored == <<con, options, key>>
platform == <<build, persistent>>
handles == <<present, remaining, handle>>
option == <<number, sure>>
input == <<keys, presses>>
bootVars == <<con, options, key, build, persistent, at, present, remaining, handle, number,
          sure, failed, keys, presses>>

Empty == [con |-> [v \in Variables |-> {}], options |-> [n \in Numbers |-> "none"]]

BootInit ==
  /\ con = Empty.con /\ options = Empty.options /\ key = NoKey
  /\ build \in {"DEBUG", "RELEASE"} /\ persistent \in BOOLEAN
  /\ at = "off" /\ present = {} /\ remaining = {} /\ handle = "none"
  /\ number = 0 /\ sure = TRUE /\ failed = {} /\ keys = 0 /\ presses = 0

Boot ==
  /\ at = "off" /\ at' = "graphics"
  /\ present' \in SUBSET (Graphics \cup Keypads)
  /\ remaining' = present' \cap Graphics
  /\ UNCHANGED <<stored, platform, handle, option, failed, input>>

\* A write may fail: the variable then keeps what it had.
Fails(write) ==
  /\ Cardinality(failed) < MaxFailures
  /\ failed' = failed \cup {write}

\* What a failed ASSERT leads to: DEBUG builds stop, RELEASE builds go on.
Asserted(next) == at' = IF build = "DEBUG" THEN "stopped" ELSE next

(***************************************************************************)
(* The consoles.                                                           *)
(***************************************************************************)

\* EfiBootManagerUpdateConsoleVariable appends a path the variable does not list.
UpdateConsoleVariable(variable, device) ==
  /\ \/ /\ con' = [con EXCEPT ![variable] = @ \cup {device}]
        /\ UNCHANGED failed
     \/ Fails(<<variable, device>>) /\ UNCHANGED con
  /\ UNCHANGED <<options, key, platform, option, input>>

\* Mistake: a handle that cannot be added ends the loop.
StopAtPathless(h) == IF h \in Pathless THEN {} ELSE remaining \ {h}

\* FilterAndProcess goes on, whatever has come of the handle.
Rest(h) == remaining \ {h}

SkipPathless ==
  /\ at \in {"graphics", "keypads"}
  /\ \E h \in remaining \cap Pathless : remaining' = Rest(h)
  /\ UNCHANGED <<stored, platform, at, present, handle, option, failed, input>>

AddOutput ==
  /\ at = "graphics"
  /\ \E h \in remaining \ Pathless :
       /\ UpdateConsoleVariable("ConOut", h)
       /\ remaining' = Rest(h)
       /\ IF failed' = failed THEN at' = "errOut" /\ handle' = h
          ELSE UNCHANGED <<at, handle>>
  /\ UNCHANGED present

AddOutputToErrOut ==
  /\ at = "errOut" /\ at' = "graphics"
  /\ UpdateConsoleVariable("ErrOut", handle)
  /\ handle' = "none"
  /\ UNCHANGED <<present, remaining>>

AddInput ==
  /\ at = "keypads"
  /\ \E h \in remaining \ Pathless : UpdateConsoleVariable("ConIn", h) /\ remaining' = Rest(h)
  /\ UNCHANGED <<at, present, handle>>

Processed ==
  /\ remaining = {}
  /\ \/ at = "graphics" /\ at' = "usb"
     \/ at = "keypads" /\ at' = "menu"
  /\ UNCHANGED <<stored, platform, handles, option, failed, input>>

\* The devices that every boot lists: where, which, and what comes next.  Their
\* status is not looked at.
Hardcoded ==
  [usb |-> [variable |-> "ConIn", device |-> "usbKeyboard", next |-> "keypads"],
   serialIn |-> [variable |-> "ConIn", device |-> "serial", next |-> "serialOut"],
   serialOut |-> [variable |-> "ConOut", device |-> "serial", next |-> "serialErr"],
   serialErr |-> [variable |-> "ErrOut", device |-> "serial", next |-> "endOfDxe"]]

AddHardcoded ==
  /\ at \in DOMAIN Hardcoded /\ at' = Hardcoded[at].next
  /\ UpdateConsoleVariable(Hardcoded[at].variable, Hardcoded[at].device)
  /\ remaining' = IF at = "usb" THEN present \cap Keypads ELSE {}
  /\ UNCHANGED <<present, handle>>

(***************************************************************************)
(* The boot options and the setup key.                                     *)
(***************************************************************************)

Holding(kind) == {n \in Numbers : options[n] = kind}

\* EfiBootManagerAddLoadOptionVariable with MAX_UINTN: the first free number.
AddLoadOption(kind) ==
  \E n \in Holding("none") :
    /\ \A m \in Holding("none") : n <= m
    /\ options' = [options EXCEPT ![n] = kind]

\* Mistake: the first option there is.
FirstOption == {n \in Numbers \ Holding("none") :
                  \A m \in Numbers \ Holding("none") : n <= m}

\* EfiBootManagerGetBootManagerMenu finds the menu's option or registers it.
MenuNumber == Holding("menu")

MenuFound == Holding("menu") # {} /\ UNCHANGED <<options, failed>>

MenuRegistered == Holding("menu") = {} /\ AddLoadOption("menu") /\ UNCHANGED failed

NoMenu == Holding("menu") = {} /\ Fails(<<"Boot", "menu">>) /\ UNCHANGED options

\* PlatformRegisterSetupKey up to the menu's option.  Without one, a RELEASE build
\* goes on with a BootOption that nothing has set.
GetMenuForKey ==
  /\ at = "menu"
  /\ \/ MenuFound /\ number' \in MenuNumber
        /\ sure' = TRUE /\ at' = "setupKey"
     \/ MenuRegistered /\ number' \in MenuNumber'
        /\ sure' = TRUE /\ at' = "setupKey"
     \/ NoMenu /\ number' \in Numbers /\ sure' = FALSE /\ Asserted("setupKey")
  /\ UNCHANGED <<con, key, platform, handles, input>>

\* A key option is ignored once its boot option is not the one it was bound to.
Bound == key # NoKey /\ options[key.number] = key.kind

\* The rest of it: EfiBootManagerAddKeyOptionVariable.
AddKeyOption ==
  /\ at = "setupKey"
  /\ \/ options[number] = "none" /\ Asserted("serialIn") /\ UNCHANGED <<key, failed>>
     \/ /\ options[number] # "none" /\ Bound
        /\ at' = "serialIn" /\ UNCHANGED <<key, failed>>
     \/ /\ options[number] # "none" /\ ~Bound
        /\ key' = [number |-> number, kind |-> options[number], sure |-> sure]
        /\ at' = "serialIn" /\ UNCHANGED failed
     \/ /\ options[number] # "none" /\ ~Bound
        /\ Fails(<<"Key", "enter">>) /\ Asserted("serialIn") /\ UNCHANGED key
  /\ number' = 0 /\ sure' = TRUE
  /\ UNCHANGED <<con, options, platform, handles, input>>

\* PlatformBootManagerAfterConsole: RefreshAllBootOption adds the options of what
\* can be booted from and deletes those of what has gone.
RefreshAllBootOption ==
  /\ at = "endOfDxe" /\ at' = "shell" /\ present' = {} /\ failed' = {}
  /\ \/ Holding("disk") = {} /\ AddLoadOption("disk")
     \/ options' = [n \in Numbers |-> IF options[n] = "disk" THEN "none" ELSE options[n]]
     \/ UNCHANGED options
  /\ UNCHANGED <<con, key, platform, remaining, handle, option, input>>

\* PlatformRegisterOptionsAndKeys: OptionIndex = -1 when it is not found.
NotFound(kind) == Holding(kind) = {}

RegisterShell ==
  /\ at = "shell"
  /\ \/ ~NotFound("shell") /\ at' = "booting" /\ UNCHANGED <<options, failed>>
     \/ /\ NotFound("shell") /\ AddLoadOption("shell")
        /\ at' = "booting" /\ UNCHANGED failed
     \/ /\ NotFound("shell") /\ Fails(<<"Boot", "shell">>)
        /\ Asserted("booting") /\ UNCHANGED options
  /\ UNCHANGED <<con, key, platform, handles, option, input>>

(***************************************************************************)
(* When nothing boots.                                                     *)
(***************************************************************************)

Booted == /\ at = "booting" /\ at' \in {"running", "unable"}
          /\ UNCHANGED <<stored, platform, handles, option, failed, input>>

\* PlatformBootManagerUnableToBoot: with no menu it returns; with no console to read
\* from it does not wait.
UnableToBoot ==
  /\ at = "unable"
  /\ \/ (MenuFound \/ MenuRegistered) /\ at' \in {"waiting", "application"}
     \/ NoMenu /\ at' = "returned"
  /\ UNCHANGED <<con, key, platform, handles, option, input>>

KeyPressed ==
  /\ at \in {"waiting", "draining"} /\ presses < MaxPresses
  /\ presses' = presses + 1 /\ keys' = keys + 1
  /\ UNCHANGED <<stored, platform, at, handles, option, failed>>

KeySeen == /\ at = "waiting" /\ keys > 0 /\ at' = "draining"
           /\ UNCHANGED <<stored, platform, handles, option, failed, input>>

\* Mistake: the key is looked at, and stays.
KeyLeft == keys

\* ReadKeyStroke takes the key it returns.
KeyTaken == keys - 1

Drain ==
  /\ at = "draining"
  /\ IF keys > 0 THEN keys' = KeyTaken /\ UNCHANGED at
     ELSE at' = "application" /\ UNCHANGED keys
  /\ UNCHANGED <<stored, platform, handles, option, failed, presses>>

(***************************************************************************)
(* The world around a boot.                                                *)
(***************************************************************************)

\* The menu and the operating system may delete a console or an option.
Edited ==
  /\ at \in {"running", "application"}
  /\ \/ \E v \in Variables : \E d \in con[v] :
          con' = [con EXCEPT ![v] = @ \ {d}] /\ UNCHANGED options
     \/ \E n \in Numbers : options[n] # "none" /\ options' = [options EXCEPT ![n] = "none"]
                           /\ UNCHANGED con
  /\ UNCHANGED <<key, platform, at, handles, option, failed, input>>

Reset ==
  /\ at # "off" /\ at' = "off"
  /\ IF persistent THEN UNCHANGED stored
     ELSE con' = Empty.con /\ options' = Empty.options /\ key' = NoKey
  /\ present' = {} /\ remaining' = {} /\ handle' = "none"
  /\ number' = 0 /\ sure' = TRUE /\ failed' = {} /\ keys' = 0 /\ presses' = 0
  /\ UNCHANGED platform

Step == \/ SkipPathless \/ AddOutput \/ AddOutputToErrOut \/ AddInput \/ Processed
        \/ AddHardcoded \/ GetMenuForKey \/ AddKeyOption \/ RefreshAllBootOption
        \/ RegisterShell \/ Booted \/ UnableToBoot \/ KeySeen \/ Drain

BootNext == Boot \/ Step \/ KeyPressed \/ Edited \/ Reset

\* The platform runs on: nobody has to press a key, to reset it or to switch it on.
BootSpec == BootInit /\ [][BootNext]_bootVars /\ WF_bootVars(Step)

(***************************************************************************)
(* Correctness.                                                            *)
(***************************************************************************)

\* What this boot has to list: "add the device path of all handles with GOP on them
\* to ConOut and ErrOut", the keypads and the hardcoded consoles.
Wanted ==
  {Graphics \X {"ConOut", "ErrOut"}, Keypads \X {"ConIn"}}
\* (the pairs are <<device, variable>>)
ToList ==
  {w \in UNION Wanted : w[1] \in present \ Pathless}
    \cup {<<Hardcoded[s].device, Hardcoded[s].variable>> : s \in DOMAIN Hardcoded}

\* The write of a device failed, or that to ConOut did and AddOutput left out ErrOut.
Excused(w) ==
  \/ <<w[2], w[1]>> \in failed
  \/ w[1] \in Graphics /\ w[2] = "ErrOut" /\ <<"ConOut", w[1]>> \in failed

\* Whatever earlier boots wrote, were cut off before writing or had deleted behind
\* their back, when the boot signals EndOfDxe every device it has is in the variables
\* it belongs in, except for its own writes that failed.
ConsolesFollow ==
  at = "endOfDxe" => \A w \in ToList : Excused(w) \/ w[1] \in con[w[2]]

\* Over any number of boots, resets and deletions, the shell and the menu have one
\* option each at most: PlatformRegisterBootOption adds only what is not found.
OptionsOnce == \A kind \in {"menu", "shell"} : \A m, n \in Holding(kind) : m = n

\* Enter never starts anything but the boot manager menu, and starts it in every boot
\* that found the menu and could write the key, even where the option it was bound to
\* before has been deleted or its number reused: "Map Power to Boot Manager Menu".
\* Keys bound with a number that was never set are left out.
SetupKeyOpensMenu ==
  /\ Bound /\ key.sure => key.kind = "menu"
  /\ at = "endOfDxe" => Bound \/ failed \cap {<<"Boot", "menu">>, <<"Key", "enter">>} # {}

\* Both, in every state of every boot.
OptionsFollow == OptionsOnce /\ SetupKeyOpensMenu

\* A boot always gets somewhere: it starts an option, stops at an ASSERT or, when
\* nothing boots, waits for a key, enters the menu or returns to BDS; and a key that
\* is pressed leads on to the menu, unless there is a reset.
BootGetsThrough ==
  /\ (at = "graphics") ~>
       (at \in {"running", "stopped", "waiting", "application", "returned", "off"})
  /\ (keys > 0) ~> (at \in {"application", "off"})
=============================================================================
