----------------------------- MODULE BoardProofs -----------------------------
(***************************************************************************)
(* The two libraries of the board: the boot manager at one end of a boot,  *)
(* the clock unit at the other.                                            *)
(*                                                                         *)
(* What a boot leaves in the variables, for any handles, any number of     *)
(* options and any number of boots, resets, failed writes and deletions.   *)
(*                                                                         *)
(* The consoles: each stage of BeforeConsole adds its devices and no stage *)
(* takes one away, so the invariant says of each stage which devices are   *)
(* listed by now.  The options: a number that GetMenuForKey has set is the *)
(* menu's until AddKeyOption uses it, as nothing else runs in between.     *)
(*                                                                         *)
(* What CRULib leaves in the registers and the PLLs, for any rates asked   *)
(* for in any order.  A function is a program of accesses, so the          *)
(* invariants say of a field or of a PLL that it is as it should be and    *)
(* what is still to be done leaves it so, or that what is still to be done *)
(* makes it so.                                                            *)
(***************************************************************************)
EXTENDS PlatformBoot, Cru, SequenceTheorems, WellFoundedInduction, TLAPS

Kinds == {"none", "menu", "shell", "disk"}

Devices == Graphics \cup Keypads \cup {"usbKeyboard", "serial"}

\* The stages of BeforeConsole, each with all that follow.
FromSerialErr == {"serialErr", "endOfDxe"}
FromSerialOut == {"serialOut"} \cup FromSerialErr
FromSerialIn == {"serialIn"} \cup FromSerialOut
FromMenu == {"menu", "setupKey"} \cup FromSerialIn
FromKeypads == {"keypads"} \cup FromMenu
FromUsb == {"usb"} \cup FromKeypads
FromGraphics == {"graphics", "errOut"} \cup FromUsb

TypeOK ==
  /\ con \in [Variables -> SUBSET Devices]
  /\ options \in [Numbers -> Kinds]
  /\ key \in [number : Numbers, kind : Kinds, sure : BOOLEAN]
  /\ number \in Numbers /\ sure \in BOOLEAN
  /\ present \subseteq Graphics \cup Keypads /\ remaining \subseteq present
  /\ at = "errOut" => handle \in Graphics

Listed(device, variable) ==
  \/ device \in con[variable]
  \/ <<variable, device>> \in failed

\* The second write of AddOutput is made unless the first one failed.
OutputListed(g) ==
  \/ Listed(g, "ErrOut")
  \/ <<"ConOut", g>> \in failed
  \/ at = "errOut" /\ handle = g

ToDo ==
  /\ at \in {"graphics", "errOut"} => remaining \subseteq Graphics
  /\ at = "keypads" => remaining \subseteq Keypads
  /\ at \in {"usb"} \cup FromMenu => remaining = {}

GraphicsListed ==
  at \in FromGraphics =>
    \A g \in (present \cap Graphics) \ Pathless :
      g \notin remaining => Listed(g, "ConOut") /\ OutputListed(g)

KeypadsListed ==
  at \in FromKeypads =>
    \A k \in (present \cap Keypads) \ Pathless : k \notin remaining => Listed(k, "ConIn")

HardcodedListed ==
  /\ at \in FromKeypads => Listed("usbKeyboard", "ConIn")
  /\ at \in FromSerialOut => Listed("serial", "ConIn")
  /\ at \in FromSerialErr => Listed("serial", "ConOut")
  /\ at = "endOfDxe" => Listed("serial", "ErrOut")

ConsolesListed == ToDo /\ GraphicsListed /\ KeypadsListed /\ HardcodedListed

\* The number is the menu's, or GetMenuForKey has failed; then the key is bound.
KeyFollows ==
  /\ at = "setupKey" => \/ sure /\ options[number] = "menu"
                        \/ ~sure /\ <<"Boot", "menu">> \in failed
  /\ at \in FromSerialIn =>
       Bound \/ failed \cap {<<"Boot", "menu">>, <<"Key", "enter">>} # {}
  /\ key # NoKey /\ key.sure => key.kind = "menu"

IInv == TypeOK /\ ConsolesListed /\ OptionsOnce /\ KeyFollows

(***************************************************************************)
(* Types.                                                                  *)
(***************************************************************************)
\* A write of a console variable adds the device, or is known to have failed; it
\* takes nothing away.
LEMMA UpdateAdds ==
  ASSUME TypeOK, NEW variable \in Variables, NEW device \in Devices,
         UpdateConsoleVariable(variable, device)
  PROVE  /\ con' \in [Variables -> SUBSET Devices]
         /\ \A v \in Variables : con[v] \subseteq con'[v]
         /\ failed \subseteq failed'
         /\ Listed(device, variable)'
  <1>1. CASE con' = [con EXCEPT ![variable] = @ \cup {device}] /\ UNCHANGED failed
    BY <1>1 DEF TypeOK, Devices, Listed
  <1>2. CASE Fails(<<variable, device>>) /\ UNCHANGED con
    BY <1>2 DEF TypeOK, Devices, Listed, Fails
  <1> QED BY <1>1, <1>2 DEF UpdateConsoleVariable

\* The devices that are hardcoded, and their variables.
LEMMA HardcodedTypes ==
  ASSUME NEW s \in DOMAIN Hardcoded
  PROVE  Hardcoded[s].variable \in Variables /\ Hardcoded[s].device \in Devices
  BY DEF Hardcoded, Variables, Devices

\* An option is added where there was none.
LEMMA AddLoadOptionTyping ==
  ASSUME TypeOK, NEW kind \in Kinds, AddLoadOption(kind)
  PROVE  /\ options' \in [Numbers -> Kinds]
         /\ \E n \in Numbers :
              options[n] = "none" /\ options' = [options EXCEPT ![n] = kind]
  BY DEF TypeOK, AddLoadOption, Holding

\* Every step keeps the types.
LEMMA TypeStep == TypeOK /\ ToDo /\ [BootNext]_bootVars => TypeOK'
  <1> SUFFICES ASSUME TypeOK, ToDo, [BootNext]_bootVars PROVE TypeOK'
    OBVIOUS
  <1> USE DEF stored, platform, handles, option, input
  <1>1. CASE Boot
    BY <1>1 DEF TypeOK, Boot
  <1>2. CASE SkipPathless
    BY <1>2 DEF TypeOK, SkipPathless, Rest
  <1>3. CASE AddOutput
    <2>1. PICK h \in remaining \ Pathless : UpdateConsoleVariable("ConOut", h) /\ remaining' = Rest(h)
                                       /\ (at' = "errOut" => handle' = h \/ at = "errOut")
      BY <1>3 DEF AddOutput
    <2>2. h \in Devices /\ h \in Graphics /\ "ConOut" \in Variables
      BY <1>3, <2>1 DEF TypeOK, ToDo, AddOutput, Devices, Variables
    <2>3. con' \in [Variables -> SUBSET Devices]
      BY <2>1, <2>2, UpdateAdds
    <2> QED BY <1>3, <2>1, <2>2, <2>3
            DEF TypeOK, AddOutput, Rest, UpdateConsoleVariable, Devices
  <1>4. CASE AddOutputToErrOut
    <2>1. handle \in Devices /\ "ErrOut" \in Variables
      BY <1>4 DEF TypeOK, AddOutputToErrOut, Devices, Variables
    <2>2. con' \in [Variables -> SUBSET Devices]
      BY <1>4, <2>1, UpdateAdds DEF AddOutputToErrOut
    <2> QED BY <1>4, <2>2 DEF TypeOK, AddOutputToErrOut, UpdateConsoleVariable, Devices
  <1>5. CASE AddInput
    <2>1. PICK h \in remaining \ Pathless : UpdateConsoleVariable("ConIn", h) /\ remaining' = Rest(h)
      BY <1>5 DEF AddInput
    <2>2. h \in Devices /\ "ConIn" \in Variables
      BY <2>1 DEF TypeOK, Devices, Variables
    <2>3. con' \in [Variables -> SUBSET Devices]
      BY <2>1, <2>2, UpdateAdds
    <2> QED BY <1>5, <2>1, <2>3 DEF TypeOK, AddInput, Rest, UpdateConsoleVariable, Devices
  <1>6. CASE Processed
    BY <1>6 DEF TypeOK, Processed
  <1>7. CASE AddHardcoded
    <2>1. con' \in [Variables -> SUBSET Devices]
      BY <1>7, HardcodedTypes, UpdateAdds DEF AddHardcoded
    <2>2. at' # "errOut"
      BY <1>7 DEF AddHardcoded, Hardcoded
    <2> QED BY <1>7, <2>1, <2>2 DEF TypeOK, AddHardcoded, UpdateConsoleVariable, Devices
  <1>8. CASE GetMenuForKey
    <2>1. options' \in [Numbers -> Kinds]
      BY <1>8, AddLoadOptionTyping
      DEF TypeOK, GetMenuForKey, MenuFound, MenuRegistered, NoMenu, Kinds
    <2>2. number' \in Numbers /\ sure' \in BOOLEAN /\ at' # "errOut"
      BY <1>8 DEF GetMenuForKey, MenuNumber, Holding, Asserted
    <2> QED BY <1>8, <2>1, <2>2 DEF TypeOK, GetMenuForKey
  <1>9. CASE AddKeyOption
    <2>1. key' \in [number : Numbers, kind : Kinds, sure : BOOLEAN] /\ at' # "errOut"
      BY <1>9 DEF TypeOK, AddKeyOption, Asserted
    <2>2. 0 \in Numbers
      BY BootAssumption DEF Numbers
    <2> QED BY <1>9, <2>1, <2>2 DEF TypeOK, AddKeyOption
  <1>10. CASE RefreshAllBootOption
    <2>1. options' \in [Numbers -> Kinds]
      BY <1>10, AddLoadOptionTyping DEF TypeOK, RefreshAllBootOption, Kinds
    <2> QED BY <1>10, <2>1 DEF TypeOK, RefreshAllBootOption, ToDo, FromMenu, FromSerialIn,
                               FromSerialOut, FromSerialErr
  <1>11. CASE RegisterShell
    <2>1. options' \in [Numbers -> Kinds]
      BY <1>11, AddLoadOptionTyping DEF TypeOK, RegisterShell, Kinds
    <2> QED BY <1>11, <2>1 DEF TypeOK, RegisterShell, Asserted
  <1>12. CASE Booted
    BY <1>12 DEF TypeOK, Booted
  <1>13. CASE UnableToBoot
    <2>1. options' \in [Numbers -> Kinds]
      BY <1>13, AddLoadOptionTyping
      DEF TypeOK, UnableToBoot, MenuFound, MenuRegistered, NoMenu, Kinds
    <2> QED BY <1>13, <2>1 DEF TypeOK, UnableToBoot
  <1>14. CASE KeySeen \/ Drain \/ KeyPressed
    BY <1>14 DEF TypeOK, KeySeen, Drain, KeyPressed
  <1>15. CASE Edited
    BY <1>15 DEF TypeOK, Edited, Kinds
  <1>16. CASE Reset
    <2>1. 0 \in Numbers
      BY BootAssumption DEF Numbers
    <2>2. CASE UNCHANGED stored
      BY <1>16, <2>1, <2>2 DEF TypeOK, Reset
    <2>3. CASE con' = Empty.con /\ options' = Empty.options /\ key' = NoKey
      <3>1. NoKey \in [number : Numbers, kind : Kinds, sure : BOOLEAN]
        BY <2>1 DEF NoKey, Kinds
      <3>2. Empty.con \in [Variables -> SUBSET Devices] /\ Empty.options \in [Numbers -> Kinds]
        BY DEF Empty, Kinds
      <3> QED BY <1>16, <2>1, <2>3, <3>1, <3>2 DEF TypeOK, Reset, Devices
    <2> QED BY <1>16, <2>2, <2>3 DEF Reset
  <1>17. CASE UNCHANGED bootVars
    BY <1>17 DEF TypeOK, bootVars
  <1> QED BY <1>1, <1>2, <1>3, <1>4, <1>5, <1>6, <1>7, <1>8, <1>9, <1>10, <1>11, <1>12,
             <1>13, <1>14, <1>15, <1>16, <1>17 DEF BootNext, Step

(***************************************************************************)
(* The consoles.                                                           *)
(***************************************************************************)
\* What is listed stays so while variables only grow.
LEMMA ListedStays ==
  ASSUME \A v \in Variables : con[v] \subseteq con'[v], failed \subseteq failed',
         NEW d, NEW v \in Variables, Listed(d, v)
  PROVE  Listed(d, v)'
  BY DEF Listed

\* The stages after EndOfDxe and those of a boot yet to come promise nothing.
LEMMA Elsewhere ==
  ASSUME at' \notin FromGraphics
  PROVE  ConsolesListed'
  BY DEF ConsolesListed, ToDo, GraphicsListed, KeypadsListed, HardcodedListed, FromGraphics,
         FromUsb, FromKeypads, FromMenu, FromSerialIn, FromSerialOut, FromSerialErr

\* Every step keeps what the stages so far have listed.
LEMMA ConsolesStep == TypeOK /\ ConsolesListed /\ [BootNext]_bootVars => ConsolesListed'
  <1> SUFFICES ASSUME TypeOK, ConsolesListed, [BootNext]_bootVars PROVE ConsolesListed'
    OBVIOUS
  <1> USE DEF stored, platform, handles, option, input, ConsolesListed, ToDo,
              GraphicsListed, KeypadsListed, HardcodedListed, OutputListed,
              FromGraphics, FromUsb, FromKeypads, FromMenu, FromSerialIn,
              FromSerialOut, FromSerialErr
  <1>0. "ConIn" \in Variables /\ "ConOut" \in Variables /\ "ErrOut" \in Variables
    BY DEF Variables
  <1>1. CASE Boot
    BY <1>1, BootAssumption DEF Boot
  <1>2. CASE SkipPathless
    BY <1>2 DEF SkipPathless, Rest, Listed, TypeOK
  <1>3. CASE AddOutput
    <2>1. PICK h \in remaining \ Pathless :
            /\ UpdateConsoleVariable("ConOut", h) /\ remaining' = Rest(h)
            /\ IF failed' = failed THEN at' = "errOut" /\ handle' = h
               ELSE UNCHANGED <<at, handle>>
      BY <1>3 DEF AddOutput
    <2>2. h \in Devices /\ h \in Graphics
      BY <1>3, <2>1 DEF TypeOK, AddOutput, Devices
    <2>3. Listed(h, "ConOut")' /\ failed \subseteq failed'
          /\ \A v \in Variables : con[v] \subseteq con'[v]
      BY <1>0, <2>1, <2>2, UpdateAdds
    <2>4. failed' # failed => <<"ConOut", h>> \in failed'
      BY <2>1 DEF UpdateConsoleVariable, Fails
    <2>5. \A g : Listed(g, "ConOut") => Listed(g, "ConOut")'
      BY <1>0, <2>3, ListedStays
    <2>6. \A g : Listed(g, "ErrOut") => Listed(g, "ErrOut")'
      BY <1>0, <2>3, ListedStays
    <2> QED BY <1>3, <2>1, <2>2, <2>3, <2>4, <2>5, <2>6 DEF AddOutput, Rest, TypeOK
  <1>4. CASE AddOutputToErrOut
    <2>1. PICK h \in Devices : h = handle /\ UpdateConsoleVariable("ErrOut", h)
      BY <1>4 DEF TypeOK, AddOutputToErrOut, Devices
    <2>2. Listed(h, "ErrOut")' /\ failed \subseteq failed'
          /\ \A v \in Variables : con[v] \subseteq con'[v]
      BY <1>0, <2>1, UpdateAdds
    <2>3. \A g : /\ Listed(g, "ConOut") => Listed(g, "ConOut")'
                 /\ Listed(g, "ErrOut") => Listed(g, "ErrOut")'
      BY <1>0, <2>2, ListedStays
    <2> QED BY <1>4, <2>1, <2>2, <2>3 DEF AddOutputToErrOut, TypeOK
  <1>5. CASE AddInput
    <2>1. PICK h \in remaining \ Pathless : UpdateConsoleVariable("ConIn", h) /\ remaining' = Rest(h)
      BY <1>5 DEF AddInput
    <2>2. h \in Devices /\ h \in Keypads
      BY <1>5, <2>1 DEF TypeOK, AddInput, Devices
    <2>3. Listed(h, "ConIn")' /\ failed \subseteq failed'
          /\ \A v \in Variables : con[v] \subseteq con'[v]
      BY <1>0, <2>1, <2>2, UpdateAdds
    <2>4. \A g : /\ Listed(g, "ConOut") => Listed(g, "ConOut")'
                 /\ Listed(g, "ErrOut") => Listed(g, "ErrOut")'
                 /\ Listed(g, "ConIn") => Listed(g, "ConIn")'
      BY <1>0, <2>3, ListedStays
    <2>5. \A g \in Graphics : g \notin remaining
      BY <1>5, BootAssumption DEF AddInput, TypeOK
    <2> QED BY <1>5, <2>1, <2>2, <2>3, <2>4, <2>5 DEF AddInput, Rest, TypeOK
  <1>6. CASE Processed
    BY <1>6 DEF Processed, Listed
  <1>7. CASE AddHardcoded
    <2>1. PICK s \in DOMAIN Hardcoded :
            /\ at = s /\ at' = Hardcoded[s].next
            /\ UpdateConsoleVariable(Hardcoded[s].variable, Hardcoded[s].device)
      BY <1>7 DEF AddHardcoded
    <2>2. Listed(Hardcoded[s].device, Hardcoded[s].variable)' /\ failed \subseteq failed'
          /\ \A v \in Variables : con[v] \subseteq con'[v]
      BY <2>1, HardcodedTypes, UpdateAdds
    <2>3. \A g : /\ Listed(g, "ConOut") => Listed(g, "ConOut")'
                 /\ Listed(g, "ErrOut") => Listed(g, "ErrOut")'
                 /\ Listed(g, "ConIn") => Listed(g, "ConIn")'
      BY <1>0, <2>2, ListedStays
    <2>4. CASE s = "usb"
      BY <1>7, <2>1, <2>2, <2>3, <2>4, BootAssumption DEF AddHardcoded, Hardcoded
    <2>5. CASE s = "serialIn"
      BY <1>7, <2>1, <2>2, <2>3, <2>5 DEF AddHardcoded, Hardcoded
    <2>6. CASE s = "serialOut"
      BY <1>7, <2>1, <2>2, <2>3, <2>6 DEF AddHardcoded, Hardcoded
    <2>7. CASE s = "serialErr"
      BY <1>7, <2>1, <2>2, <2>3, <2>7 DEF AddHardcoded, Hardcoded
    <2> QED BY <2>4, <2>5, <2>6, <2>7 DEF Hardcoded
  <1>8. CASE GetMenuForKey
    <2>1. failed \subseteq failed' /\ UNCHANGED <<con, present, remaining, handle>>
          /\ at = "menu" /\ at' \in {"setupKey", "stopped"}
      BY <1>8 DEF GetMenuForKey, MenuFound, MenuRegistered, NoMenu, Fails, Asserted
    <2> QED BY <2>1 DEF Listed
  <1>9. CASE AddKeyOption
    <2>1. failed \subseteq failed' /\ UNCHANGED <<con, present, remaining, handle>>
          /\ at = "setupKey" /\ at' \in {"serialIn", "stopped"}
      BY <1>9 DEF AddKeyOption, Fails, Asserted
    <2> QED BY <2>1 DEF Listed
  <1>10. CASE RefreshAllBootOption \/ RegisterShell \/ Booted \/ UnableToBoot \/ KeySeen
              \/ Drain \/ KeyPressed \/ Edited \/ Reset
    <2>1. at' \notin FromGraphics
      BY <1>10 DEF RefreshAllBootOption, RegisterShell, Booted, UnableToBoot, KeySeen, Drain,
                   KeyPressed, Edited, Reset, Asserted
    <2> QED BY <2>1, Elsewhere
  <1>11. CASE UNCHANGED bootVars
    BY <1>11 DEF bootVars, Listed
  <1> QED BY <1>1, <1>2, <1>3, <1>4, <1>5, <1>6, <1>7, <1>8, <1>9, <1>10, <1>11 DEF BootNext, Step

(***************************************************************************)
(* The options and the setup key.                                          *)
(***************************************************************************)
\* An option that is added is added once, and disturbs no other.
LEMMA AddedOnce ==
  ASSUME TypeOK, OptionsOnce, NEW kind \in Kinds, AddLoadOption(kind),
         kind \in {"menu", "shell"} => Holding(kind) = {}
  PROVE  OptionsOnce'
  <1>1. PICK n \in Numbers : options[n] = "none" /\ options' = [options EXCEPT ![n] = kind]
    BY AddLoadOptionTyping
  <1>2. ASSUME NEW k \in {"menu", "shell"}, k # kind PROVE Holding(k)' \subseteq Holding(k)
    BY <1>1, <1>2 DEF Holding, TypeOK
  <1>3. Holding(kind) = {} => Holding(kind)' \subseteq {n}
    BY <1>1 DEF Holding, TypeOK
  <1> QED BY <1>2, <1>3 DEF OptionsOnce

\* Options that only go leave no kind with two.
LEMMA DeletedOnce ==
  ASSUME OptionsOnce,
         \A n \in Numbers : options'[n] = options[n] \/ options'[n] = "none"
  PROVE  OptionsOnce'
  BY DEF OptionsOnce, Holding

\* Every step keeps one option of a kind at most.
LEMMA OptionsStep == TypeOK /\ OptionsOnce /\ [BootNext]_bootVars => OptionsOnce'
  <1> SUFFICES ASSUME TypeOK, OptionsOnce, [BootNext]_bootVars PROVE OptionsOnce'
    OBVIOUS
  <1>1. CASE UNCHANGED options
    BY <1>1, DeletedOnce
  <1>2. CASE GetMenuForKey \/ UnableToBoot
    <2>1. UNCHANGED options \/ (Holding("menu") = {} /\ AddLoadOption("menu"))
      BY <1>2 DEF GetMenuForKey, UnableToBoot, MenuFound, MenuRegistered, NoMenu
    <2> QED BY <1>1, <2>1, AddedOnce DEF Kinds
  <1>3. CASE RefreshAllBootOption
    <2>1. CASE AddLoadOption("disk")
      BY <2>1, AddedOnce DEF Kinds
    <2>2. CASE options' = [n \in Numbers |-> IF options[n] = "disk" THEN "none" ELSE options[n]]
      BY <2>2, DeletedOnce
    <2> QED BY <1>1, <1>3, <2>1, <2>2 DEF RefreshAllBootOption
  <1>4. CASE RegisterShell
    <2>1. UNCHANGED options \/ (Holding("shell") = {} /\ AddLoadOption("shell"))
      BY <1>4 DEF RegisterShell, NotFound
    <2> QED BY <1>1, <2>1, AddedOnce DEF Kinds
  <1>5. CASE Edited
    BY <1>5, DeletedOnce DEF Edited, TypeOK
  <1>6. CASE Reset
    BY <1>1, <1>6, DeletedOnce DEF Reset, stored, Empty
  <1>7. UNCHANGED options \/ GetMenuForKey \/ UnableToBoot \/ RefreshAllBootOption
        \/ RegisterShell \/ Edited \/ Reset
    BY DEF BootNext, Step, bootVars, stored, Boot, SkipPathless, AddOutput, AddOutputToErrOut, AddInput,
           Processed, AddHardcoded, UpdateConsoleVariable, AddKeyOption, Booted, KeySeen, Drain,
           KeyPressed
  <1> QED BY <1>1, <1>2, <1>3, <1>4, <1>5, <1>6, <1>7

\* Every step keeps the key on the menu.
LEMMA KeyStep == TypeOK /\ KeyFollows /\ [BootNext]_bootVars => KeyFollows'
  <1> SUFFICES ASSUME TypeOK, KeyFollows, [BootNext]_bootVars PROVE KeyFollows'
    OBVIOUS
  <1> USE DEF stored, platform, handles, option, input, KeyFollows, FromSerialIn,
              FromSerialOut, FromSerialErr
  <1>1. CASE GetMenuForKey
    <2>1. CASE at' = "setupKey" /\ sure' /\ number' \in MenuNumber'
      BY <1>1, <2>1 DEF GetMenuForKey, MenuNumber, Holding
    <2>2. CASE NoMenu /\ ~sure' /\ at' \in {"setupKey", "stopped"}
      BY <1>1, <2>2 DEF GetMenuForKey, NoMenu, Fails
    <2>3. MenuFound => MenuNumber' = MenuNumber
      BY DEF MenuFound, MenuNumber, Holding
    <2> QED BY <1>1, <2>1, <2>2, <2>3 DEF GetMenuForKey, Asserted
  <1>2. CASE AddKeyOption
    <2>0. at = "setupKey" /\ at' \in {"serialIn", "stopped"} /\ UNCHANGED options
      BY <1>2 DEF AddKeyOption, Asserted
    <2>1. CASE options[number] = "none" /\ UNCHANGED <<key, failed>>
      BY <2>0, <2>1
    <2>2. CASE Bound /\ UNCHANGED <<key, failed>>
      BY <2>0, <2>2 DEF Bound
    <2>3. CASE options[number] # "none" /\ UNCHANGED failed
               /\ key' = [number |-> number, kind |-> options[number], sure |-> sure]
      <3>1. key' # NoKey
        BY <2>3 DEF NoKey
      <3> QED BY <1>2, <2>3, <3>1 DEF AddKeyOption, Bound
    <2>4. CASE Fails(<<"Key", "enter">>) /\ UNCHANGED key
      BY <2>0, <2>4 DEF Fails
    <2> QED BY <1>2, <2>1, <2>2, <2>3, <2>4 DEF AddKeyOption, Asserted
  <1>3. CASE AddHardcoded
    <2>1. failed \subseteq failed' /\ UNCHANGED <<options, key>> /\ at' # "setupKey"
          /\ (at' \in FromSerialIn => at \in FromSerialIn)
      BY <1>3 DEF AddHardcoded, Hardcoded, UpdateConsoleVariable, Fails
    <2> QED BY <2>1 DEF Bound
  <1>4. CASE Reset
    BY <1>4 DEF Reset, NoKey
  <1>5. CASE Boot \/ SkipPathless \/ AddOutput \/ AddOutputToErrOut \/ AddInput \/ Processed
             \/ RefreshAllBootOption \/ RegisterShell \/ Booted \/ UnableToBoot \/ KeySeen
             \/ Drain \/ KeyPressed \/ Edited
    <2>1. at' \notin {"setupKey"} \cup FromSerialIn /\ key' = key
      BY <1>5 DEF Boot, SkipPathless, AddOutput, AddOutputToErrOut, AddInput, Processed,
                  UpdateConsoleVariable, RefreshAllBootOption, RegisterShell, Booted,
                  UnableToBoot, KeySeen, Drain, KeyPressed, Edited, Asserted
    <2> QED BY <2>1
  <1>6. CASE UNCHANGED bootVars
    BY <1>6 DEF bootVars, Bound
  <1> QED BY <1>1, <1>2, <1>3, <1>4, <1>5, <1>6 DEF BootNext, Step

(***************************************************************************)
(* The theorems.                                                           *)
(***************************************************************************)
\* The invariant holds at first.
LEMMA InitInv == BootInit => IInv
  <1> SUFFICES ASSUME BootInit PROVE IInv
    OBVIOUS
  <1>1. 0 \in Numbers
    BY BootAssumption DEF Numbers
  <1>2. TypeOK
    BY <1>1 DEF BootInit, TypeOK, Empty, NoKey, Kinds
  <1>3. ConsolesListed
    BY DEF BootInit, ConsolesListed, ToDo, GraphicsListed, KeypadsListed, HardcodedListed,
           FromGraphics, FromUsb, FromKeypads, FromMenu, FromSerialIn, FromSerialOut,
           FromSerialErr
  <1>4. OptionsOnce
    BY DEF BootInit, Empty, OptionsOnce, Holding
  <1>5. KeyFollows
    BY DEF BootInit, KeyFollows, FromSerialIn, FromSerialOut, FromSerialErr, NoKey
  <1> QED BY <1>2, <1>3, <1>4, <1>5 DEF IInv

\* Every behaviour keeps the invariant.
THEOREM BootInvariant == BootSpec => []IInv
  <1>1. IInv /\ [BootNext]_bootVars => IInv'
    BY TypeStep, ConsolesStep, OptionsStep, KeyStep DEF IInv, ConsolesListed
  <1> QED BY InitInv, <1>1, PTL DEF BootSpec

\* At EndOfDxe every device of the boot is in its variables but for its own failed
\* writes (PlatformBootManagerBeforeConsole), whatever earlier boots left.
THEOREM BootConsolesFollow == BootSpec => []ConsolesFollow
  <1>1. IInv => ConsolesFollow
    <2> SUFFICES ASSUME IInv, at = "endOfDxe", NEW w \in ToList
                 PROVE  Excused(w) \/ w[1] \in con[w[2]]
      BY DEF ConsolesFollow
    <2> USE DEF IInv, ConsolesListed, ToDo, GraphicsListed, KeypadsListed, HardcodedListed,
                OutputListed, FromGraphics, FromUsb, FromKeypads, FromMenu, FromSerialIn,
                FromSerialOut, FromSerialErr, Listed, Excused
    <2>1. CASE w \in Graphics \X {"ConOut", "ErrOut"} /\ w[1] \in present \ Pathless
      BY <2>1
    <2>2. CASE w \in Keypads \X {"ConIn"} /\ w[1] \in present \ Pathless
      BY <2>2
    <2>3. CASE w \in {<<Hardcoded[s].device, Hardcoded[s].variable>> : s \in DOMAIN Hardcoded}
      BY <2>3 DEF Hardcoded
    <2> QED BY <2>1, <2>2, <2>3 DEF ToList, Wanted
  <1> QED BY BootInvariant, <1>1, PTL

\* The shell and the menu keep one option each, and Enter is bound to the menu
\* (PlatformRegisterBootOption, PlatformRegisterSetupKey).
THEOREM BootOptionsFollow == BootSpec => []OptionsFollow
  <1>1. IInv => OptionsFollow
    BY DEF IInv, OptionsFollow, SetupKeyOpensMenu, KeyFollows, Bound, FromSerialIn,
           FromSerialOut, FromSerialErr
  <1> QED BY BootInvariant, <1>1, PTL

(***************************************************************************)
(* The clock unit: every access to a PLL but the first of rkclk_set_pll    *)
(* follows the one before it, on the same PLL, so that what is still to be *)
(* done never programs a PLL that feeds its consumers.                     *)
(***************************************************************************)
\* The access that comes before each access to a PLL.
Before == [integer |-> "slow", fbdiv |-> "integer", divisors |-> "fbdiv",
           lock |-> "divisors", normal |-> "lock"]

Later == {"integer", "fbdiv", "divisors", "lock", "normal"}

Started == {"ppll", "gpll", "npll", "cpll"}

\* Every set of dividers that a function of CRULib computes.
Dividers ==
  {InitDivisors[p] : p \in Started}
  \cup {apll_cfgs(khz) : khz \in ApllFrequencies}
  \cup {pll_para_config(khz).div : khz \in PixelRates}

PllAccesses == [op : Later \cup {"slow"}, pll : PLLs, div : Dividers]

OtherAccesses ==
  {Assert(holds) : holds \in BOOLEAN}
  \cup {ClrSet(reg, clr, set) : reg \in Registers, clr \in SUBSET Int, set \in SUBSET Int}

Accesses == PllAccesses \cup OtherAccesses

Chained(s) ==
  \A i \in 2 .. Len(s) :
    s[i].op \in Later =>
      /\ s[i - 1].op = Before[s[i].op]
      /\ s[i - 1].pll = s[i].pll

\* What a function of CRULib does: it begins no PLL in the middle.
Program(s) ==
  /\ s \in Seq(Accesses) /\ Chained(s)
  /\ s # << >> => s[1].op \notin Later

\* The first access still to be made finds its PLL as the ones before it left it.
FirstReady ==
  todo # << >> =>
    LET a == todo[1]
    IN /\ a.op \in {"integer", "fbdiv", "divisors"} => pll[a.pll].mode = "slow"
       /\ a.op = "normal" => pll[a.pll].locked

Value == {0, 1} \cup UNION {{d.refdiv, d.fbdiv, d.postdiv1, d.postdiv2} : d \in Dividers}

ClockTypeOK ==
  /\ pll \in [PLLs -> [mode : {"slow", "normal"}, integer : BOOLEAN, locked : BOOLEAN,
                       refdiv : Value, fbdiv : Value, postdiv1 : Value, postdiv2 : Value]]
  /\ todo \in Seq(Accesses)

ClockInv == ClockTypeOK /\ Chained(todo) /\ FirstReady /\ FeedsOnlyLocked

(***************************************************************************)
(* The functions of CRULib are programs.                                   *)
(***************************************************************************)
LEMMA OtherAccess ==
  ASSUME NEW a \in OtherAccesses
  PROVE  a \in Accesses /\ a.op \notin Later \cup {"slow"}
  <1>1. a.op \in {"assert", "write"}
    <2>1. CASE a \in {Assert(holds) : holds \in BOOLEAN}
      BY <2>1 DEF Assert
    <2>2. CASE \E reg \in Registers, clr \in SUBSET Int, set \in SUBSET Int : a = ClrSet(reg, clr, set)
      BY <2>2 DEF ClrSet
    <2> QED BY <2>1, <2>2 DEF OtherAccesses
  <1> QED BY <1>1 DEF Accesses, Later

LEMMA PllAccess ==
  ASSUME NEW op \in Later \cup {"slow"}, NEW p \in PLLs, NEW div \in Dividers
  PROVE  /\ PllOp(op, p, div) \in Accesses
         /\ PllOp(op, p, div).op = op /\ PllOp(op, p, div).pll = p
  BY DEF Accesses, PllAccesses, PllOp

LEMMA EmptyProgram == Program(<< >>)
  BY DEF Program, Chained

LEMMA OtherProgram ==
  ASSUME NEW s \in Seq(OtherAccesses)
  PROVE  Program(s)
  <1>1. Len(s) \in Nat /\ \A i \in 1 .. Len(s) : s[i] \in OtherAccesses
    BY LenProperties, ElementOfSeq
  <1>2. s \in Seq(Accesses)
    <2>1. OtherAccesses \subseteq Accesses
      BY DEF Accesses
    <2> QED BY <2>1, SeqMonotonic
  <1>3. Chained(s)
    BY <1>1, OtherAccess DEF Chained
  <1>4. s # << >> => s[1].op \notin Later
    BY <1>1, OtherAccess, EmptySeq
  <1> QED BY <1>2, <1>3, <1>4 DEF Program

LEMMA ProgramThenProgram ==
  ASSUME NEW s, NEW t, Program(s), Program(t)
  PROVE  Program(s \o t)
  <1>1. s \in Seq(Accesses) /\ t \in Seq(Accesses)
    BY DEF Program
  <1>2. /\ Len(s) \in Nat /\ Len(t) \in Nat
        /\ s \o t \in Seq(Accesses) /\ Len(s \o t) = Len(s) + Len(t)
        /\ \A i \in 1 .. Len(s) + Len(t) :
             (s \o t)[i] = IF i <= Len(s) THEN s[i] ELSE t[i - Len(s)]
    BY <1>1, LenProperties, ConcatProperties
  <1>3. Chained(s \o t)
    <2> SUFFICES ASSUME NEW i \in 2 .. Len(s) + Len(t), (s \o t)[i].op \in Later
                 PROVE  /\ (s \o t)[i - 1].op = Before[(s \o t)[i].op]
                        /\ (s \o t)[i - 1].pll = (s \o t)[i].pll
      BY <1>2 DEF Chained
    <2>1. CASE i <= Len(s)
      BY <1>2, <2>1 DEF Program, Chained
    <2>2. CASE i = Len(s) + 1
      <3>1. (s \o t)[i] = t[1] /\ t # << >>
        BY <1>2, <2>2
      <3> QED BY <3>1 DEF Program
    <2>3. CASE i > Len(s) + 1
      <3>1. (s \o t)[i] = t[i - Len(s)] /\ (s \o t)[i - 1] = t[i - Len(s) - 1]
        BY <1>2, <2>3
      <3>2. i - Len(s) \in 2 .. Len(t)
        BY <1>2, <2>3
      <3> QED BY <1>2, <3>1, <3>2 DEF Program, Chained
    <2> QED BY <1>2, <2>1, <2>2, <2>3
  <1>4. s \o t # << >> => (s \o t)[1].op \notin Later
    <2>1. CASE s = << >>
      BY <1>1, <2>1 DEF Program
    <2>2. CASE s # << >>
      BY <1>1, <1>2, <2>2, EmptySeq DEF Program
    <2> QED BY <2>1, <2>2
  <1> QED BY <1>2, <1>3, <1>4 DEF Program

LEMMA rkclk_set_pll_Program ==
  ASSUME NEW p \in PLLs, NEW div \in Dividers
  PROVE  Program(rkclk_set_pll(p, div))
  <1> DEFINE s == rkclk_set_pll(p, div)
  <1>1. /\ Len(s) = 7 /\ s[1] \in OtherAccesses
        /\ s[2] = PllOp("slow", p, div) /\ s[3] = PllOp("integer", p, div)
        /\ s[4] = PllOp("fbdiv", p, div) /\ s[5] = PllOp("divisors", p, div)
        /\ s[6] = PllOp("lock", p, div) /\ s[7] = PllOp("normal", p, div)
    <2>1. PllInRange(div) \in BOOLEAN
      BY DEF PllInRange
    <2> QED BY <2>1 DEF rkclk_set_pll, OtherAccesses
  <1>2. s \in Seq(Accesses)
    BY <1>1, OtherAccess, PllAccess DEF rkclk_set_pll, Later
  <1>3. Chained(s)
    <2> HIDE DEF s
    <2>1. \A i \in 2 .. 7 : i = 2 \/ i = 3 \/ i = 4 \/ i = 5 \/ i = 6 \/ i = 7
      OBVIOUS
    <2> QED BY <1>1, <2>1, PllAccess DEF Chained, Later, Before
  <1>4. s[1].op \notin Later
    BY <1>1, OtherAccess
  <1> QED BY <1>2, <1>3, <1>4 DEF Program

LEMMA AssertAccess ==
  ASSUME NEW holds \in BOOLEAN
  PROVE  Assert(holds) \in OtherAccesses
  BY DEF OtherAccesses

LEMMA WriteAccess ==
  ASSUME NEW reg \in Registers, NEW clr \in SUBSET Int, NEW set \in SUBSET Int
  PROVE  ClrSet(reg, clr, set) \in OtherAccesses
  BY DEF OtherAccesses

LEMMA OtherPrograms ==
  /\ \A a \in OtherAccesses : Program(<< a >>)
  /\ \A a, b \in OtherAccesses : Program(<< a, b >>)
  /\ \A a, b, c \in OtherAccesses : Program(<< a, b, c >>)
  /\ \A a, b, c, d \in OtherAccesses : Program(<< a, b, c, d >>)
  <1>1. \A a \in OtherAccesses : << a >> \in Seq(OtherAccesses)
    OBVIOUS
  <1>2. \A a, b \in OtherAccesses : << a, b >> \in Seq(OtherAccesses)
    OBVIOUS
  <1>3. \A a, b, c \in OtherAccesses : << a, b, c >> \in Seq(OtherAccesses)
    OBVIOUS
  <1>4. \A a, b, c, d \in OtherAccesses : << a, b, c, d >> \in Seq(OtherAccesses)
    OBVIOUS
  <1> QED BY <1>1, <1>2, <1>3, <1>4, OtherProgram

LEMMA Masks ==
  /\ \A shift, width \in Int : Bits(shift, width) \in SUBSET Int
  /\ \A n, shift : At(n, shift) \in SUBSET Int
  BY DEF Bits, At

LEMMA configure_cpu_Program ==
  ASSUME NEW khz \in ApllFrequencies, NEW c
  PROVE  Program(rk3399_configure_cpu(khz, c))
  <1>1. Program(rkclk_set_pll(ApllOf(c), apll_cfgs(khz)))
    BY rkclk_set_pll_Program DEF Dividers, ApllOf, PLLs
  <1> DEFINE aclkm_div == AtLeast(khz, 300 * MHz)
             pclk_dbg_div == AtLeast(khz, 100 * MHz)
             parent == IF c = CPU_CLUSTER_LITTLE THEN 0 ELSE 1
             fit == \A d \in {aclkm_div, pclk_dbg_div, aclkm_div} : 0 <= d /\ d < 31
  <1>2. {ConBase(c), ConBase(c) + 1} \subseteq Registers
    BY DEF ConBase, Registers
  <1>3. Bits(0, 5) \in SUBSET Int
    BY Masks
  <1>4. At(aclkm_div, 8) \cup At(parent, 6) \in SUBSET Int
    BY Masks
  <1>5. At(pclk_dbg_div, 8) \cup At(aclkm_div, 0) \in SUBSET Int
    BY Masks
  <1>6. Assert(fit) \in OtherAccesses
    BY AssertAccess
  <1> DEFINE first == ClrSet(ConBase(c), Bits(0, 5),
                                 At(aclkm_div, 8) \cup At(parent, 6))
             second == ClrSet(ConBase(c) + 1, Bits(0, 5),
                                  At(pclk_dbg_div, 8) \cup At(aclkm_div, 0))
  <1>7. first \in OtherAccesses /\ second \in OtherAccesses
    BY <1>2, <1>3, <1>4, <1>5, WriteAccess
  <1>8. Program(<< Assert(fit), first, second >>)
    <2> HIDE DEF fit, first, second
    <2> QED BY <1>6, <1>7, OtherPrograms
  <1> QED BY <1>1, <1>8, ProgramThenProgram DEF rk3399_configure_cpu

LEMMA pmu_clock_init_Program == Program(rk3399_pmu_clock_init)
  <1>1. Program(rkclk_set_pll("ppll", InitDivisors.ppll))
    BY rkclk_set_pll_Program DEF Dividers, Started, PLLs, InitDivisors
  <1>2. PmuClksel0 \in Registers
    BY DEF Registers
  <1>3. ClrSet(PmuClksel0, Bits(0, 5), At(AtLeast(676 * MHz, 48 * MHz), 0))
          \in OtherAccesses
    <2>1. /\ Bits(0, 5) \in SUBSET Int
          /\ At(AtLeast(676 * MHz, 48 * MHz), 0) \in SUBSET Int
      BY Masks
    <2> QED BY <1>2, <2>1, WriteAccess
  <1> QED BY <1>1, <1>3, OtherPrograms, ProgramThenProgram DEF rk3399_pmu_clock_init

LEMMA BusRegister_Program ==
  ASSUME NEW reg \in Registers, NEW aclk, NEW hclk, NEW pclk
  PROVE  Program(BusRegister(reg, aclk, hclk, pclk))
  <1> DEFINE aclk_div == AtMost(GPLL_HZ, aclk)
             hclk_div == AtLeast(aclk, hclk)
             pclk_div == AtLeast(aclk, pclk)
             clr == Bits(12, 3) \cup Bits(8, 2) \cup {7} \cup Bits(0, 5)
             set == At(pclk_div, 12) \cup At(hclk_div, 8) \cup {7} \cup At(aclk_div, 0)
  <1>1. clr \in SUBSET Int /\ set \in SUBSET Int
    BY Masks
  <1>2. Assert(hclk_div <= 3 /\ pclk_div <= 7) \in OtherAccesses
    BY AssertAccess
  <1>3. ClrSet(reg, clr, set) \in OtherAccesses
    BY <1>1, WriteAccess
  <1> QED BY <1>2, <1>3, OtherPrograms DEF BusRegister

LEMMA clock_init_Program == Program(rk3399_clock_init)
  <1>1. /\ Program(rk3399_configure_cpu(816 * MHz, CPU_CLUSTER_LITTLE))
        /\ Program(rk3399_configure_cpu(816 * MHz, CPU_CLUSTER_BIG))
    BY configure_cpu_Program DEF ApllFrequencies
  <1>2. Program(<< ClrSet(12, 0 .. 15, {14, 8, 0}),
                   ClrSet(19, 0 .. 15, {9, 8} \cup Bits(0, 6)),
                   ClrSet(56, {1, 0}, {1, 0}) >>)
    <2>1. {9, 8} \cup Bits(0, 6) \in SUBSET Int
      BY Masks
    <2>2. {12, 19, 56} \subseteq Registers
      BY DEF Registers
    <2>3. /\ ClrSet(12, 0 .. 15, {14, 8, 0}) \in OtherAccesses
          /\ ClrSet(19, 0 .. 15, {9, 8} \cup Bits(0, 6)) \in OtherAccesses
          /\ ClrSet(56, {1, 0}, {1, 0}) \in OtherAccesses
      BY <2>1, <2>2, WriteAccess
    <2> QED BY <2>3, OtherPrograms
  <1>3. \A p \in {"gpll", "npll", "cpll"} : Program(rkclk_set_pll(p, InitDivisors[p]))
    BY rkclk_set_pll_Program DEF Dividers, Started, PLLs
  <1>4. /\ Program(rkclk_set_pll("gpll", InitDivisors.gpll))
        /\ Program(rkclk_set_pll("npll", InitDivisors.npll))
        /\ Program(rkclk_set_pll("cpll", InitDivisors.cpll))
    BY <1>3
  <1>5. /\ Program(BusRegister(14, 150 * MHz, 75 * MHz, 37500))
        /\ Program(BusRegister(23, 300 * MHz, 100 * MHz, 50 * MHz))
    BY BusRegister_Program DEF Registers
  <1> DEFINE set25 == At(AtLeast(100 * MHz, 50 * MHz), 8) \cup {7}
                        \cup At(AtMost(GPLL_HZ, 100 * MHz), 0)
  <1>6. Program(<< ClrSet(25, Bits(8, 3) \cup {7}, set25),
                   ClrSet(21, {7} \cup Bits(0, 5), {7, 1, 0}),
                   ClrSet(22, Bits(0, 6), Bits(0, 3)) >>)
    <2>1. /\ Bits(8, 3) \cup {7} \in SUBSET Int /\ set25 \in SUBSET Int
          /\ {7} \cup Bits(0, 5) \in SUBSET Int
          /\ Bits(0, 6) \in SUBSET Int /\ Bits(0, 3) \in SUBSET Int
      BY Masks
    <2>2. {25, 21, 22} \subseteq Registers
      BY DEF Registers
    <2>3. /\ ClrSet(25, Bits(8, 3) \cup {7}, set25) \in OtherAccesses
          /\ ClrSet(21, {7} \cup Bits(0, 5), {7, 1, 0}) \in OtherAccesses
          /\ ClrSet(22, Bits(0, 6), Bits(0, 3)) \in OtherAccesses
      BY <2>1, <2>2, WriteAccess
    <2> QED BY <2>3, OtherPrograms
  <1> QED BY <1>1, <1>2, <1>4, <1>5, <1>6, ProgramThenProgram DEF rk3399_clock_init

LEMMA ArmPlatformInitialize_Program == Program(ArmPlatformInitialize)
  <1>1. /\ Program(rk3399_configure_cpu(1300 * MHz, CPU_CLUSTER_LITTLE))
        /\ Program(rk3399_configure_cpu(1700 * MHz, CPU_CLUSTER_BIG))
    BY configure_cpu_Program DEF ApllFrequencies
  <1> QED BY <1>1, pmu_clock_init_Program, clock_init_Program, ProgramThenProgram
          DEF ArmPlatformInitialize

LEMMA hdcp_set_clk_Program ==
  ASSUME NEW khz
  PROVE  Program(rk3399_hdcp_set_clk(khz))
  <1> DEFINE a == GPLL_HZ \div khz
             hp == (2 * GPLL_HZ) \div khz
             clr == Bits(14, 2) \cup Bits(8, 5)
             set == {14} \cup At(a - 1, 8)
             clr43 == Bits(10, 5) \cup Bits(5, 5)
             set43 == At(hp - 1, 10) \cup At(hp - 1, 5)
  <1>1. /\ Assert(a \in 1 .. 32) \in OtherAccesses
        /\ Assert(hp \in 1 .. 32) \in OtherAccesses
    <2>1. (a \in 1 .. 32) \in BOOLEAN /\ (hp \in 1 .. 32) \in BOOLEAN
      OBVIOUS
    <2> QED BY <2>1, AssertAccess
  <1>2. {clr, set, clr43, set43} \subseteq SUBSET Int /\ {42, 43} \subseteq Registers
    BY Masks DEF Registers
  <1>3. /\ ClrSet(42, clr, set) \in OtherAccesses
        /\ ClrSet(43, clr43, set43) \in OtherAccesses
    BY <1>2, WriteAccess
  <1> QED BY <1>1, <1>3, OtherPrograms DEF rk3399_hdcp_set_clk

LEMMA vio_set_clk_Program ==
  ASSUME NEW khz
  PROVE  Program(rk3399_vio_set_clk(khz))
  <1> DEFINE a == GPLL_HZ \div khz
             p == (2 * GPLL_HZ) \div khz
             clr == Bits(6, 2) \cup Bits(0, 5)
             set == {6} \cup At(a - 1, 0)
  <1>1. /\ Assert(a \in 1 .. 32) \in OtherAccesses
        /\ Assert(p \in 1 .. 32) \in OtherAccesses
    <2>1. (a \in 1 .. 32) \in BOOLEAN /\ (p \in 1 .. 32) \in BOOLEAN
      OBVIOUS
    <2> QED BY <2>1, AssertAccess
  <1>2. /\ {clr, set, Bits(0, 5), At(p - 1, 0)} \subseteq SUBSET Int
        /\ {42, 43} \subseteq Registers
    BY Masks DEF Registers
  <1>3. /\ ClrSet(42, clr, set) \in OtherAccesses
        /\ ClrSet(43, Bits(0, 5), At(p - 1, 0)) \in OtherAccesses
    BY <1>2, WriteAccess
  <1> QED BY <1>1, <1>3, OtherPrograms DEF rk3399_vio_set_clk

LEMMA vop_set_clk_Program ==
  ASSUME NEW vop \in {0, 1}, NEW khz \in PixelRates
  PROVE  Program(rk3399_vop_set_clk(vop, khz))
  <1> DEFINE config == pll_para_config(khz)
             clr == Bits(6, 2) \cup Bits(0, 5)
             set == At(2, 6) \cup At(AtLeast(GPLL_HZ, 400 * MHz), 0)
             hclk == At(AtLeast(GPLL_HZ, 100 * MHz), 8)
             pwm == {6} \cup Bits(0, 5)
             set51 == At(2, 6) \cup At(AtLeast(GPLL_HZ, 100 * MHz), 31)
             dclk == {11} \cup Bits(8, 2) \cup Bits(0, 8)
             buses == << ClrSet(47 + vop, clr, set), ClrSet(47 + vop, Bits(8, 5), hclk),
                         ClrSet(51 + vop, pwm, set51), Assert(config.ret = 0) >>
             pixels == << ClrSet(49 + vop, dclk, {}) >>
  <1>1. /\ {clr, set, hclk, Bits(8, 5), pwm, set51, dclk, {}} \subseteq SUBSET Int
        /\ {47 + vop, 49 + vop, 51 + vop} \subseteq Registers
    BY Masks DEF Registers
  <1>2. Program(buses)
    <2>1. Assert(config.ret = 0) \in OtherAccesses
      BY AssertAccess
    <2>2. /\ ClrSet(47 + vop, clr, set) \in OtherAccesses
          /\ ClrSet(47 + vop, Bits(8, 5), hclk) \in OtherAccesses
          /\ ClrSet(51 + vop, pwm, set51) \in OtherAccesses
      BY <1>1, WriteAccess
    <2> QED BY <2>1, <2>2, OtherPrograms
  <1>3. Program(pixels)
    <2>1. ClrSet(49 + vop, dclk, {}) \in OtherAccesses
      BY <1>1, WriteAccess
    <2> QED BY <2>1, OtherPrograms
  <1>4. Program(rkclk_set_pll("vpll", config.div))
    BY rkclk_set_pll_Program DEF Dividers, PLLs
  <1>5. Program(IF config.ret # 0 THEN << >>
                ELSE rkclk_set_pll("vpll", config.div) \o pixels)
    BY <1>3, <1>4, EmptyProgram, ProgramThenProgram
  <1> QED BY <1>2, <1>5, ProgramThenProgram DEF rk3399_vop_set_clk

(***************************************************************************)
(* The steps.                                                              *)
(***************************************************************************)
\* The accesses left after the first one.
LEMMA AccessesLeft ==
  ASSUME todo \in Seq(Accesses), todo # << >>
  PROVE  /\ Head(todo) = todo[1] /\ todo[1] \in Accesses
         /\ Tail(todo) \in Seq(Accesses)
         /\ Chained(todo) => Chained(Tail(todo))
         /\ Tail(todo) # << >> =>
              /\ Tail(todo)[1] = todo[2] /\ todo[2] \in Accesses
              /\ 2 \in 2 .. Len(todo)
  <1>1. /\ Len(todo) \in Nat \ {0}
        /\ \A i \in 1 .. Len(todo) : todo[i] \in Accesses
    BY LenProperties, ElementOfSeq, EmptySeq
  <1>2. /\ Head(todo) = todo[1]
        /\ Tail(todo) \in Seq(Accesses)
        /\ Len(Tail(todo)) = Len(todo) - 1
        /\ \A i \in 1 .. Len(Tail(todo)) : Tail(todo)[i] = todo[i + 1]
    BY HeadTailProperties
  <1>3. ASSUME Chained(todo)
        PROVE  Chained(Tail(todo))
    <2> SUFFICES ASSUME NEW i \in 2 .. Len(todo) - 1, Tail(todo)[i].op \in Later
                 PROVE  /\ Tail(todo)[i - 1].op = Before[Tail(todo)[i].op]
                        /\ Tail(todo)[i - 1].pll = Tail(todo)[i].pll
      BY <1>2 DEF Chained
    <2>1. /\ Tail(todo)[i] = todo[i + 1] /\ Tail(todo)[i - 1] = todo[i]
          /\ i + 1 \in 2 .. Len(todo) /\ i + 1 - 1 = i
      BY <1>1, <1>2
    <2> QED BY <1>3, <2>1 DEF Chained
  <1>4. ASSUME Tail(todo) # << >>
        PROVE  Tail(todo)[1] = todo[2] /\ 2 \in 2 .. Len(todo)
    <2>1. Len(Tail(todo)) # 0
      BY <1>2, <1>4, EmptySeq
    <2> QED BY <1>1, <1>2, <2>1
  <1> QED BY <1>1, <1>2, <1>3, <1>4

\* What the next access needs is what the one before it has done.
LEMMA NextAccess ==
  ASSUME todo \in Seq(Accesses), todo # << >>, Chained(todo),
         Tail(todo) # << >>, Tail(todo)[1].op \in Later
  PROVE  /\ todo[1] \in PllAccesses /\ Tail(todo)[1].pll = todo[1].pll
         /\ Tail(todo)[1].op \in {"integer", "fbdiv", "divisors"} =>
              todo[1].op \in {"slow", "integer", "fbdiv"}
         /\ Tail(todo)[1].op = "normal" => todo[1].op = "lock"
  <1>1. /\ todo[1].op = Before[Tail(todo)[1].op]
        /\ todo[1].pll = Tail(todo)[1].pll
    BY AccessesLeft DEF Chained
  <1>2. todo[1].op \in Later \cup {"slow"}
    BY <1>1 DEF Before, Later
  <1>3. todo[1] \in PllAccesses
    BY <1>2, AccessesLeft, OtherAccess DEF Accesses
  <1> QED BY <1>1, <1>3 DEF Before, Later

LEMMA ClockInit == Init => ClockInv
  <1> SUFFICES ASSUME Init PROVE ClockInv
    OBVIOUS
  <1>1. Program(todo)
    BY ArmPlatformInitialize_Program DEF Init
  <1>2. ClockTypeOK /\ FeedsOnlyLocked
    BY <1>1 DEF ClockTypeOK, Program, Value, Init, FeedsOnlyLocked
  <1>3. FirstReady
    BY <1>1 DEF Program, FirstReady, Later
  <1> QED BY <1>1, <1>2, <1>3 DEF ClockInv, Program

LEMMA ClockCalling ==
  ASSUME ClockInv, Calling
  PROVE  ClockInv'
  <1>1. Program(todo') /\ pll' = pll
    <2>1. ASSUME NEW khz \in ApllFrequencies, NEW c \in CpuClusters,
                 Call(rk3399_configure_cpu(khz, c), c, khz)
          PROVE  Program(todo') /\ pll' = pll
      BY <2>1, configure_cpu_Program DEF Call
    <2>2. ASSUME NEW khz \in BusRates,
                 \/ Call(rk3399_hdcp_set_clk(khz), "hdcp", khz)
                 \/ Call(rk3399_vio_set_clk(khz), "vio", khz)
          PROVE  Program(todo') /\ pll' = pll
      BY <2>2, hdcp_set_clk_Program, vio_set_clk_Program DEF Call
    <2>3. ASSUME NEW khz \in PixelRates, NEW vop \in {0, 1},
                 Call(rk3399_vop_set_clk(vop, khz), "pixel", khz)
          PROVE  Program(todo') /\ pll' = pll
      BY <2>3, vop_set_clk_Program DEF Call
    <2> QED BY <2>1, <2>2, <2>3 DEF Calling
  <1>2. ClockTypeOK' /\ FeedsOnlyLocked'
    BY <1>1 DEF ClockInv, ClockTypeOK, Program, FeedsOnlyLocked
  <1>3. FirstReady'
    BY <1>1 DEF Program, FirstReady, Later
  <1>4. Chained(todo')
    BY <1>1 DEF Program
  <1> QED BY <1>2, <1>3, <1>4 DEF ClockInv

\* What an access to be made next needs is there once the one before it is done.
LEMMA FirstReadyStep ==
  ASSUME ClockInv, todo # << >>, todo' = Tail(todo),
         NEW p \in PLLs,
         todo[1] \in PllAccesses => todo[1].pll = p,
         todo[1] \in PllAccesses /\ todo[1].op \in {"slow", "integer", "fbdiv"} =>
           pll'[p].mode = "slow",
         todo[1] \in PllAccesses /\ todo[1].op = "lock" => pll'[p].locked
  PROVE  FirstReady'
  BY NextAccess DEF ClockInv, ClockTypeOK, FirstReady, Later

LEMMA ClockDriver ==
  ASSUME ClockInv, Driver
  PROVE  ClockInv'
  <1> DEFINE a == todo[1]
  <1>1. todo # << >> /\ todo' = Tail(todo) /\ Next1 = a
    BY AccessesLeft DEF ClockInv, ClockTypeOK, Driver, Write, CheckAssertion,
                        SetMode, SetDividers, WaitForLock, Does, Proceed,
                        Next1
  <1>2. todo' \in Seq(Accesses) /\ Chained(todo') /\ a \in Accesses
    BY <1>1, AccessesLeft DEF ClockInv, ClockTypeOK
  <1>3. CASE Write \/ CheckAssertion
    <2>1. pll' = pll /\ a.op \in {"write", "assert"}
      BY <1>1, <1>3 DEF Write, CheckAssertion, Does
    <2>2. a \notin PllAccesses
      BY <2>1 DEF PllAccesses, Later
    <2>3. FirstReady'
      <3>1. todo' # << >> => todo'[1].op \notin Later
        BY <1>1, <2>2, NextAccess DEF ClockInv, ClockTypeOK
      <3> QED BY <3>1 DEF FirstReady, Later
    <2> QED BY <1>2, <2>1, <2>3 DEF ClockInv, ClockTypeOK, FeedsOnlyLocked
  <1>4. ASSUME a.op \in Later \cup {"slow"}
        PROVE  a \in PllAccesses /\ a.pll \in PLLs /\ a.div \in Dividers
    BY <1>2, <1>4, OtherAccess DEF Accesses, PllAccesses
  <1>5. CASE SetMode
    <2>1. a.op \in {"slow", "normal", "integer"}
      BY <1>1, <1>5 DEF SetMode
    <2>2. a \in PllAccesses /\ a.pll \in PLLs
      BY <1>4, <2>1 DEF Later
    <2>3. pll' = [pll EXCEPT ![a.pll] = IF a.op = "integer" THEN [@ EXCEPT !.integer = TRUE]
                                        ELSE [@ EXCEPT !.mode = a.op]]
      BY <1>1, <1>5 DEF SetMode
    <2>4. /\ a.op = "integer" => pll[a.pll].mode = "slow"
          /\ a.op = "normal" => pll[a.pll].locked
      BY <1>1 DEF ClockInv, FirstReady
    <2>5. ClockTypeOK'
      BY <1>2, <2>1, <2>2, <2>3 DEF ClockInv, ClockTypeOK
    <2>6. /\ pll'[a.pll].mode = "normal" => a.op = "normal"
          /\ a.op # "normal" => pll'[a.pll].mode = "slow"
          /\ \A p \in PLLs : pll'[p].locked = pll[p].locked
          /\ \A p \in PLLs \ {a.pll} : pll'[p] = pll[p]
      BY <2>1, <2>2, <2>3, <2>4 DEF ClockInv, ClockTypeOK
    <2>7. FeedsOnlyLocked'
      BY <2>2, <2>4, <2>6 DEF ClockInv, FeedsOnlyLocked
    <2>8. FirstReady'
      BY <1>1, <2>1, <2>2, <2>6, FirstReadyStep
    <2> QED BY <1>2, <2>5, <2>7, <2>8 DEF ClockInv
  <1>6. CASE SetDividers
    <2>1. a.op \in {"fbdiv", "divisors"}
      BY <1>1, <1>6 DEF SetDividers
    <2>2. a \in PllAccesses /\ a.pll \in PLLs /\ a.div \in Dividers
      BY <1>4, <2>1 DEF Later
    <2>3. pll' = [pll EXCEPT ![a.pll] =
                    IF a.op = "fbdiv" THEN [@ EXCEPT !.locked = FALSE, !.fbdiv = a.div.fbdiv]
                    ELSE [@ EXCEPT !.locked = FALSE, !.refdiv = a.div.refdiv,
                                   !.postdiv1 = a.div.postdiv1, !.postdiv2 = a.div.postdiv2]]
      BY <1>1, <1>6 DEF SetDividers
    <2>4. pll[a.pll].mode = "slow"
      BY <1>1, <2>1 DEF ClockInv, FirstReady
    <2>5. ClockTypeOK'
      <3>1. {a.div.refdiv, a.div.fbdiv, a.div.postdiv1, a.div.postdiv2} \subseteq Value
        BY <2>2 DEF Value
      <3> DEFINE State == [mode : {"slow", "normal"}, integer : BOOLEAN, locked : BOOLEAN,
                           refdiv : Value, fbdiv : Value, postdiv1 : Value, postdiv2 : Value]
      <3>2. pll \in [PLLs -> State]
        BY DEF ClockInv, ClockTypeOK
      <3>3. pll[a.pll] \in State
        BY <2>2, <3>2
      <3>4. CASE a.op = "fbdiv"
        <4> DEFINE new == [pll[a.pll] EXCEPT !.locked = FALSE, !.fbdiv = a.div.fbdiv]
        <4>1. new \in State
          BY <3>1, <3>3
        <4>2. pll' = [pll EXCEPT ![a.pll] = new]
          BY <2>3, <3>4
        <4> HIDE DEF new, State
        <4>3. pll' \in [PLLs -> State]
          BY <3>2, <4>1, <4>2
        <4> QED BY <1>2, <4>3 DEF ClockInv, ClockTypeOK, State
      <3>5. CASE a.op # "fbdiv"
        <4> DEFINE new == [pll[a.pll] EXCEPT !.locked = FALSE, !.refdiv = a.div.refdiv,
                             !.postdiv1 = a.div.postdiv1, !.postdiv2 = a.div.postdiv2]
        <4>1. new \in State
          BY <3>1, <3>3
        <4>2. pll' = [pll EXCEPT ![a.pll] = new]
          BY <2>3, <3>5
        <4> HIDE DEF new, State
        <4>3. pll' \in [PLLs -> State]
          BY <3>2, <4>1, <4>2
        <4> QED BY <1>2, <4>3 DEF ClockInv, ClockTypeOK, State
      <3> QED BY <3>4, <3>5
    <2>6. pll'[a.pll].mode = "slow" /\ \A p \in PLLs \ {a.pll} : pll'[p] = pll[p]
      BY <2>1, <2>2, <2>3, <2>4 DEF ClockInv, ClockTypeOK
    <2>7. FeedsOnlyLocked'
      BY <2>2, <2>6 DEF ClockInv, FeedsOnlyLocked
    <2>8. FirstReady'
      BY <1>1, <2>1, <2>2, <2>6, FirstReadyStep
    <2> QED BY <1>2, <2>5, <2>7, <2>8 DEF ClockInv
  <1>7. CASE WaitForLock
    <2>1. a.op = "lock" /\ pll[a.pll].locked /\ pll' = pll
      BY <1>1, <1>7 DEF WaitForLock, Does
    <2>2. a \in PllAccesses /\ a.pll \in PLLs
      BY <1>4, <2>1 DEF Later
    <2>3. FirstReady'
      BY <1>1, <2>1, <2>2, FirstReadyStep
    <2> QED BY <1>2, <2>1, <2>3 DEF ClockInv, ClockTypeOK, FeedsOnlyLocked
  <1> QED BY <1>3, <1>5, <1>6, <1>7 DEF Driver

LEMMA ClockLock ==
  ASSUME ClockInv, NEW p \in PLLs, Lock(p)
  PROVE  ClockInv'
  <1>1. /\ todo' = todo /\ pll' \in [PLLs -> [
             mode : {"slow", "normal"}, integer : BOOLEAN, locked : BOOLEAN,
             refdiv : Value, fbdiv : Value, postdiv1 : Value, postdiv2 : Value]]
        /\ \A q \in PLLs : /\ pll'[q].mode = pll[q].mode
                           /\ pll[q].locked => pll'[q].locked
    BY DEF ClockInv, ClockTypeOK, Lock
  <1>2. todo # << >> /\ todo[1].op \in Later => todo[1].pll \in PLLs
    BY AccessesLeft, OtherAccess DEF ClockInv, ClockTypeOK, Accesses, PllAccesses
  <1>3. FirstReady'
    BY <1>1, <1>2 DEF ClockInv, FirstReady, Later
  <1> QED BY <1>1, <1>3 DEF ClockInv, ClockTypeOK, FeedsOnlyLocked

LEMMA ClockInvNext == ClockInv /\ [Next]_vars => ClockInv'
  <1> SUFFICES ASSUME ClockInv, [Next]_vars
               PROVE  ClockInv'
    OBVIOUS
  <1>1. CASE UNCHANGED vars
    BY <1>1 DEF ClockInv, ClockTypeOK, Chained, FirstReady, FeedsOnlyLocked, vars
  <1>2. CASE Calling
    BY <1>2, ClockCalling
  <1>3. CASE Driver
    BY <1>3, ClockDriver
  <1>4. ASSUME NEW p \in PLLs, Lock(p)
        PROVE  ClockInv'
    BY <1>4, ClockLock
  <1> QED BY <1>1, <1>2, <1>3, <1>4 DEF Next, Spin, Idle

\* A PLL feeds its consumers only while it is locked, whatever rates are asked for in
\* whatever order, and however long each PLL takes to lock.
THEOREM ClockFeedsOnlyLocked == Spec => []FeedsOnlyLocked
  <1>1. ClockInv => FeedsOnlyLocked
    BY DEF ClockInv
  <1> QED BY <1>1, ClockInit, ClockInvNext, PTL DEF Spec

(***************************************************************************)
(* What the accesses still to be made leave behind.  A fact about the      *)
(* registers that some accesses make true (the set G) and others leave     *)
(* alone (the set K) is there at rest if it is given by an access after    *)
(* which all keep it, or if it is there and all keep it.                   *)
(***************************************************************************)
Kept(s, K) == \A i \in 1 .. Len(s) : s[i] \in K

Given(s, G, K) ==
  \E i \in 1 .. Len(s) : s[i] \in G /\ \A j \in i + 1 .. Len(s) : s[j] \in K

LEMMA EmptyKept == ASSUME NEW K PROVE Kept(<< >>, K)
  BY DEF Kept

LEMMA EmptyGiven == ASSUME NEW G, NEW K PROVE ~Given(<< >>, G, K)
  BY DEF Given

LEMMA KeptMore ==
  ASSUME NEW s, NEW K, NEW M, K \subseteq M, Kept(s, K)
  PROVE  Kept(s, M)
  BY DEF Kept

LEMMA KeptThenKept ==
  ASSUME NEW s \in Seq(Accesses), NEW t \in Seq(Accesses), NEW K, Kept(s, K), Kept(t, K)
  PROVE  Kept(s \o t, K)
  <1>1. Len(s) \in Nat /\ Len(t) \in Nat /\ Len(s \o t) = Len(s) + Len(t)
    BY LenProperties, ConcatProperties
  <1> SUFFICES ASSUME NEW i \in 1 .. Len(s) + Len(t)
               PROVE  (s \o t)[i] \in K
    BY <1>1 DEF Kept
  <1>2. (s \o t)[i] = IF i <= Len(s) THEN s[i] ELSE t[i - Len(s)]
    BY ConcatProperties
  <1> QED BY <1>1, <1>2 DEF Kept

LEMMA GivenThenKept ==
  ASSUME NEW s \in Seq(Accesses), NEW t \in Seq(Accesses), NEW G, NEW K,
         Given(s, G, K), Kept(t, K)
  PROVE  Given(s \o t, G, K)
  <1>1. /\ Len(s) \in Nat /\ Len(t) \in Nat /\ Len(s \o t) = Len(s) + Len(t)
        /\ \A i \in 1 .. Len(s) + Len(t) :
             (s \o t)[i] = IF i <= Len(s) THEN s[i] ELSE t[i - Len(s)]
    BY LenProperties, ConcatProperties
  <1>2. PICK i \in 1 .. Len(s) : s[i] \in G /\ \A j \in i + 1 .. Len(s) : s[j] \in K
    BY DEF Given
  <1>3. i \in 1 .. Len(s \o t) /\ (s \o t)[i] \in G
    BY <1>1, <1>2
  <1>4. ASSUME NEW j \in i + 1 .. Len(s \o t)
        PROVE  (s \o t)[j] \in K
    BY <1>1, <1>2 DEF Kept
  <1> QED BY <1>3, <1>4 DEF Given

LEMMA ThenGiven ==
  ASSUME NEW s \in Seq(Accesses), NEW t \in Seq(Accesses), NEW G, NEW K, Given(t, G, K)
  PROVE  Given(s \o t, G, K)
  <1>1. /\ Len(s) \in Nat /\ Len(t) \in Nat /\ Len(s \o t) = Len(s) + Len(t)
        /\ \A i \in 1 .. Len(s) + Len(t) :
             (s \o t)[i] = IF i <= Len(s) THEN s[i] ELSE t[i - Len(s)]
    BY LenProperties, ConcatProperties
  <1>2. PICK i \in 1 .. Len(t) : t[i] \in G /\ \A j \in i + 1 .. Len(t) : t[j] \in K
    BY DEF Given
  <1>3. i + Len(s) \in 1 .. Len(s \o t) /\ (s \o t)[i + Len(s)] \in G
    BY <1>1, <1>2
  <1>4. ASSUME NEW j \in i + Len(s) + 1 .. Len(s \o t)
        PROVE  (s \o t)[j] \in K
    <2>1. (s \o t)[j] = t[j - Len(s)] /\ j - Len(s) \in i + 1 .. Len(t)
      BY <1>1, <1>2
    <2> QED BY <1>2, <2>1
  <1> QED BY <1>3, <1>4 DEF Given

\* Making the first access.
LEMMA TailKept ==
  ASSUME NEW s \in Seq(Accesses), s # << >>, NEW K, Kept(s, K)
  PROVE  s[1] \in K /\ Kept(Tail(s), K)
  <1>1. /\ Len(s) \in Nat \ {0} /\ Len(Tail(s)) = Len(s) - 1
        /\ \A i \in 1 .. Len(Tail(s)) : Tail(s)[i] = s[i + 1]
    BY LenProperties, EmptySeq, HeadTailProperties
  <1> QED BY <1>1 DEF Kept

LEMMA TailGiven ==
  ASSUME NEW s \in Seq(Accesses), s # << >>, NEW G, NEW K, Given(s, G, K)
  PROVE  Given(Tail(s), G, K) \/ (s[1] \in G /\ Kept(Tail(s), K))
  <1>1. /\ Len(s) \in Nat \ {0} /\ Len(Tail(s)) = Len(s) - 1
        /\ \A i \in 1 .. Len(Tail(s)) : Tail(s)[i] = s[i + 1]
    BY LenProperties, EmptySeq, HeadTailProperties
  <1>2. PICK i \in 1 .. Len(s) : s[i] \in G /\ \A j \in i + 1 .. Len(s) : s[j] \in K
    BY DEF Given
  <1>3. CASE i = 1
    BY <1>1, <1>2, <1>3 DEF Kept
  <1>4. CASE i # 1
    <2>1. i - 1 \in 1 .. Len(Tail(s)) /\ Tail(s)[i - 1] \in G
      BY <1>1, <1>2, <1>4
    <2>2. ASSUME NEW j \in i - 1 + 1 .. Len(Tail(s))
          PROVE  Tail(s)[j] \in K
      BY <1>1, <1>2
    <2> QED BY <2>1, <2>2 DEF Given
  <1> QED BY <1>3, <1>4

(***************************************************************************)
(* The bits of the divider registers.                                      *)
(***************************************************************************)
LEMMA AtBits ==
  ASSUME NEW n, NEW shift, NEW b
  PROVE  b \in At(n, shift) <=>
           /\ b \in 0 .. 31 /\ b - shift \in 0 .. 15
           /\ (n \div PowersOf2[b - shift + 1]) % 2 = 1
  BY DEF At

\* A number fits into a field.
Fits(n, width) == n \in Nat /\ n < PowersOf2[width + 1]

Widths == {2, 3, 5}

\* The bits of a number that fits stay in its field.
LEMMA AtInField ==
  ASSUME NEW width \in Widths, NEW n, Fits(n, width), NEW shift \in Nat
  PROVE  At(n, shift) \subseteq Bits(shift, width)
  <1> SUFFICES ASSUME NEW i \in 0 .. 15, i >= width
               PROVE  (n \div PowersOf2[i + 1]) % 2 = 0
    BY AtBits DEF Bits, Widths
  <1>1. n \in 0 .. PowersOf2[width + 1] - 1
    BY DEF Fits, Widths, PowersOf2
  <1>2. PowersOf2[i + 1] >= PowersOf2[width + 1]
    BY DEF PowersOf2, Widths
  <1>3. n \div PowersOf2[i + 1] = 0
    BY <1>1, <1>2 DEF PowersOf2, Widths
  <1> QED BY <1>3

\* What a field of a register that holds the bits of S adds to its divider.
Bit(S, shift, width, i) == IF i < width /\ shift + i \in S THEN 1 ELSE 0

Sum(S, shift, width) ==
  Bit(S, shift, width, 0) + 2 * Bit(S, shift, width, 1) + 4 * Bit(S, shift, width, 2)
    + 8 * Bit(S, shift, width, 3) + 16 * Bit(S, shift, width, 4)

LEMMA DividerIsSum ==
  ASSUME NEW reg, NEW shift, NEW width
  PROVE  Divider(reg, shift, width) = 1 + Sum(clksel[reg], shift, width)
  <1>1. \A i \in 0 .. 4 : Bit(clksel[reg], shift, width, i) \in {0, 1}
    BY DEF Bit
  <1>2. Divider(reg, shift, width)
          = 1 + Bit(clksel[reg], shift, width, 0) + 2 * Bit(clksel[reg], shift, width, 1)
              + 4 * Bit(clksel[reg], shift, width, 2) + 8 * Bit(clksel[reg], shift, width, 3)
              + 16 * Bit(clksel[reg], shift, width, 4)
    BY DEF Divider, Bit
  <1> QED BY <1>1, <1>2 DEF Sum

\* The number is the sum of its bits.
LEMMA SumOfBits ==
  ASSUME NEW width \in Widths, NEW n, Fits(n, width), NEW shift \in 0 .. 16
  PROVE  Sum(At(n, shift), shift, width) = n
  <1> DEFINE bit(i) == Bit(At(n, shift), shift, width, i)
  <1>1. ASSUME NEW i \in 0 .. 4
        PROVE  bit(i) = (n \div PowersOf2[i + 1]) % 2
    <2>1. (n \div PowersOf2[i + 1]) % 2 \in {0, 1}
      BY DEF PowersOf2, Fits
    <2>2. shift + i \in At(n, shift) <=> (n \div PowersOf2[i + 1]) % 2 = 1
      BY AtBits
    <2>3. CASE i < width
      BY <2>1, <2>2, <2>3 DEF Bit
    <2>4. CASE i >= width
      <3>1. n < PowersOf2[i + 1] /\ n \in Nat
        BY <2>4 DEF Fits, Widths, PowersOf2
      <3>2. (n \div PowersOf2[i + 1]) % 2 = 0
        BY <3>1 DEF PowersOf2
      <3> QED BY <2>4, <3>2 DEF Bit, Widths
    <2> QED BY <2>3, <2>4 DEF Widths
  <1>2. n \in 0 .. 31
    BY DEF Fits, Widths, PowersOf2
  <1>3. n = (n % 2) + 2 * ((n \div 2) % 2) + 4 * ((n \div 4) % 2) + 8 * ((n \div 8) % 2)
             + 16 * ((n \div 16) % 2)
    BY <1>2
  <1> HIDE DEF bit
  <1>4. /\ bit(0) = (n \div 1) % 2 /\ bit(1) = (n \div 2) % 2 /\ bit(2) = (n \div 4) % 2
        /\ bit(3) = (n \div 8) % 2 /\ bit(4) = (n \div 16) % 2
    BY <1>1 DEF PowersOf2
  <1>5. n \div 1 = n
    BY <1>2
  <1>6. bit(0) + 2 * bit(1) + 4 * bit(2) + 8 * bit(3) + 16 * bit(4) = n
    BY <1>2, <1>3, <1>4, <1>5
  <1> QED BY <1>6 DEF Sum, bit

LEMMA SumMore ==
  ASSUME NEW S, NEW T, NEW shift \in Nat, NEW width \in Widths,
         S \cap Bits(shift, width) \subseteq T
  PROVE  Sum(S, shift, width) \in Nat /\ Sum(S, shift, width) <= Sum(T, shift, width)
  <1>1. ASSUME NEW i \in 0 .. 4
        PROVE  /\ Bit(S, shift, width, i) \in {0, 1} /\ Bit(T, shift, width, i) \in {0, 1}
               /\ Bit(S, shift, width, i) <= Bit(T, shift, width, i)
    BY DEF Bit, Bits, Widths
  <1> QED BY <1>1 DEF Sum

\* A field that has all the bits of a number divides by more than the number.
LEMMA FieldAtLeast ==
  ASSUME NEW reg, NEW width \in Widths, NEW n, Fits(n, width), NEW shift \in 0 .. 16,
         At(n, shift) \subseteq clksel[reg]
  PROVE  Divider(reg, shift, width) \in Int /\ Divider(reg, shift, width) >= n + 1
  <1>1. n \in Nat /\ Sum(At(n, shift), shift, width) = n
    BY SumOfBits DEF Fits
  <1>2. Sum(At(n, shift), shift, width) <= Sum(clksel[reg], shift, width)
    BY SumMore
  <1>3. Sum(clksel[reg], shift, width) \in Nat
    BY SumMore
  <1> QED BY <1>1, <1>2, <1>3, DividerIsSum

\* A field that has the bits of a number and no other divides by the number and one.
LEMMA FieldExactly ==
  ASSUME NEW reg, NEW width \in Widths, NEW n, Fits(n, width), NEW shift \in 0 .. 16,
         At(n, shift) \subseteq clksel[reg],
         (Bits(shift, width) \ At(n, shift)) \cap clksel[reg] = {}
  PROVE  Divider(reg, shift, width) = n + 1
  <1>1. n \in Nat /\ Sum(At(n, shift), shift, width) = n
    BY SumOfBits DEF Fits
  <1>2. /\ Sum(At(n, shift), shift, width) <= Sum(clksel[reg], shift, width)
        /\ Sum(clksel[reg], shift, width) <= Sum(At(n, shift), shift, width)
    BY SumMore
  <1>3. Sum(clksel[reg], shift, width) \in Nat
    BY SumMore
  <1> QED BY <1>1, <1>2, <1>3, DividerIsSum

(***************************************************************************)
(* What the registers hold, and will hold at rest: all of the bits in      *)
(* ones, and none in zeros.                                                *)
(***************************************************************************)
Raises(reg, ones, zeros) ==
  {a \in Accesses : /\ a.op = "write" /\ a.reg = reg
                    /\ ones \subseteq a.set /\ zeros \subseteq a.mask \ a.set}

Spares(reg, bits) ==
  {a \in Accesses : a.op = "write" /\ a.reg = reg => bits \cap (a.mask \cup a.set) = {}}

Holds(reg, ones, zeros) == ones \subseteq clksel[reg] /\ zeros \cap clksel[reg] = {}

WillHold(reg, ones, zeros) ==
  \/ Given(todo, Raises(reg, ones, zeros), Spares(reg, ones \cup zeros))
  \/ Holds(reg, ones, zeros) /\ Kept(todo, Spares(reg, ones \cup zeros))

RegistersOK == clksel \in [Registers -> SUBSET Int]

\* What one access does.
LEMMA DriverStep ==
  ASSUME ClockInv, Driver
  PROVE  /\ todo \in Seq(Accesses) /\ todo # << >> /\ todo' = Tail(todo)
         /\ todo[1] \in Accesses
         /\ UNCHANGED <<asked, outside, calls>>
         /\ todo[1].op = "write" =>
              clksel' = [clksel EXCEPT ![todo[1].reg] = (@ \ todo[1].mask) \cup todo[1].set]
         /\ todo[1].op # "write" => clksel' = clksel
         /\ todo[1].op = "assert" => asserted' = (asserted \/ ~todo[1].holds)
         /\ todo[1].op # "assert" => asserted' = asserted
  <1>1. todo \in Seq(Accesses) /\ todo # << >> /\ Next1 = todo[1] /\ todo[1] \in Accesses
    BY AccessesLeft DEF ClockInv, ClockTypeOK, Driver, Write, CheckAssertion, SetMode,
                        SetDividers, WaitForLock, Does, Next1
  <1>2. todo' = Tail(todo) /\ UNCHANGED <<asked, outside, calls>>
    BY DEF Driver, Write, CheckAssertion, SetMode, SetDividers, WaitForLock, Proceed
  <1>3. CASE Write
    BY <1>1, <1>2, <1>3 DEF Write, Does
  <1>4. CASE CheckAssertion
    BY <1>1, <1>2, <1>4 DEF CheckAssertion, Does
  <1>5. CASE SetMode
    BY <1>1, <1>2, <1>5 DEF SetMode
  <1>6. CASE SetDividers
    BY <1>1, <1>2, <1>6 DEF SetDividers
  <1>7. CASE WaitForLock
    BY <1>1, <1>2, <1>7 DEF WaitForLock, Does
  <1> QED BY <1>3, <1>4, <1>5, <1>6, <1>7 DEF Driver

LEMMA WriteInRegisters ==
  ASSUME NEW a \in Accesses, a.op = "write"
  PROVE  a.reg \in Registers /\ a.set \in SUBSET Int /\ a.mask \in SUBSET Int
  <1>1. a \in OtherAccesses
    BY DEF Accesses, PllAccesses, Later
  <1>2. a \notin {Assert(holds) : holds \in BOOLEAN}
    BY DEF Assert
  <1>3. PICK reg \in Registers, clr \in SUBSET Int, set \in SUBSET Int : a = ClrSet(reg, clr, set)
    BY <1>1, <1>2 DEF OtherAccesses
  <1>4. /\ a.reg = reg /\ a.set = set \cap 0 .. 15
        /\ a.mask = ((clr \cup set) \cap 0 .. 15) \cup {b - 16 : b \in set \cap 16 .. 31}
    BY <1>3 DEF ClrSet
  <1>5. {b - 16 : b \in set \cap 16 .. 31} \in SUBSET Int
    OBVIOUS
  <1> QED BY <1>4, <1>5

LEMMA RegistersStep ==
  ASSUME ClockInv, RegistersOK, Driver
  PROVE  RegistersOK'
  <1>1. CASE todo[1].op = "write"
    <2>1. todo[1].reg \in Registers /\ todo[1].set \in SUBSET Int
      BY <1>1, DriverStep, WriteInRegisters
    <2> QED BY <1>1, <2>1, DriverStep DEF RegistersOK
  <1>2. CASE todo[1].op # "write"
    BY <1>2, DriverStep DEF RegistersOK
  <1> QED BY <1>1, <1>2

LEMMA WillHoldStep ==
  ASSUME ClockInv, RegistersOK, Driver, NEW reg \in Registers, NEW ones, NEW zeros,
         WillHold(reg, ones, zeros)
  PROVE  WillHold(reg, ones, zeros)'
  <1> DEFINE G == Raises(reg, ones, zeros)
             K == Spares(reg, ones \cup zeros)
  <1>1. ASSUME todo[1] \in G
        PROVE  Holds(reg, ones, zeros)'
    <2>1. todo[1].op = "write" /\ todo[1].reg = reg
      BY <1>1 DEF Raises
    <2>2. clksel'[reg] = (clksel[reg] \ todo[1].mask) \cup todo[1].set
      BY <2>1, DriverStep DEF RegistersOK
    <2> QED BY <1>1, <2>2 DEF Raises, Holds
  <1>2. ASSUME todo[1] \in K, Holds(reg, ones, zeros)
        PROVE  Holds(reg, ones, zeros)'
    <2>1. CASE todo[1].op = "write" /\ todo[1].reg = reg
      <3>1. clksel'[reg] = (clksel[reg] \ todo[1].mask) \cup todo[1].set
        BY <2>1, DriverStep DEF RegistersOK
      <3> QED BY <1>2, <2>1, <3>1 DEF Spares, Holds
    <2>2. CASE ~(todo[1].op = "write" /\ todo[1].reg = reg)
      <3>1. clksel'[reg] = clksel[reg]
        BY <2>2, DriverStep, WriteInRegisters DEF RegistersOK
      <3> QED BY <1>2, <3>1 DEF Holds
    <2> QED BY <2>1, <2>2
  <1>3. todo \in Seq(Accesses) /\ todo # << >> /\ todo' = Tail(todo)
    BY DriverStep
  <1>4. CASE Given(todo, G, K)
    <2>1. Given(todo', G, K) \/ (todo[1] \in G /\ Kept(todo', K))
      BY <1>3, <1>4, TailGiven
    <2> QED BY <1>1, <2>1 DEF WillHold
  <1>5. CASE Holds(reg, ones, zeros) /\ Kept(todo, K)
    <2>1. todo[1] \in K /\ Kept(todo', K)
      BY <1>3, <1>5, TailKept
    <2> QED BY <1>2, <1>5, <2>1 DEF WillHold
  <1> QED BY <1>4, <1>5 DEF WillHold

\* At rest the registers hold what they were to hold.
LEMMA HoldsAtRest ==
  ASSUME NEW reg, NEW ones, NEW zeros, todo = << >>, WillHold(reg, ones, zeros)
  PROVE  Holds(reg, ones, zeros)
  BY EmptyGiven DEF WillHold

\* A call that gives a field its bits, and one that keeps them.
LEMMA GivenByCall ==
  ASSUME NEW reg, NEW ones, NEW zeros,
         Given(todo', Raises(reg, ones, zeros), Spares(reg, ones \cup zeros))
  PROVE  WillHold(reg, ones, zeros)'
  BY DEF WillHold

LEMMA KeptByCall ==
  ASSUME NEW reg, NEW ones, NEW zeros, todo = << >>, clksel' = clksel,
         WillHold(reg, ones, zeros), Kept(todo', Spares(reg, ones \cup zeros))
  PROVE  WillHold(reg, ones, zeros)'
  <1>1. Holds(reg, ones, zeros)
    BY HoldsAtRest
  <1>2. Holds(reg, ones, zeros)'
    BY <1>1 DEF Holds
  <1> QED BY <1>2 DEF WillHold

(***************************************************************************)
(* What each access is for a field.                                        *)
(***************************************************************************)
\* Accesses to some registers and some PLLs only.
Within(regs, plls) ==
  {a \in Accesses : /\ a.op = "write" => a.reg \in regs
                    /\ a.op \in Later \cup {"slow"} => a.pll \in plls}

LEMMA WithinSpares ==
  ASSUME NEW regs, NEW plls, NEW reg, reg \notin regs, NEW bits
  PROVE  Within(regs, plls) \subseteq Spares(reg, bits)
  BY DEF Within, Spares

LEMMA ShortKept ==
  ASSUME NEW K
  PROVE  /\ \A a \in K : Kept(<< a >>, K)
         /\ \A a, b \in K : Kept(<< a, b >>, K)
         /\ \A a, b, c \in K : Kept(<< a, b, c >>, K)
         /\ \A a, b, c, d \in K : Kept(<< a, b, c, d >>, K)
  <1>1. ASSUME NEW a \in K PROVE Kept(<< a >>, K)
    BY DEF Kept
  <1>2. ASSUME NEW a \in K, NEW b \in K PROVE Kept(<< a, b >>, K)
    BY DEF Kept
  <1>3. ASSUME NEW a \in K, NEW b \in K, NEW c \in K PROVE Kept(<< a, b, c >>, K)
    BY DEF Kept
  <1>4. ASSUME NEW a \in K, NEW b \in K, NEW c \in K, NEW d \in K PROVE Kept(<< a, b, c, d >>, K)
    BY DEF Kept
  <1> QED BY <1>1, <1>2, <1>3, <1>4

LEMMA ThreeAccesses == \A a, b, c \in Accesses : << a, b, c >> \in Seq(Accesses)
  OBVIOUS

LEMMA LastGiven ==
  ASSUME NEW G, NEW K, NEW a, NEW b \in G
  PROVE  Given(<< a, b >>, G, K)
  BY DEF Given

LEMMA MiddleGiven ==
  ASSUME NEW G, NEW K, NEW a, NEW b \in G, NEW c \in K
  PROVE  Given(<< a, b, c >>, G, K)
  <1> DEFINE s == << a, b, c >>
  <1>1. Len(s) = 3 /\ s[2] = b /\ s[3] = c
    OBVIOUS
  <1>2. \A j \in 3 .. 3 : s[j] \in K
    BY <1>1
  <1> QED BY <1>1, <1>2 DEF Given

LEMMA ThirdGiven ==
  ASSUME NEW G, NEW K, NEW a, NEW b, NEW c \in G
  PROVE  Given(<< a, b, c >>, G, K)
  BY DEF Given

LEMMA SecondGiven ==
  ASSUME NEW G, NEW K, NEW a, NEW b \in G, NEW c \in K, NEW d \in K
  PROVE  Given(<< a, b, c, d >>, G, K)
  <1> DEFINE s == << a, b, c, d >>
  <1>1. Len(s) = 4 /\ s[2] = b /\ s[3] = c /\ s[4] = d
    OBVIOUS
  <1>2. \A j \in 3 .. 4 : s[j] \in K
    BY <1>1
  <1> QED BY <1>1, <1>2 DEF Given

LEMMA FourthGiven ==
  ASSUME NEW G, NEW K, NEW a, NEW b, NEW c, NEW d \in G
  PROVE  Given(<< a, b, c, d >>, G, K)
  BY DEF Given

LEMMA OpOfAssert ==
  ASSUME NEW holds \in BOOLEAN
  PROVE  /\ Assert(holds) \in Accesses /\ Assert(holds).op = "assert"
         /\ Assert(holds).holds = holds
  BY AssertAccess, OtherAccess DEF Assert

LEMMA OpOfWrite ==
  ASSUME NEW reg \in Registers, NEW clr \in SUBSET Int, NEW set \in SUBSET Int
  PROVE  LET a == ClrSet(reg, clr, set)
         IN /\ a \in Accesses /\ a.op = "write" /\ a.reg = reg /\ a.set = set \cap 0 .. 15
            /\ a.mask = ((clr \cup set) \cap 0 .. 15) \cup {b - 16 : b \in set \cap 16 .. 31}
  BY WriteAccess, OtherAccess DEF ClrSet

LEMMA AssertWithin ==
  ASSUME NEW holds \in BOOLEAN, NEW regs, NEW plls
  PROVE  Assert(holds) \in Within(regs, plls)
  BY OpOfAssert DEF Within, Later

LEMMA WriteWithin ==
  ASSUME NEW reg \in Registers, NEW clr \in SUBSET Int, NEW set \in SUBSET Int,
         NEW regs, NEW plls, reg \in regs
  PROVE  ClrSet(reg, clr, set) \in Within(regs, plls)
  BY OpOfWrite DEF Within, Later

LEMMA PllWithin ==
  ASSUME NEW op \in Later \cup {"slow"}, NEW p \in PLLs, NEW div \in Dividers,
         NEW regs, NEW plls, p \in plls
  PROVE  PllOp(op, p, div) \in Within(regs, plls)
  BY PllAccess DEF Within, Later

LEMMA AssertSpares ==
  ASSUME NEW holds \in BOOLEAN, NEW reg, NEW bits
  PROVE  Assert(holds) \in Spares(reg, bits)
  BY OpOfAssert DEF Spares

LEMMA WriteRaises ==
  ASSUME NEW reg \in Registers, NEW clr \in SUBSET Int, NEW set \in SUBSET Int,
         NEW ones, NEW zeros, ones \subseteq set \cap 0 .. 15,
         zeros \subseteq clr \cap 0 .. 15, zeros \cap set = {}
  PROVE  ClrSet(reg, clr, set) \in Raises(reg, ones, zeros)
  BY OpOfWrite DEF Raises

LEMMA WriteElsewhere ==
  ASSUME NEW reg \in Registers, NEW clr \in SUBSET Int, NEW set \in SUBSET Int,
         NEW other, other # reg, NEW bits
  PROVE  ClrSet(reg, clr, set) \in Spares(other, bits)
  BY OpOfWrite DEF Spares

LEMMA WriteBeside ==
  ASSUME NEW reg \in Registers, NEW clr \in SUBSET Int, NEW set \in SUBSET Int,
         set \subseteq 0 .. 15, NEW bits, bits \cap (clr \cup set) = {}
  PROVE  ClrSet(reg, clr, set) \in Spares(reg, bits)
  <1>1. {b - 16 : b \in set \cap 16 .. 31} = {}
    OBVIOUS
  <1> QED BY <1>1, OpOfWrite DEF Spares

(***************************************************************************)
(* What each function of CRULib leaves alone, and what it gives.           *)
(***************************************************************************)
LEMMA set_pll_Within ==
  ASSUME NEW p \in PLLs, NEW div \in Dividers, NEW regs, NEW plls, p \in plls
  PROVE  Kept(rkclk_set_pll(p, div), Within(regs, plls))
  <1> DEFINE K == Within(regs, plls)
  <1>1. PllInRange(div) \in BOOLEAN
    BY DEF PllInRange
  <1>2. Assert(PllInRange(div)) \in K
    BY <1>1, AssertWithin
  <1>3. \A op \in Later \cup {"slow"} : PllOp(op, p, div) \in K
    BY PllWithin
  <1> HIDE DEF K
  <1>4. /\ PllOp("slow", p, div) \in K /\ PllOp("integer", p, div) \in K
        /\ PllOp("fbdiv", p, div) \in K /\ PllOp("divisors", p, div) \in K
        /\ PllOp("lock", p, div) \in K /\ PllOp("normal", p, div) \in K
    BY <1>3 DEF Later
  <1> QED BY <1>2, <1>4 DEF Kept, rkclk_set_pll, K

\* The fields of a cluster, as its frequency asks for them.
CpuWrites(khz, c) ==
  << Assert(\A d \in {AtLeast(khz, 300 * MHz), AtLeast(khz, 100 * MHz), AtLeast(khz, 300 * MHz)} :
              0 <= d /\ d < 31),
     ClrSet(ConBase(c), Bits(0, 5),
            At(AtLeast(khz, 300 * MHz), 8) \cup At(IF c = CPU_CLUSTER_LITTLE THEN 0 ELSE 1, 6)),
     ClrSet(ConBase(c) + 1, Bits(0, 5),
            At(AtLeast(khz, 100 * MHz), 8) \cup At(AtLeast(khz, 300 * MHz), 0)) >>

LEMMA configure_cpu_Split ==
  ASSUME NEW khz \in ApllFrequencies, NEW c
  PROVE  /\ rk3399_configure_cpu(khz, c) = rkclk_set_pll(ApllOf(c), apll_cfgs(khz)) \o CpuWrites(khz, c)
         /\ rkclk_set_pll(ApllOf(c), apll_cfgs(khz)) \in Seq(Accesses)
         /\ CpuWrites(khz, c) \in Seq(Accesses)
         /\ ApllOf(c) \in PLLs /\ apll_cfgs(khz) \in Dividers
  <1>1. ApllOf(c) \in PLLs /\ apll_cfgs(khz) \in Dividers
    BY DEF Dividers, ApllOf, PLLs
  <1>2. rkclk_set_pll(ApllOf(c), apll_cfgs(khz)) \in Seq(Accesses)
    BY <1>1, rkclk_set_pll_Program DEF Program
  <1>3. {ConBase(c), ConBase(c) + 1} \subseteq Registers
    BY DEF ConBase, Registers
  <1>4. /\ Bits(0, 5) \in SUBSET Int
        /\ At(AtLeast(khz, 300 * MHz), 8) \cup At(IF c = CPU_CLUSTER_LITTLE THEN 0 ELSE 1, 6) \in SUBSET Int
        /\ At(AtLeast(khz, 100 * MHz), 8) \cup At(AtLeast(khz, 300 * MHz), 0) \in SUBSET Int
    BY Masks
  <1>5. CpuWrites(khz, c) \in Seq(Accesses)
    <2> DEFINE low == At(AtLeast(khz, 300 * MHz), 8) \cup At(IF c = CPU_CLUSTER_LITTLE THEN 0 ELSE 1, 6)
               high == At(AtLeast(khz, 100 * MHz), 8) \cup At(AtLeast(khz, 300 * MHz), 0)
               fit == \A d \in {AtLeast(khz, 300 * MHz), AtLeast(khz, 100 * MHz),
                                AtLeast(khz, 300 * MHz)} : 0 <= d /\ d < 31
    <2>1. CpuWrites(khz, c)
            = << Assert(fit), ClrSet(ConBase(c), Bits(0, 5), low),
                 ClrSet(ConBase(c) + 1, Bits(0, 5), high) >>
      BY DEF CpuWrites
    <2>2. fit \in BOOLEAN /\ low \in SUBSET Int /\ high \in SUBSET Int /\ Bits(0, 5) \in SUBSET Int
      BY <1>4
    <2> HIDE DEF low, high, fit
    <2>3. Assert(fit) \in Accesses
      BY <2>2, OpOfAssert
    <2>4. ClrSet(ConBase(c), Bits(0, 5), low) \in Accesses
      BY <1>3, <2>2, WriteAccess DEF Accesses
    <2>5. ClrSet(ConBase(c) + 1, Bits(0, 5), high) \in Accesses
      BY <1>3, <2>2, WriteAccess DEF Accesses
    <2> QED BY <2>1, <2>3, <2>4, <2>5, ThreeAccesses
  <1>6. rk3399_configure_cpu(khz, c) = rkclk_set_pll(ApllOf(c), apll_cfgs(khz)) \o CpuWrites(khz, c)
    BY DEF rk3399_configure_cpu, CpuWrites
  <1> QED BY <1>1, <1>2, <1>5, <1>6

LEMMA configure_cpu_Within ==
  ASSUME NEW khz \in ApllFrequencies, NEW c
  PROVE  Kept(rk3399_configure_cpu(khz, c), Within({ConBase(c), ConBase(c) + 1}, {ApllOf(c)}))
  <1> DEFINE regs == {ConBase(c), ConBase(c) + 1}
             K == Within(regs, {ApllOf(c)})
             low == At(AtLeast(khz, 300 * MHz), 8) \cup At(IF c = CPU_CLUSTER_LITTLE THEN 0 ELSE 1, 6)
             high == At(AtLeast(khz, 100 * MHz), 8) \cup At(AtLeast(khz, 300 * MHz), 0)
             fit == \A d \in {AtLeast(khz, 300 * MHz), AtLeast(khz, 100 * MHz), AtLeast(khz, 300 * MHz)} :
                      0 <= d /\ d < 31
  <1>1. Kept(rkclk_set_pll(ApllOf(c), apll_cfgs(khz)), K)
    BY set_pll_Within, configure_cpu_Split
  <1>2. regs \subseteq Registers /\ Bits(0, 5) \in SUBSET Int /\ low \in SUBSET Int /\ high \in SUBSET Int
    BY Masks DEF ConBase, Registers
  <1>3. /\ ClrSet(ConBase(c), Bits(0, 5), low) \in K
        /\ ClrSet(ConBase(c) + 1, Bits(0, 5), high) \in K
    BY <1>2, WriteWithin
  <1>4. Assert(fit) \in K
    BY AssertWithin
  <1>5. Kept(CpuWrites(khz, c), K)
    <2> HIDE DEF K, low, high, fit
    <2>1. Kept(<< Assert(fit), ClrSet(ConBase(c), Bits(0, 5), low),
                  ClrSet(ConBase(c) + 1, Bits(0, 5), high) >>, K)
      BY <1>3, <1>4, ShortKept
    <2> QED BY <2>1 DEF CpuWrites, low, high, fit
  <1> QED BY <1>1, <1>5, configure_cpu_Split, KeptThenKept

\* The three dividers of a cluster.
AclkmBits(khz) == At(AtLeast(khz, 300 * MHz), 8)
DebugBits(khz) == At(AtLeast(khz, 100 * MHz), 8)
AtclkBits(khz) == At(AtLeast(khz, 300 * MHz), 0)

LEMMA CpuDividers ==
  ASSUME NEW khz \in ApllFrequencies
  PROVE  /\ Fits(AtLeast(khz, 300 * MHz), 5) /\ AtLeast(khz, 300 * MHz) + 1 = khz \div (300 * MHz)
         /\ Fits(AtLeast(khz, 100 * MHz), 5) /\ AtLeast(khz, 100 * MHz) + 1 = khz \div (100 * MHz)
         /\ AtLeast(khz, 300 * MHz) < 31 /\ AtLeast(khz, 100 * MHz) < 31
         /\ AclkmBits(khz) \subseteq 8 .. 12 /\ DebugBits(khz) \subseteq 8 .. 12
         /\ AtclkBits(khz) \subseteq 0 .. 4
  <1>1. khz \in {1700000, 1600000, 1300000, 816000, 600000}
    BY DEF ApllFrequencies, MHz
  <1>2. /\ Fits(AtLeast(khz, 300 * MHz), 5) /\ AtLeast(khz, 300 * MHz) + 1 = khz \div (300 * MHz)
        /\ AtLeast(khz, 300 * MHz) < 31
    BY <1>1 DEF Fits, AtLeast, MHz, PowersOf2
  <1>3. /\ Fits(AtLeast(khz, 100 * MHz), 5) /\ AtLeast(khz, 100 * MHz) + 1 = khz \div (100 * MHz)
        /\ AtLeast(khz, 100 * MHz) < 31
    BY <1>1 DEF Fits, AtLeast, MHz, PowersOf2
  <1>4. /\ AclkmBits(khz) \subseteq Bits(8, 5) /\ DebugBits(khz) \subseteq Bits(8, 5)
        /\ AtclkBits(khz) \subseteq Bits(0, 5)
    BY <1>2, <1>3, AtInField DEF AclkmBits, DebugBits, AtclkBits, Widths
  <1> QED BY <1>2, <1>3, <1>4 DEF Bits

LEMMA configure_cpu_Gives ==
  ASSUME NEW khz \in ApllFrequencies, NEW c
  PROVE  /\ Given(rk3399_configure_cpu(khz, c),
                  Raises(ConBase(c), AclkmBits(khz), {}), Spares(ConBase(c), AclkmBits(khz) \cup {}))
         /\ Given(rk3399_configure_cpu(khz, c),
                  Raises(ConBase(c) + 1, DebugBits(khz), {}),
                  Spares(ConBase(c) + 1, DebugBits(khz) \cup {}))
         /\ Given(rk3399_configure_cpu(khz, c),
                  Raises(ConBase(c) + 1, AtclkBits(khz), Bits(0, 5) \ AtclkBits(khz)),
                  Spares(ConBase(c) + 1, AtclkBits(khz) \cup (Bits(0, 5) \ AtclkBits(khz))))
  <1> DEFINE low == At(AtLeast(khz, 300 * MHz), 8) \cup At(IF c = CPU_CLUSTER_LITTLE THEN 0 ELSE 1, 6)
             high == At(AtLeast(khz, 100 * MHz), 8) \cup At(AtLeast(khz, 300 * MHz), 0)
             fit == Assert(\A d \in {AtLeast(khz, 300 * MHz), AtLeast(khz, 100 * MHz),
                                     AtLeast(khz, 300 * MHz)} : 0 <= d /\ d < 31)
             first == ClrSet(ConBase(c), Bits(0, 5), low)
             second == ClrSet(ConBase(c) + 1, Bits(0, 5), high)
             rest == CpuWrites(khz, c)
  <1>1. rest = << fit, first, second >>
    BY DEF CpuWrites
  <1>2. /\ {ConBase(c), ConBase(c) + 1} \subseteq Registers /\ ConBase(c) # ConBase(c) + 1
        /\ Bits(0, 5) \in SUBSET Int /\ low \in SUBSET Int /\ high \in SUBSET Int
    BY Masks DEF ConBase, Registers
  <1>3. /\ AclkmBits(khz) \subseteq low \cap 0 .. 15
        /\ DebugBits(khz) \subseteq high \cap 0 .. 15 /\ AtclkBits(khz) \subseteq high \cap 0 .. 15
        /\ (Bits(0, 5) \ AtclkBits(khz)) \cap high = {} /\ Bits(0, 5) \subseteq 0 .. 15
    BY CpuDividers DEF AclkmBits, DebugBits, AtclkBits, Bits
  <1>4. /\ first \in Raises(ConBase(c), AclkmBits(khz), {})
        /\ second \in Spares(ConBase(c), AclkmBits(khz) \cup {})
    BY <1>2, <1>3, WriteRaises, WriteElsewhere
  <1>5. second \in Raises(ConBase(c) + 1, DebugBits(khz), {})
    BY <1>2, <1>3, WriteRaises
  <1>6. second \in Raises(ConBase(c) + 1, AtclkBits(khz), Bits(0, 5) \ AtclkBits(khz))
    BY <1>2, <1>3, WriteRaises
  <1> HIDE DEF first, second, fit, rest, low, high
  <1>7. Given(rest, Raises(ConBase(c), AclkmBits(khz), {}), Spares(ConBase(c), AclkmBits(khz) \cup {}))
    BY <1>1, <1>4, MiddleGiven
  <1>8. Given(rest, Raises(ConBase(c) + 1, DebugBits(khz), {}),
              Spares(ConBase(c) + 1, DebugBits(khz) \cup {}))
    BY <1>1, <1>5, ThirdGiven
  <1>9. Given(rest, Raises(ConBase(c) + 1, AtclkBits(khz), Bits(0, 5) \ AtclkBits(khz)),
              Spares(ConBase(c) + 1, AtclkBits(khz) \cup (Bits(0, 5) \ AtclkBits(khz))))
    BY <1>1, <1>6, ThirdGiven
  <1> QED BY <1>7, <1>8, <1>9, configure_cpu_Split, ThenGiven DEF rest

\* What a call leaves in a field of five bits.
RaisesTo(reg, shift, n) == Raises(reg, At(n, shift), Bits(shift, 5) \ At(n, shift))

SparesField(reg, shift, n) == Spares(reg, At(n, shift) \cup (Bits(shift, 5) \ At(n, shift)))

LEMMA WriteField ==
  ASSUME NEW reg \in Registers, NEW clr \in SUBSET Int, NEW set \in SUBSET Int,
         NEW shift \in 0 .. 11, NEW n, Fits(n, 5), At(n, shift) \subseteq set,
         Bits(shift, 5) \subseteq clr, (Bits(shift, 5) \ At(n, shift)) \cap set = {}
  PROVE  ClrSet(reg, clr, set) \in RaisesTo(reg, shift, n)
  <1>1. At(n, shift) \subseteq Bits(shift, 5)
    BY AtInField DEF Widths
  <1>2. Bits(shift, 5) \subseteq 0 .. 15
    BY DEF Bits
  <1> QED BY <1>1, <1>2, WriteRaises DEF RaisesTo

LEMMA WriteBesideField ==
  ASSUME NEW reg \in Registers, NEW clr \in SUBSET Int, NEW set \in SUBSET Int,
         set \subseteq 0 .. 15, NEW shift \in 0 .. 11, NEW n, Fits(n, 5),
         Bits(shift, 5) \cap (clr \cup set) = {}
  PROVE  ClrSet(reg, clr, set) \in SparesField(reg, shift, n)
  <1>1. At(n, shift) \subseteq Bits(shift, 5)
    BY AtInField DEF Widths
  <1> QED BY <1>1, WriteBeside DEF SparesField

\* Assertions that hold.
Passing == {a \in Accesses : a.op = "assert" => a.holds}

LEMMA AssertPasses ==
  ASSUME NEW holds \in BOOLEAN
  PROVE  Assert(holds) \in Passing <=> holds
  BY OpOfAssert DEF Passing

LEMMA WritePasses ==
  ASSUME NEW reg \in Registers, NEW clr \in SUBSET Int, NEW set \in SUBSET Int
  PROVE  ClrSet(reg, clr, set) \in Passing
  BY OpOfWrite DEF Passing

LEMMA PllPasses ==
  ASSUME NEW op \in Later \cup {"slow"}, NEW p \in PLLs, NEW div \in Dividers
  PROVE  PllOp(op, p, div) \in Passing
  BY PllAccess DEF Passing, Later

\* The accesses of the buses of HDCP and VIO.
HdcpA(khz) == GPLL_HZ \div khz
HdcpHp(khz) == (2 * GPLL_HZ) \div khz

Hdcp42(a) == ClrSet(42, Bits(14, 2) \cup Bits(8, 5), {14} \cup At(a - 1, 8))
Hdcp43(hp) == ClrSet(43, Bits(10, 5) \cup Bits(5, 5), At(hp - 1, 10) \cup At(hp - 1, 5))
Vio42(a) == ClrSet(42, Bits(6, 2) \cup Bits(0, 5), {6} \cup At(a - 1, 0))
Vio43(p) == ClrSet(43, Bits(0, 5), At(p - 1, 0))

LEMMA SharedWrites ==
  ASSUME NEW n
  PROVE  /\ Hdcp42(n) \in OtherAccesses /\ Hdcp43(n) \in OtherAccesses
         /\ Vio42(n) \in OtherAccesses /\ Vio43(n) \in OtherAccesses
         /\ \A a \in {Hdcp42(n), Vio42(n)} : a.op = "write" /\ a.reg = 42
         /\ \A a \in {Hdcp43(n), Vio43(n)} : a.op = "write" /\ a.reg = 43
  <1>1. {42, 43} \subseteq Registers
    BY DEF Registers
  <1>2. /\ Bits(14, 2) \cup Bits(8, 5) \in SUBSET Int /\ {14} \cup At(n - 1, 8) \in SUBSET Int
        /\ Bits(10, 5) \cup Bits(5, 5) \in SUBSET Int
        /\ At(n - 1, 10) \cup At(n - 1, 5) \in SUBSET Int
        /\ Bits(6, 2) \cup Bits(0, 5) \in SUBSET Int /\ {6} \cup At(n - 1, 0) \in SUBSET Int
        /\ Bits(0, 5) \in SUBSET Int /\ At(n - 1, 0) \in SUBSET Int
    BY Masks
  <1>3. Hdcp42(n) \in OtherAccesses
    BY <1>1, <1>2, WriteAccess DEF Hdcp42
  <1>4. Hdcp43(n) \in OtherAccesses
    BY <1>1, <1>2, WriteAccess DEF Hdcp43
  <1>5. Vio42(n) \in OtherAccesses
    BY <1>1, <1>2, WriteAccess DEF Vio42
  <1>6. Vio43(n) \in OtherAccesses
    BY <1>1, <1>2, WriteAccess DEF Vio43
  <1>7. /\ \A a \in {Hdcp42(n), Vio42(n)} : a.op = "write" /\ a.reg = 42
        /\ \A a \in {Hdcp43(n), Vio43(n)} : a.op = "write" /\ a.reg = 43
    BY DEF Hdcp42, Hdcp43, Vio42, Vio43, ClrSet
  <1> QED BY <1>3, <1>4, <1>5, <1>6, <1>7

\* Each of them writes its own fields and spares the others, while its number fits.
LEMMA SharedFields ==
  ASSUME NEW n \in 1 .. 32
  PROVE  /\ Fits(n - 1, 5)
         /\ Hdcp42(n) \in RaisesTo(42, 8, n - 1)
         /\ Hdcp43(n) \in RaisesTo(43, 10, n - 1) /\ Hdcp43(n) \in RaisesTo(43, 5, n - 1)
         /\ Vio42(n) \in RaisesTo(42, 0, n - 1) /\ Vio43(n) \in RaisesTo(43, 0, n - 1)
         /\ \A m : Fits(m, 5) =>
              /\ Hdcp42(n) \in SparesField(42, 0, m) /\ Hdcp43(n) \in SparesField(43, 0, m)
              /\ Vio42(n) \in SparesField(42, 8, m)
              /\ Vio43(n) \in SparesField(43, 10, m) /\ Vio43(n) \in SparesField(43, 5, m)
  <1>1. Fits(n - 1, 5)
    BY DEF Fits, PowersOf2
  <1>2. /\ At(n - 1, 8) \subseteq Bits(8, 5) /\ At(n - 1, 10) \subseteq Bits(10, 5)
        /\ At(n - 1, 5) \subseteq Bits(5, 5) /\ At(n - 1, 0) \subseteq Bits(0, 5)
    BY <1>1, AtInField DEF Widths
  <1>3. /\ Bits(14, 2) = 14 .. 15 /\ Bits(8, 5) = 8 .. 12 /\ Bits(10, 5) = 10 .. 14
        /\ Bits(5, 5) = 5 .. 9 /\ Bits(0, 5) = 0 .. 4 /\ Bits(6, 2) = 6 .. 7
    BY DEF Bits
  <1>4. {42, 43} \subseteq Registers
    BY DEF Registers
  <1>5. Hdcp42(n) \in RaisesTo(42, 8, n - 1)
    BY <1>1, <1>2, <1>3, <1>4, WriteField DEF Hdcp42
  <1>6. Hdcp43(n) \in RaisesTo(43, 10, n - 1)
    BY <1>1, <1>2, <1>3, <1>4, WriteField DEF Hdcp43
  <1>7. Hdcp43(n) \in RaisesTo(43, 5, n - 1)
    BY <1>1, <1>2, <1>3, <1>4, WriteField DEF Hdcp43
  <1>8. Vio42(n) \in RaisesTo(42, 0, n - 1)
    BY <1>1, <1>2, <1>3, <1>4, WriteField DEF Vio42
  <1>9. Vio43(n) \in RaisesTo(43, 0, n - 1)
    BY <1>1, <1>2, <1>3, <1>4, WriteField DEF Vio43
  <1>10. ASSUME NEW m, Fits(m, 5)
         PROVE  /\ Hdcp42(n) \in SparesField(42, 0, m) /\ Hdcp43(n) \in SparesField(43, 0, m)
                /\ Vio42(n) \in SparesField(42, 8, m)
                /\ Vio43(n) \in SparesField(43, 10, m) /\ Vio43(n) \in SparesField(43, 5, m)
    <2>1. Hdcp42(n) \in SparesField(42, 0, m)
      BY <1>2, <1>3, <1>4, <1>10, WriteBesideField DEF Hdcp42
    <2>2. Hdcp43(n) \in SparesField(43, 0, m)
      BY <1>2, <1>3, <1>4, <1>10, WriteBesideField DEF Hdcp43
    <2>3. Vio42(n) \in SparesField(42, 8, m)
      BY <1>2, <1>3, <1>4, <1>10, WriteBesideField DEF Vio42
    <2>4. Vio43(n) \in SparesField(43, 10, m)
      BY <1>2, <1>3, <1>4, <1>10, WriteBesideField DEF Vio43
    <2>5. Vio43(n) \in SparesField(43, 5, m)
      BY <1>2, <1>3, <1>4, <1>10, WriteBesideField DEF Vio43
    <2> QED BY <2>1, <2>2, <2>3, <2>4, <2>5
  <1> QED BY <1>1, <1>5, <1>6, <1>7, <1>8, <1>9, <1>10

LEMMA SharedCalls ==
  ASSUME NEW khz
  PROVE  /\ rk3399_hdcp_set_clk(khz)
              = << Assert(HdcpA(khz) \in 1 .. 32), Hdcp42(HdcpA(khz)),
                   Assert(HdcpHp(khz) \in 1 .. 32), Hdcp43(HdcpHp(khz)) >>
         /\ rk3399_vio_set_clk(khz)
              = << Assert(HdcpA(khz) \in 1 .. 32), Vio42(HdcpA(khz)),
                   Assert(HdcpHp(khz) \in 1 .. 32), Vio43(HdcpHp(khz)) >>
  BY DEF rk3399_hdcp_set_clk, rk3399_vio_set_clk, HdcpA, HdcpHp, Hdcp42, Hdcp43, Vio42, Vio43

LEMMA SharedWithin ==
  ASSUME NEW khz
  PROVE  /\ Kept(rk3399_hdcp_set_clk(khz), Within({42, 43}, {}))
         /\ Kept(rk3399_vio_set_clk(khz), Within({42, 43}, {}))
  <1> DEFINE K == Within({42, 43}, {})
             a == HdcpA(khz)
             hp == HdcpHp(khz)
  <1>0. (a \in 1 .. 32) \in BOOLEAN /\ (hp \in 1 .. 32) \in BOOLEAN
    OBVIOUS
  <1>1. Assert(a \in 1 .. 32) \in K
    BY <1>0, AssertWithin
  <1>2. Assert(hp \in 1 .. 32) \in K
    BY <1>0, AssertWithin
  <1>3. \A n : /\ Hdcp42(n) \in K /\ Hdcp43(n) \in K
               /\ Vio42(n) \in K /\ Vio43(n) \in K
    BY SharedWrites DEF Within, Accesses, Later
  <1> HIDE DEF K, a, hp
  <1>4. Kept(<< Assert(a \in 1 .. 32), Hdcp42(a), Assert(hp \in 1 .. 32), Hdcp43(hp) >>, K)
    BY <1>1, <1>2, <1>3, ShortKept
  <1>5. Kept(<< Assert(a \in 1 .. 32), Vio42(a), Assert(hp \in 1 .. 32), Vio43(hp) >>, K)
    BY <1>1, <1>2, <1>3, ShortKept
  <1> QED BY <1>4, <1>5, SharedCalls DEF K, a, hp

\* A call passes its assertions exactly when its dividers fit.
LEMMA SharedPassing ==
  ASSUME NEW khz
  PROVE  /\ Kept(rk3399_hdcp_set_clk(khz), Passing) <=> {HdcpA(khz), HdcpHp(khz)} \subseteq 1 .. 32
         /\ Kept(rk3399_vio_set_clk(khz), Passing) <=> {HdcpA(khz), HdcpHp(khz)} \subseteq 1 .. 32
  <1> DEFINE a == HdcpA(khz)
             hp == HdcpHp(khz)
             A == Assert(a \in 1 .. 32)
             B == Assert(hp \in 1 .. 32)
  <1>1. (A \in Passing <=> a \in 1 .. 32) /\ (B \in Passing <=> hp \in 1 .. 32)
    <2>1. (a \in 1 .. 32) \in BOOLEAN /\ (hp \in 1 .. 32) \in BOOLEAN
      OBVIOUS
    <2> QED BY <2>1, AssertPasses
  <1>2. \A n : /\ Hdcp42(n) \in Passing /\ Hdcp43(n) \in Passing
               /\ Vio42(n) \in Passing /\ Vio43(n) \in Passing
    BY SharedWrites DEF Passing, Accesses
  <1> HIDE DEF A, B
  <1>3. \A x, y : LET s == << A, x, B, y >>
                  IN x \in Passing /\ y \in Passing =>
                       (Kept(s, Passing) <=> A \in Passing /\ B \in Passing)
    <2> SUFFICES ASSUME NEW x \in Passing, NEW y \in Passing
                 PROVE  Kept(<< A, x, B, y >>, Passing) <=> A \in Passing /\ B \in Passing
      OBVIOUS
    <2> DEFINE s == << A, x, B, y >>
    <2>1. Len(s) = 4 /\ s[1] = A /\ s[2] = x /\ s[3] = B /\ s[4] = y
      OBVIOUS
    <2> HIDE DEF s
    <2>2. \A i \in 1 .. 4 : i = 1 \/ i = 2 \/ i = 3 \/ i = 4
      OBVIOUS
    <2>3. Kept(s, Passing) <=> A \in Passing /\ B \in Passing
      BY <2>1, <2>2 DEF Kept
    <2> QED BY <2>3 DEF s
  <1>4. /\ Kept(<< A, Hdcp42(a), B, Hdcp43(hp) >>, Passing) <=> a \in 1 .. 32 /\ hp \in 1 .. 32
        /\ Kept(<< A, Vio42(a), B, Vio43(hp) >>, Passing) <=> a \in 1 .. 32 /\ hp \in 1 .. 32
    BY <1>1, <1>2, <1>3
  <1> QED BY <1>4, SharedCalls DEF A, B

\* What a call gives its own bus, and what it keeps of the other's.
LEMMA hdcp_set_clk_Gives ==
  ASSUME NEW khz, {HdcpA(khz), HdcpHp(khz)} \subseteq 1 .. 32
  PROVE  LET s == rk3399_hdcp_set_clk(khz)
             a == HdcpA(khz) - 1
             hp == HdcpHp(khz) - 1
         IN /\ Given(s, RaisesTo(42, 8, a), SparesField(42, 8, a))
            /\ Given(s, RaisesTo(43, 10, hp), SparesField(43, 10, hp))
            /\ Given(s, RaisesTo(43, 5, hp), SparesField(43, 5, hp))
            /\ \A m : Fits(m, 5) => /\ Kept(s, SparesField(42, 0, m))
                                    /\ Kept(s, SparesField(43, 0, m))
  <1> DEFINE a == HdcpA(khz)
             hp == HdcpHp(khz)
             A == Assert(a \in 1 .. 32)
             B == Assert(hp \in 1 .. 32)
  <1>1. \A reg, shift, n : A \in SparesField(reg, shift, n) /\ B \in SparesField(reg, shift, n)
    BY AssertSpares DEF SparesField
  <1>2. \A shift, n : Hdcp42(a) \in SparesField(43, shift, n)
    BY SharedWrites DEF SparesField, Spares, Accesses
  <1>3. \A shift, n : Hdcp43(hp) \in SparesField(42, shift, n)
    BY SharedWrites DEF SparesField, Spares, Accesses
  <1>4. a \in 1 .. 32 /\ hp \in 1 .. 32
    OBVIOUS
  <1>5. rk3399_hdcp_set_clk(khz) = << A, Hdcp42(a), B, Hdcp43(hp) >>
    BY SharedCalls
  <1> HIDE DEF A, B, a, hp
  <1>6. Given(<< A, Hdcp42(a), B, Hdcp43(hp) >>, RaisesTo(42, 8, a - 1), SparesField(42, 8, a - 1))
    BY <1>1, <1>3, <1>4, SharedFields, SecondGiven
  <1>7. Given(<< A, Hdcp42(a), B, Hdcp43(hp) >>, RaisesTo(43, 10, hp - 1), SparesField(43, 10, hp - 1))
    BY <1>4, SharedFields, FourthGiven
  <1>8. Given(<< A, Hdcp42(a), B, Hdcp43(hp) >>, RaisesTo(43, 5, hp - 1), SparesField(43, 5, hp - 1))
    BY <1>4, SharedFields, FourthGiven
  <1>9. ASSUME NEW m, Fits(m, 5)
        PROVE  Kept(<< A, Hdcp42(a), B, Hdcp43(hp) >>, SparesField(42, 0, m))
    BY <1>1, <1>3, <1>4, <1>9, SharedFields, ShortKept
  <1>10. ASSUME NEW m, Fits(m, 5)
         PROVE  Kept(<< A, Hdcp42(a), B, Hdcp43(hp) >>, SparesField(43, 0, m))
    BY <1>1, <1>2, <1>4, <1>10, SharedFields, ShortKept
  <1> QED BY <1>5, <1>6, <1>7, <1>8, <1>9, <1>10 DEF a, hp

LEMMA vio_set_clk_Gives ==
  ASSUME NEW khz, {HdcpA(khz), HdcpHp(khz)} \subseteq 1 .. 32
  PROVE  LET s == rk3399_vio_set_clk(khz)
             a == HdcpA(khz) - 1
             p == HdcpHp(khz) - 1
         IN /\ Given(s, RaisesTo(42, 0, a), SparesField(42, 0, a))
            /\ Given(s, RaisesTo(43, 0, p), SparesField(43, 0, p))
            /\ \A m : Fits(m, 5) => /\ Kept(s, SparesField(42, 8, m))
                                    /\ Kept(s, SparesField(43, 10, m))
                                    /\ Kept(s, SparesField(43, 5, m))
  <1> DEFINE a == HdcpA(khz)
             p == HdcpHp(khz)
             A == Assert(a \in 1 .. 32)
             B == Assert(p \in 1 .. 32)
  <1>1. \A reg, shift, n : A \in SparesField(reg, shift, n) /\ B \in SparesField(reg, shift, n)
    BY AssertSpares DEF SparesField
  <1>2. \A shift, n : Vio42(a) \in SparesField(43, shift, n)
    BY SharedWrites DEF SparesField, Spares, Accesses
  <1>3. \A shift, n : Vio43(p) \in SparesField(42, shift, n)
    BY SharedWrites DEF SparesField, Spares, Accesses
  <1>4. a \in 1 .. 32 /\ p \in 1 .. 32
    OBVIOUS
  <1>5. rk3399_vio_set_clk(khz) = << A, Vio42(a), B, Vio43(p) >>
    BY SharedCalls
  <1> HIDE DEF A, B, a, p
  <1>6. Given(<< A, Vio42(a), B, Vio43(p) >>, RaisesTo(42, 0, a - 1), SparesField(42, 0, a - 1))
    BY <1>1, <1>3, <1>4, SharedFields, SecondGiven
  <1>7. Given(<< A, Vio42(a), B, Vio43(p) >>, RaisesTo(43, 0, p - 1), SparesField(43, 0, p - 1))
    BY <1>4, SharedFields, FourthGiven
  <1>8. ASSUME NEW m, Fits(m, 5)
        PROVE  Kept(<< A, Vio42(a), B, Vio43(p) >>, SparesField(42, 8, m))
    BY <1>1, <1>3, <1>4, <1>8, SharedFields, ShortKept
  <1>9. ASSUME NEW m, Fits(m, 5)
        PROVE  Kept(<< A, Vio42(a), B, Vio43(p) >>, SparesField(43, 10, m))
    BY <1>1, <1>2, <1>4, <1>9, SharedFields, ShortKept
  <1>10. ASSUME NEW m, Fits(m, 5)
         PROVE  Kept(<< A, Vio42(a), B, Vio43(p) >>, SparesField(43, 5, m))
    BY <1>1, <1>2, <1>4, <1>10, SharedFields, ShortKept
  <1> QED BY <1>5, <1>6, <1>7, <1>8, <1>9, <1>10 DEF a, p

(***************************************************************************)
(* What a PLL is set to, and will be set to at rest.                       *)
(***************************************************************************)
With(op, p, div) == {a \in Accesses : a.op = op /\ a.pll = p /\ a.div = div}

NoneOf(ops, p) == {a \in Accesses : ~(a.op \in ops /\ a.pll = p)}

Starts(p) == {a \in Accesses : a.op = "normal" /\ a.pll = p}

HasDivisors(p, div) ==
  pll[p].refdiv = div.refdiv /\ pll[p].postdiv1 = div.postdiv1 /\ pll[p].postdiv2 = div.postdiv2

WillFeedBack(p, div) ==
  \/ Given(todo, With("fbdiv", p, div), NoneOf({"fbdiv"}, p))
  \/ pll[p].fbdiv = div.fbdiv /\ Kept(todo, NoneOf({"fbdiv"}, p))

WillDivide(p, div) ==
  \/ Given(todo, With("divisors", p, div), NoneOf({"divisors"}, p))
  \/ HasDivisors(p, div) /\ Kept(todo, NoneOf({"divisors"}, p))

WillRun(p) ==
  \/ Given(todo, Starts(p), NoneOf({"slow", "normal"}, p))
  \/ pll[p].mode = "normal" /\ Kept(todo, NoneOf({"slow", "normal"}, p))

WillBeSet(p, div) == WillFeedBack(p, div) /\ WillDivide(p, div)

LEMMA WithinNoneOf ==
  ASSUME NEW regs, NEW plls, NEW p, p \notin plls, NEW ops, ops \subseteq Later \cup {"slow"}
  PROVE  Within(regs, plls) \subseteq NoneOf(ops, p)
  BY DEF Within, NoneOf

\* What one access does to a PLL.
LEMMA PllStep ==
  ASSUME ClockInv, Driver, NEW p \in PLLs
  PROVE  LET a == todo[1]
             old == pll[p]
             new == pll'[p]
         IN /\ a.op = "fbdiv" /\ a.pll = p => new.fbdiv = a.div.fbdiv
            /\ ~(a.op = "fbdiv" /\ a.pll = p) => new.fbdiv = old.fbdiv
            /\ a.op = "divisors" /\ a.pll = p =>
                 /\ new.refdiv = a.div.refdiv /\ new.postdiv1 = a.div.postdiv1
                 /\ new.postdiv2 = a.div.postdiv2
            /\ ~(a.op = "divisors" /\ a.pll = p) =>
                 /\ new.refdiv = old.refdiv /\ new.postdiv1 = old.postdiv1
                 /\ new.postdiv2 = old.postdiv2
            /\ a.op = "normal" /\ a.pll = p => new.mode = "normal"
            /\ ~(a.op \in {"slow", "normal"} /\ a.pll = p) => new.mode = old.mode
  <1> DEFINE a == todo[1]
             State == [mode : {"slow", "normal"}, integer : BOOLEAN, locked : BOOLEAN,
                       refdiv : Value, fbdiv : Value, postdiv1 : Value, postdiv2 : Value]
  <1>1. Next1 = a /\ a \in Accesses /\ pll \in [PLLs -> State]
    BY AccessesLeft, DriverStep DEF Next1, ClockInv, ClockTypeOK
  <1>2. pll[p] \in State
    BY <1>1
  <1>3. CASE Write \/ CheckAssertion \/ WaitForLock
    <2>1. pll' = pll /\ a.op \notin {"fbdiv", "divisors", "normal", "slow"}
      BY <1>1, <1>3 DEF Write, CheckAssertion, WaitForLock, Does
    <2> QED BY <2>1
  <1>4. ASSUME a.op \in Later \cup {"slow"}
        PROVE  a.pll \in PLLs
    BY <1>1, <1>4, OtherAccess DEF Accesses, PllAccesses
  <1>5. CASE SetMode
    <2>1. /\ a.op \in {"slow", "normal", "integer"} /\ a.pll \in PLLs
          /\ pll' = [pll EXCEPT ![a.pll] = IF a.op = "integer" THEN [@ EXCEPT !.integer = TRUE]
                                           ELSE [@ EXCEPT !.mode = a.op]]
      BY <1>1, <1>4, <1>5 DEF SetMode, Later
    <2>2. CASE a.pll # p
      <3>1. pll'[p] = pll[p]
        BY <1>1, <2>1, <2>2
      <3> QED BY <2>1, <2>2, <3>1
    <2>3. CASE a.pll = p
      <3>1. pll'[p] = IF a.op = "integer" THEN [pll[p] EXCEPT !.integer = TRUE]
                      ELSE [pll[p] EXCEPT !.mode = a.op]
        BY <1>1, <2>1, <2>3
      <3> QED BY <1>2, <2>1, <2>3, <3>1
    <2> QED BY <2>2, <2>3
  <1>6. CASE SetDividers
    <2>1. /\ a.op \in {"fbdiv", "divisors"} /\ a.pll \in PLLs
          /\ pll' = [pll EXCEPT ![a.pll] =
                       IF a.op = "fbdiv" THEN [@ EXCEPT !.locked = FALSE, !.fbdiv = a.div.fbdiv]
                       ELSE [@ EXCEPT !.locked = FALSE, !.refdiv = a.div.refdiv,
                                      !.postdiv1 = a.div.postdiv1, !.postdiv2 = a.div.postdiv2]]
      BY <1>1, <1>4, <1>6 DEF SetDividers, Later
    <2>2. CASE a.pll # p
      <3>1. pll'[p] = pll[p]
        BY <1>1, <2>1, <2>2
      <3> QED BY <2>1, <2>2, <3>1
    <2>3. CASE a.pll = p /\ a.op = "fbdiv"
      <3>1. pll'[p] = [pll[p] EXCEPT !.locked = FALSE, !.fbdiv = a.div.fbdiv]
        BY <1>1, <2>1, <2>3
      <3> QED BY <1>2, <2>3, <3>1
    <2>4. CASE a.pll = p /\ a.op = "divisors"
      <3>1. pll'[p] = [pll[p] EXCEPT !.locked = FALSE, !.refdiv = a.div.refdiv,
                         !.postdiv1 = a.div.postdiv1, !.postdiv2 = a.div.postdiv2]
        BY <1>1, <2>1, <2>4
      <3> QED BY <1>2, <2>4, <3>1
    <2> QED BY <2>1, <2>2, <2>3, <2>4
  <1> QED BY <1>3, <1>5, <1>6 DEF Driver

LEMMA WillFeedBackStep ==
  ASSUME ClockInv, Driver, NEW p \in PLLs, NEW div, WillFeedBack(p, div)
  PROVE  WillFeedBack(p, div)'
  <1> DEFINE G == With("fbdiv", p, div)
             K == NoneOf({"fbdiv"}, p)
  <1>1. todo \in Seq(Accesses) /\ todo # << >> /\ todo' = Tail(todo)
    BY DriverStep
  <1>2. CASE Given(todo, G, K)
    <2>1. Given(todo', G, K) \/ (todo[1] \in G /\ Kept(todo', K))
      BY <1>1, <1>2, TailGiven
    <2> QED BY <2>1, PllStep DEF WillFeedBack, With
  <1>3. CASE pll[p].fbdiv = div.fbdiv /\ Kept(todo, K)
    <2>1. todo[1] \in K /\ Kept(todo', K)
      BY <1>1, <1>3, TailKept
    <2> QED BY <1>3, <2>1, PllStep DEF WillFeedBack, NoneOf
  <1> QED BY <1>2, <1>3 DEF WillFeedBack

LEMMA WillDivideStep ==
  ASSUME ClockInv, Driver, NEW p \in PLLs, NEW div, WillDivide(p, div)
  PROVE  WillDivide(p, div)'
  <1> DEFINE G == With("divisors", p, div)
             K == NoneOf({"divisors"}, p)
  <1>1. todo \in Seq(Accesses) /\ todo # << >> /\ todo' = Tail(todo)
    BY DriverStep
  <1>2. CASE Given(todo, G, K)
    <2>1. Given(todo', G, K) \/ (todo[1] \in G /\ Kept(todo', K))
      BY <1>1, <1>2, TailGiven
    <2>2. todo[1] \in G => HasDivisors(p, div)'
      BY PllStep DEF With, HasDivisors
    <2> QED BY <2>1, <2>2 DEF WillDivide
  <1>3. CASE HasDivisors(p, div) /\ Kept(todo, K)
    <2>1. todo[1] \in K /\ Kept(todo', K)
      BY <1>1, <1>3, TailKept
    <2>2. HasDivisors(p, div)'
      BY <1>3, <2>1, PllStep DEF NoneOf, HasDivisors
    <2> QED BY <2>1, <2>2 DEF WillDivide
  <1> QED BY <1>2, <1>3 DEF WillDivide

LEMMA WillRunStep ==
  ASSUME ClockInv, Driver, NEW p \in PLLs, WillRun(p)
  PROVE  WillRun(p)'
  <1> DEFINE G == Starts(p)
             K == NoneOf({"slow", "normal"}, p)
  <1>1. todo \in Seq(Accesses) /\ todo # << >> /\ todo' = Tail(todo)
    BY DriverStep
  <1>2. CASE Given(todo, G, K)
    <2>1. Given(todo', G, K) \/ (todo[1] \in G /\ Kept(todo', K))
      BY <1>1, <1>2, TailGiven
    <2> QED BY <2>1, PllStep DEF WillRun, Starts
  <1>3. CASE pll[p].mode = "normal" /\ Kept(todo, K)
    <2>1. todo[1] \in K /\ Kept(todo', K)
      BY <1>1, <1>3, TailKept
    <2> QED BY <1>3, <2>1, PllStep DEF WillRun, NoneOf
  <1> QED BY <1>2, <1>3 DEF WillRun

LEMMA set_pll_Gives ==
  ASSUME NEW p \in PLLs, NEW div \in Dividers
  PROVE  LET s == rkclk_set_pll(p, div)
         IN /\ Given(s, With("fbdiv", p, div), NoneOf({"fbdiv"}, p))
            /\ Given(s, With("divisors", p, div), NoneOf({"divisors"}, p))
            /\ Given(s, Starts(p), NoneOf({"slow", "normal"}, p))
  <1> DEFINE s == rkclk_set_pll(p, div)
  <1>1. /\ Len(s) = 7
        /\ s[4] = PllOp("fbdiv", p, div) /\ s[5] = PllOp("divisors", p, div)
        /\ s[6] = PllOp("lock", p, div) /\ s[7] = PllOp("normal", p, div)
    BY DEF rkclk_set_pll
  <1>2. \A op \in Later : /\ PllOp(op, p, div) \in Accesses /\ PllOp(op, p, div).op = op
                          /\ PllOp(op, p, div).pll = p /\ PllOp(op, p, div).div = div
    BY PllAccess DEF PllOp
  <1>3. /\ s[4] \in With("fbdiv", p, div) /\ s[5] \in With("divisors", p, div)
        /\ s[7] \in Starts(p)
        /\ \A i \in 5 .. 7 : s[i] \in NoneOf({"fbdiv"}, p)
        /\ \A i \in 6 .. 7 : s[i] \in NoneOf({"divisors"}, p)
    <2>1. \A i \in 5 .. 7 : i = 5 \/ i = 6 \/ i = 7
      OBVIOUS
    <2> HIDE DEF s
    <2> QED BY <1>1, <1>2, <2>1 DEF With, Starts, NoneOf, Later
  <1> HIDE DEF s
  <1>4. Given(s, With("fbdiv", p, div), NoneOf({"fbdiv"}, p))
    BY <1>1, <1>3 DEF Given
  <1>5. Given(s, With("divisors", p, div), NoneOf({"divisors"}, p))
    BY <1>1, <1>3 DEF Given
  <1>6. Given(s, Starts(p), NoneOf({"slow", "normal"}, p))
    BY <1>1, <1>3 DEF Given
  <1> QED BY <1>4, <1>5, <1>6 DEF s
\* The accesses of rk3399_vop_set_clk before the PLL is set, and after it.
VopBuses(vop, holds) ==
  << ClrSet(47 + vop, Bits(6, 2) \cup Bits(0, 5), At(2, 6) \cup At(AtLeast(GPLL_HZ, 400 * MHz), 0)),
     ClrSet(47 + vop, Bits(8, 5), At(AtLeast(GPLL_HZ, 100 * MHz), 8)),
     ClrSet(51 + vop, {6} \cup Bits(0, 5), At(2, 6) \cup At(AtLeast(GPLL_HZ, 100 * MHz), 31)),
     Assert(holds) >>

VopPixels(vop) == << ClrSet(49 + vop, {11} \cup Bits(8, 2) \cup Bits(0, 8), {}) >>

LEMMA vop_set_clk_Split ==
  ASSUME NEW vop \in {0, 1}, NEW khz \in PixelRates
  PROVE  LET config == pll_para_config(khz)
         IN /\ rk3399_vop_set_clk(vop, khz)
                 = VopBuses(vop, config.ret = 0)
                     \o IF config.ret # 0 THEN << >>
                        ELSE rkclk_set_pll("vpll", config.div) \o VopPixels(vop)
            /\ config.div \in Dividers /\ "vpll" \in PLLs
            /\ rkclk_set_pll("vpll", config.div) \in Seq(Accesses)
            /\ VopPixels(vop) \in Seq(Accesses)
  <1>1. rk3399_vop_set_clk(vop, khz)
          = VopBuses(vop, pll_para_config(khz).ret = 0)
              \o IF pll_para_config(khz).ret # 0 THEN << >>
                 ELSE rkclk_set_pll("vpll", pll_para_config(khz).div) \o VopPixels(vop)
    BY DEF rk3399_vop_set_clk, VopBuses, VopPixels
  <1>2. pll_para_config(khz).div \in Dividers /\ "vpll" \in PLLs
    BY DEF Dividers, PLLs
  <1>3. rkclk_set_pll("vpll", pll_para_config(khz).div) \in Seq(Accesses)
    BY <1>2, rkclk_set_pll_Program DEF Program
  <1>4. VopPixels(vop) \in Seq(Accesses)
    <2>1. {11} \cup Bits(8, 2) \cup Bits(0, 8) \in SUBSET Int /\ 49 + vop \in Registers
      BY Masks DEF Registers
    <2>2. ClrSet(49 + vop, {11} \cup Bits(8, 2) \cup Bits(0, 8), {}) \in Accesses
      BY <2>1, WriteAccess DEF Accesses
    <2> QED BY <2>2 DEF VopPixels
  <1> QED BY <1>1, <1>2, <1>3, <1>4

\* Every access of VopBuses but the last and those of VopPixels write a register.
LEMMA VopAccesses ==
  ASSUME NEW vop \in {0, 1}, NEW holds \in BOOLEAN, NEW K,
         Assert(holds) \in K,
         \A a \in Accesses : a.op = "write" /\ a.reg \in 47 .. 52 => a \in K
  PROVE  /\ VopBuses(vop, holds) \in Seq(Accesses) /\ Kept(VopBuses(vop, holds), K)
         /\ Kept(VopPixels(vop), K)
  <1> DEFINE clr == Bits(6, 2) \cup Bits(0, 5)
             set == At(2, 6) \cup At(AtLeast(GPLL_HZ, 400 * MHz), 0)
             hclk == At(AtLeast(GPLL_HZ, 100 * MHz), 8)
             pwm == {6} \cup Bits(0, 5)
             set51 == At(2, 6) \cup At(AtLeast(GPLL_HZ, 100 * MHz), 31)
             dclk == {11} \cup Bits(8, 2) \cup Bits(0, 8)
             a == ClrSet(47 + vop, clr, set)
             b == ClrSet(47 + vop, Bits(8, 5), hclk)
             c == ClrSet(51 + vop, pwm, set51)
             d == ClrSet(49 + vop, dclk, {})
  <1>1. /\ clr \in SUBSET Int /\ set \in SUBSET Int /\ hclk \in SUBSET Int
        /\ Bits(8, 5) \in SUBSET Int /\ pwm \in SUBSET Int /\ set51 \in SUBSET Int
        /\ dclk \in SUBSET Int
    BY Masks
  <1>2. {47 + vop, 49 + vop, 51 + vop} \subseteq Registers \cap 47 .. 52
    BY DEF Registers
  <1>3. VopBuses(vop, holds) = << a, b, c, Assert(holds) >> /\ VopPixels(vop) = << d >>
    BY DEF VopBuses, VopPixels
  <1> HIDE DEF clr, set, hclk, pwm, set51, dclk
  <1>4. a \in Accesses /\ a.op = "write" /\ a.reg = 47 + vop
    BY <1>1, <1>2, WriteAccess DEF Accesses, ClrSet
  <1>5. b \in Accesses /\ b.op = "write" /\ b.reg = 47 + vop
    BY <1>1, <1>2, WriteAccess DEF Accesses, ClrSet
  <1>6. c \in Accesses /\ c.op = "write" /\ c.reg = 51 + vop
    BY <1>1, <1>2, WriteAccess DEF Accesses, ClrSet
  <1>7. d \in Accesses /\ d.op = "write" /\ d.reg = 49 + vop
    BY <1>1, <1>2, WriteAccess DEF Accesses, ClrSet
  <1> HIDE DEF a, b, c, d
  <1>8. a \in K /\ b \in K /\ c \in K /\ d \in K
    BY <1>2, <1>4, <1>5, <1>6, <1>7
  <1>9. Assert(holds) \in Accesses
    BY OpOfAssert
  <1>10. << a, b, c, Assert(holds) >> \in Seq(Accesses)
    BY <1>4, <1>5, <1>6, <1>9
  <1> QED BY <1>3, <1>8, <1>10, ShortKept

LEMMA vop_set_clk_Within ==
  ASSUME NEW vop \in {0, 1}, NEW khz \in PixelRates
  PROVE  Kept(rk3399_vop_set_clk(vop, khz), Within(47 .. 52, {"vpll"}))
  <1> DEFINE K == Within(47 .. 52, {"vpll"})
             ret == pll_para_config(khz).ret
             div == pll_para_config(khz).div
             pixels == IF ret # 0 THEN << >> ELSE rkclk_set_pll("vpll", div) \o VopPixels(vop)
  <1>1. (ret = 0) \in BOOLEAN
    OBVIOUS
  <1>2. Assert(ret = 0) \in K
    BY <1>1, AssertWithin
  <1>3. \A a \in Accesses : a.op = "write" /\ a.reg \in 47 .. 52 => a \in K
    BY DEF Within, Later
  <1>4. Kept(rkclk_set_pll("vpll", div), K)
    BY vop_set_clk_Split, set_pll_Within
  <1> HIDE DEF K
  <1>5. /\ VopBuses(vop, ret = 0) \in Seq(Accesses) /\ Kept(VopBuses(vop, ret = 0), K)
        /\ Kept(VopPixels(vop), K)
    BY <1>1, <1>2, <1>3, VopAccesses
  <1>6. pixels \in Seq(Accesses) /\ Kept(pixels, K)
    <2>1. CASE ret # 0
      <3>1. << >> \in Seq(Accesses) /\ Kept(<< >>, K)
        BY EmptyKept
      <3> QED BY <2>1, <3>1
    <2>2. CASE ret = 0
      <3>1. /\ rkclk_set_pll("vpll", div) \in Seq(Accesses)
            /\ VopPixels(vop) \in Seq(Accesses)
        BY vop_set_clk_Split
      <3>2. Kept(rkclk_set_pll("vpll", div) \o VopPixels(vop), K)
        BY <1>4, <1>5, <3>1, KeptThenKept
      <3>3. rkclk_set_pll("vpll", div) \o VopPixels(vop) \in Seq(Accesses)
        BY <3>1, ConcatProperties
      <3> QED BY <2>2, <3>2, <3>3
    <2> QED BY <2>1, <2>2
  <1>7. rk3399_vop_set_clk(vop, khz) = VopBuses(vop, ret = 0) \o pixels
    BY vop_set_clk_Split
  <1> HIDE DEF pixels
  <1>8. Kept(VopBuses(vop, ret = 0) \o pixels, K)
    BY <1>5, <1>6, KeptThenKept
  <1> QED BY <1>7, <1>8 DEF K

(***************************************************************************)
(* The settings of the buses of HDCP and VIO.                              *)
(***************************************************************************)
AskedOK ==
  asked \in [little : ApllFrequencies, big : ApllFrequencies, hdcp : BusRates \cup {0},
             vio : BusRates \cup {0}, pixel : PixelRates \cup {0}]

WillDivideBy(reg, shift, n) ==
  WillHold(reg, At(n - 1, shift), Bits(shift, 5) \ At(n - 1, shift))

HdcpKept(khz) ==
  /\ {HdcpA(khz), HdcpHp(khz)} \subseteq 1 .. 32
  /\ WillDivideBy(42, 8, HdcpA(khz))
  /\ WillDivideBy(43, 10, HdcpHp(khz)) /\ WillDivideBy(43, 5, HdcpHp(khz))

VioKept(khz) ==
  /\ {HdcpA(khz), HdcpHp(khz)} \subseteq 1 .. 32
  /\ WillDivideBy(42, 0, HdcpA(khz)) /\ WillDivideBy(43, 0, HdcpHp(khz))

SettingInv ==
  ~asserted /\ Kept(todo, Passing) =>
    \A khz \in BusRates : /\ asked.hdcp = khz => HdcpKept(khz)
                          /\ asked.vio = khz => VioKept(khz)

\* What every part of the proof about the registers rests on.
ClockBase == ClockInv /\ RegistersOK /\ AskedOK

LEMMA WillDivideByStep ==
  ASSUME ClockInv, RegistersOK, Driver, NEW reg \in Registers, NEW shift, NEW n,
         WillDivideBy(reg, shift, n)
  PROVE  WillDivideBy(reg, shift, n)'
  BY WillHoldStep DEF WillDivideBy

LEMMA WillDivideByGiven ==
  ASSUME NEW reg, NEW shift, NEW n,
         Given(todo', RaisesTo(reg, shift, n - 1), SparesField(reg, shift, n - 1))
  PROVE  WillDivideBy(reg, shift, n)'
  BY GivenByCall DEF WillDivideBy, RaisesTo, SparesField

LEMMA WillDivideByKept ==
  ASSUME NEW reg, NEW shift, NEW n, todo = << >>, clksel' = clksel,
         WillDivideBy(reg, shift, n), Kept(todo', SparesField(reg, shift, n - 1))
  PROVE  WillDivideBy(reg, shift, n)'
  BY KeptByCall DEF WillDivideBy, SparesField

LEMMA WillDivideByStutter ==
  ASSUME NEW reg, NEW shift, NEW n, UNCHANGED <<todo, clksel>>, WillDivideBy(reg, shift, n)
  PROVE  WillDivideBy(reg, shift, n)'
  BY DEF WillDivideBy, WillHold, Holds

\* An assertion that is made and has not failed held.
LEMMA PassingStep ==
  ASSUME ClockInv, Driver, ~asserted', Kept(todo', Passing)
  PROVE  ~asserted /\ Kept(todo, Passing)
  <1>1. todo \in Seq(Accesses) /\ todo # << >> /\ todo' = Tail(todo) /\ todo[1] \in Accesses
    BY DriverStep
  <1>2. ~asserted
    BY DriverStep
  <1>3. todo[1] \in Passing
    BY <1>1, DriverStep DEF Passing
  <1>4. /\ Len(todo) \in Nat \ {0} /\ Len(Tail(todo)) = Len(todo) - 1
        /\ \A i \in 1 .. Len(Tail(todo)) : Tail(todo)[i] = todo[i + 1]
    BY <1>1, LenProperties, EmptySeq, HeadTailProperties
  <1>5. ASSUME NEW i \in 1 .. Len(todo)
        PROVE  todo[i] \in Passing
    <2>1. CASE i = 1
      BY <1>3, <2>1
    <2>2. CASE i # 1
      <3>1. i - 1 \in 1 .. Len(Tail(todo)) /\ Tail(todo)[i - 1] = todo[i]
        BY <1>4, <2>2
      <3> QED BY <1>1, <3>1 DEF Kept
    <2> QED BY <2>1, <2>2
  <1> QED BY <1>2, <1>5 DEF Kept

LEMMA SettingDriver ==
  ASSUME ClockBase, SettingInv, Driver
  PROVE  SettingInv'
  <1> SUFFICES ASSUME ~asserted', Kept(todo', Passing), NEW khz \in BusRates
               PROVE  /\ asked'.hdcp = khz => HdcpKept(khz)'
                      /\ asked'.vio = khz => VioKept(khz)'
    BY DEF SettingInv
  <1>1. asked' = asked
    BY DriverStep DEF ClockBase
  <1>2. /\ asked.hdcp = khz => HdcpKept(khz)
        /\ asked.vio = khz => VioKept(khz)
    <2>1. ~asserted /\ Kept(todo, Passing)
      BY PassingStep DEF ClockBase
    <2> QED BY <2>1 DEF SettingInv
  <1>3. 42 \in Registers /\ 43 \in Registers
    BY DEF Registers
  <1>4. ASSUME HdcpKept(khz)
        PROVE  HdcpKept(khz)'
    BY <1>3, <1>4, WillDivideByStep DEF HdcpKept, ClockBase
  <1>5. ASSUME VioKept(khz)
        PROVE  VioKept(khz)'
    BY <1>3, <1>5, WillDivideByStep DEF VioKept, ClockBase
  <1> QED BY <1>1, <1>2, <1>4, <1>5

LEMMA BusRateNumbers == \A khz \in BusRates : khz \in Nat /\ 1 <= khz /\ khz <= 800000
  BY RateAssumption DEF GPLL_HZ, MHz

\* A call that keeps both settings.
LEMMA SettingOtherCall ==
  ASSUME ClockBase, SettingInv, todo = << >>, UNCHANGED <<clksel, asserted>>,
         asked'.hdcp = asked.hdcp, asked'.vio = asked.vio,
         NEW regs, NEW plls, 42 \notin regs, 43 \notin regs, Kept(todo', Within(regs, plls))
  PROVE  SettingInv'
  <1> SUFFICES ASSUME ~asserted', NEW khz \in BusRates
               PROVE  /\ asked'.hdcp = khz => HdcpKept(khz)'
                      /\ asked'.vio = khz => VioKept(khz)'
    BY DEF SettingInv
  <1>1. /\ asked.hdcp = khz => HdcpKept(khz)
        /\ asked.vio = khz => VioKept(khz)
    <2>1. ~asserted /\ Kept(todo, Passing)
      BY EmptyKept
    <2> QED BY <2>1 DEF SettingInv
  <1>2. ASSUME NEW shift, NEW n
        PROVE  /\ Kept(todo', SparesField(42, shift, n)) /\ Kept(todo', SparesField(43, shift, n))
    BY WithinSpares, KeptMore DEF SparesField
  <1>3. HdcpKept(khz) => HdcpKept(khz)'
    BY <1>2, WillDivideByKept DEF HdcpKept
  <1>4. VioKept(khz) => VioKept(khz)'
    BY <1>2, WillDivideByKept DEF VioKept
  <1> QED BY <1>1, <1>3, <1>4

LEMMA SettingHdcpCall ==
  ASSUME ClockBase, SettingInv, NEW rate \in BusRates,
         Call(rk3399_hdcp_set_clk(rate), "hdcp", rate)
  PROVE  SettingInv'
  <1> SUFFICES ASSUME ~asserted', Kept(todo', Passing), NEW khz \in BusRates
               PROVE  /\ asked'.hdcp = khz => HdcpKept(khz)'
                      /\ asked'.vio = khz => VioKept(khz)'
    BY DEF SettingInv
  <1>1. /\ todo = << >> /\ todo' = rk3399_hdcp_set_clk(rate) /\ clksel' = clksel
        /\ asserted' = asserted /\ asked'.hdcp = rate /\ asked'.vio = asked.vio
    BY DEF Call, ClockBase, AskedOK
  <1>2. {HdcpA(rate), HdcpHp(rate)} \subseteq 1 .. 32
    BY <1>1, SharedPassing
  <1>3. HdcpKept(rate)'
    BY <1>1, <1>2, hdcp_set_clk_Gives, WillDivideByGiven DEF HdcpKept
  <1>4. asked.vio = khz => VioKept(khz)
    <2>1. ~asserted /\ Kept(todo, Passing)
      BY <1>1, EmptyKept
    <2> QED BY <2>1 DEF SettingInv
  <1>5. VioKept(khz) => VioKept(khz)'
    <2> SUFFICES ASSUME VioKept(khz)
                 PROVE  VioKept(khz)'
      OBVIOUS
    <2>1. Fits(HdcpA(khz) - 1, 5) /\ Fits(HdcpHp(khz) - 1, 5)
      BY SharedFields DEF VioKept
    <2>2. /\ Kept(todo', SparesField(42, 0, HdcpA(khz) - 1))
          /\ Kept(todo', SparesField(43, 0, HdcpHp(khz) - 1))
      BY <1>1, <1>2, <2>1, hdcp_set_clk_Gives
    <2> QED BY <1>1, <2>2, WillDivideByKept DEF VioKept
  <1> QED BY <1>1, <1>3, <1>4, <1>5

LEMMA SettingVioCall ==
  ASSUME ClockBase, SettingInv, NEW rate \in BusRates,
         Call(rk3399_vio_set_clk(rate), "vio", rate)
  PROVE  SettingInv'
  <1> SUFFICES ASSUME ~asserted', Kept(todo', Passing), NEW khz \in BusRates
               PROVE  /\ asked'.hdcp = khz => HdcpKept(khz)'
                      /\ asked'.vio = khz => VioKept(khz)'
    BY DEF SettingInv
  <1>1. /\ todo = << >> /\ todo' = rk3399_vio_set_clk(rate) /\ clksel' = clksel
        /\ asserted' = asserted /\ asked'.vio = rate /\ asked'.hdcp = asked.hdcp
    BY DEF Call, ClockBase, AskedOK
  <1>2. {HdcpA(rate), HdcpHp(rate)} \subseteq 1 .. 32
    BY <1>1, SharedPassing
  <1>3. VioKept(rate)'
    BY <1>1, <1>2, vio_set_clk_Gives, WillDivideByGiven DEF VioKept
  <1>4. asked.hdcp = khz => HdcpKept(khz)
    <2>1. ~asserted /\ Kept(todo, Passing)
      BY <1>1, EmptyKept
    <2> QED BY <2>1 DEF SettingInv
  <1>5. HdcpKept(khz) => HdcpKept(khz)'
    <2> SUFFICES ASSUME HdcpKept(khz)
                 PROVE  HdcpKept(khz)'
      OBVIOUS
    <2>1. Fits(HdcpA(khz) - 1, 5) /\ Fits(HdcpHp(khz) - 1, 5)
      BY SharedFields DEF HdcpKept
    <2>2. /\ Kept(todo', SparesField(42, 8, HdcpA(khz) - 1))
          /\ Kept(todo', SparesField(43, 10, HdcpHp(khz) - 1))
          /\ Kept(todo', SparesField(43, 5, HdcpHp(khz) - 1))
      BY <1>1, <1>2, <2>1, vio_set_clk_Gives
    <2> QED BY <1>1, <2>2, WillDivideByKept DEF HdcpKept
  <1> QED BY <1>1, <1>3, <1>4, <1>5

LEMMA SettingStutter ==
  ASSUME SettingInv, UNCHANGED <<todo, clksel, asked, asserted>>
  PROVE  SettingInv'
  <1>1. \A khz : HdcpKept(khz) => HdcpKept(khz)'
    BY WillDivideByStutter DEF HdcpKept
  <1>2. \A khz : VioKept(khz) => VioKept(khz)'
    BY WillDivideByStutter DEF VioKept
  <1>3. todo' = todo /\ asserted' = asserted /\ asked' = asked
    OBVIOUS
  <1> SUFFICES ASSUME ~asserted, Kept(todo, Passing), NEW khz \in BusRates
               PROVE  /\ asked.hdcp = khz => HdcpKept(khz)'
                      /\ asked.vio = khz => VioKept(khz)'
    BY <1>3 DEF SettingInv
  <1>4. /\ asked.hdcp = khz => HdcpKept(khz)
        /\ asked.vio = khz => VioKept(khz)
    BY DEF SettingInv
  <1> QED BY <1>1, <1>2, <1>4

LEMMA SettingInit == Init => SettingInv
  BY BusRateNumbers DEF Init, SettingInv

LEMMA AskedStep == ClockBase /\ Calling => AskedOK'
  <1> SUFFICES ASSUME ClockBase, Calling
               PROVE  AskedOK'
    OBVIOUS
  <1>1. ASSUME NEW khz \in ApllFrequencies, NEW c \in CpuClusters,
               Call(rk3399_configure_cpu(khz, c), c, khz)
        PROVE  AskedOK'
    <2>1. c \in {"little", "big"} /\ asked' = [asked EXCEPT ![c] = khz]
      BY <1>1, ClusterAssumption DEF Call, Clusters, CPU_CLUSTER_LITTLE, CPU_CLUSTER_BIG
    <2> QED BY <2>1 DEF AskedOK, ClockBase
  <1>2. ASSUME NEW khz \in BusRates,
               \/ Call(rk3399_hdcp_set_clk(khz), "hdcp", khz)
               \/ Call(rk3399_vio_set_clk(khz), "vio", khz)
        PROVE  AskedOK'
    BY <1>2 DEF Call, AskedOK, ClockBase
  <1>3. ASSUME NEW khz \in PixelRates, NEW vop \in {0, 1},
               Call(rk3399_vop_set_clk(vop, khz), "pixel", khz)
        PROVE  AskedOK'
    BY <1>3 DEF Call, AskedOK, ClockBase
  <1> QED BY <1>1, <1>2, <1>3 DEF Calling

LEMMA BaseInit == Init => ClockBase
  <1> SUFFICES ASSUME Init PROVE ClockBase
    OBVIOUS
  <1>1. RegistersOK
    BY ResetAssumption DEF Init, RegistersOK
  <1>2. AskedOK
    BY DEF Init, AskedOK, ApllFrequencies
  <1> QED BY <1>1, <1>2, ClockInit DEF ClockBase

LEMMA BaseNext == ClockBase /\ [Next]_vars => ClockBase'
  <1> SUFFICES ASSUME ClockBase, [Next]_vars
               PROVE  RegistersOK' /\ AskedOK'
    BY ClockInvNext DEF ClockBase
  <1>1. CASE UNCHANGED vars
    BY <1>1 DEF ClockBase, RegistersOK, AskedOK, vars
  <1>2. CASE Calling
    <2>1. clksel' = clksel
      BY <1>2 DEF Calling, Call
    <2> QED BY <1>2, <2>1, AskedStep DEF ClockBase, RegistersOK
  <1>3. CASE Driver
    BY <1>3, RegistersStep, DriverStep DEF ClockBase, AskedOK
  <1>4. ASSUME NEW p \in PLLs, Lock(p)
        PROVE  RegistersOK' /\ AskedOK'
    BY <1>4 DEF Lock, ClockBase, RegistersOK, AskedOK
  <1> QED BY <1>1, <1>2, <1>3, <1>4 DEF Next, Spin, Idle

LEMMA SettingNext == ClockBase /\ SettingInv /\ [Next]_vars => SettingInv'
  <1> SUFFICES ASSUME ClockBase, SettingInv, [Next]_vars
               PROVE  SettingInv'
    OBVIOUS
  <1>1. CASE UNCHANGED vars
    BY <1>1, SettingStutter DEF vars
  <1>2. CASE Driver
    BY <1>2, SettingDriver
  <1>3. ASSUME NEW p \in PLLs, Lock(p)
        PROVE  SettingInv'
    BY <1>3, SettingStutter DEF Lock
  <1>4. ASSUME NEW khz \in ApllFrequencies, NEW c \in CpuClusters,
               Call(rk3399_configure_cpu(khz, c), c, khz)
        PROVE  SettingInv'
    <2>1. /\ todo = << >> /\ todo' = rk3399_configure_cpu(khz, c)
          /\ UNCHANGED <<clksel, asserted>> /\ asked' = [asked EXCEPT ![c] = khz]
      BY <1>4 DEF Call
    <2>2. c \in {"little", "big"}
      BY ClusterAssumption DEF Clusters, CPU_CLUSTER_LITTLE, CPU_CLUSTER_BIG
    <2>3. asked'.hdcp = asked.hdcp /\ asked'.vio = asked.vio
      BY <2>1, <2>2 DEF ClockBase, AskedOK
    <2>4. 42 \notin {ConBase(c), ConBase(c) + 1} /\ 43 \notin {ConBase(c), ConBase(c) + 1}
      BY DEF ConBase
    <2> QED BY <2>1, <2>3, <2>4, configure_cpu_Within, SettingOtherCall
  <1>5. ASSUME NEW khz \in PixelRates, NEW vop \in {0, 1},
               Call(rk3399_vop_set_clk(vop, khz), "pixel", khz)
        PROVE  SettingInv'
    <2>1. /\ todo = << >> /\ todo' = rk3399_vop_set_clk(vop, khz)
          /\ UNCHANGED <<clksel, asserted>>
          /\ asked'.hdcp = asked.hdcp /\ asked'.vio = asked.vio
      BY <1>5 DEF Call, ClockBase, AskedOK
    <2>2. 42 \notin 47 .. 52 /\ 43 \notin 47 .. 52
      OBVIOUS
    <2> QED BY <2>1, <2>2, vop_set_clk_Within, SettingOtherCall
  <1>6. ASSUME NEW khz \in BusRates,
               \/ Call(rk3399_hdcp_set_clk(khz), "hdcp", khz)
               \/ Call(rk3399_vio_set_clk(khz), "vio", khz)
        PROVE  SettingInv'
    BY <1>6, SettingHdcpCall, SettingVioCall
  <1> QED BY <1>1, <1>2, <1>3, <1>4, <1>5, <1>6 DEF Next, Calling, Spin, Idle

\* A field that holds what it was set to divides by it.
LEMMA DividesAtRest ==
  ASSUME NEW reg, NEW shift \in 0 .. 16, NEW n \in 1 .. 32, todo = << >>,
         WillDivideBy(reg, shift, n)
  PROVE  Divider(reg, shift, 5) = n
  <1>1. Holds(reg, At(n - 1, shift), Bits(shift, 5) \ At(n - 1, shift))
    BY HoldsAtRest DEF WillDivideBy
  <1>2. Fits(n - 1, 5)
    BY SharedFields
  <1>3. Divider(reg, shift, 5) = n - 1 + 1
    BY <1>1, <1>2, FieldExactly DEF Holds, Widths
  <1> QED BY <1>3

LEMMA SettingAtRest == ClockBase /\ SettingInv => SettingsKept
  <1> SUFFICES ASSUME ClockBase, SettingInv, todo = << >>, ~asserted
               PROVE  /\ asked.hdcp # 0 =>
                           /\ Divider(42, 8, 5) = GPLL_HZ \div asked.hdcp
                           /\ Divider(43, 10, 5) = (2 * GPLL_HZ) \div asked.hdcp
                           /\ Divider(43, 5, 5) = Divider(43, 10, 5)
                      /\ asked.vio # 0 =>
                           /\ Divider(42, 0, 5) = GPLL_HZ \div asked.vio
                           /\ Divider(43, 0, 5) = (2 * GPLL_HZ) \div asked.vio
    BY DEF SettingsKept, AtRest
  <1>1. Kept(todo, Passing)
    BY EmptyKept
  <1>2. /\ asked.hdcp # 0 => asked.hdcp \in BusRates
        /\ asked.vio # 0 => asked.vio \in BusRates
    BY DEF ClockBase, AskedOK
  <1>3. ASSUME NEW khz \in BusRates
        PROVE  /\ asked.hdcp = khz => HdcpKept(khz)
               /\ asked.vio = khz => VioKept(khz)
    BY <1>1 DEF SettingInv
  <1>4. ASSUME NEW khz \in BusRates, asked.hdcp = khz
        PROVE  /\ Divider(42, 8, 5) = GPLL_HZ \div khz
               /\ Divider(43, 10, 5) = (2 * GPLL_HZ) \div khz
               /\ Divider(43, 5, 5) = Divider(43, 10, 5)
    <2>1. HdcpKept(khz)
      BY <1>3, <1>4
    <2>2. HdcpA(khz) \in 1 .. 32 /\ HdcpHp(khz) \in 1 .. 32 /\ {0, 5, 8, 10} \subseteq 0 .. 16
      BY <2>1 DEF HdcpKept
    <2>3. Divider(42, 8, 5) = HdcpA(khz)
      <3>1. WillDivideBy(42, 8, HdcpA(khz))
        BY <2>1 DEF HdcpKept
      <3> QED BY <2>2, <3>1, DividesAtRest
    <2>4. Divider(43, 10, 5) = HdcpHp(khz)
      <3>1. WillDivideBy(43, 10, HdcpHp(khz))
        BY <2>1 DEF HdcpKept
      <3> QED BY <2>2, <3>1, DividesAtRest
    <2>5. Divider(43, 5, 5) = HdcpHp(khz)
      <3>1. WillDivideBy(43, 5, HdcpHp(khz))
        BY <2>1 DEF HdcpKept
      <3> QED BY <2>2, <3>1, DividesAtRest
    <2> QED BY <2>3, <2>4, <2>5 DEF HdcpA, HdcpHp
  <1>5. ASSUME NEW khz \in BusRates, asked.vio = khz
        PROVE  /\ Divider(42, 0, 5) = GPLL_HZ \div khz
               /\ Divider(43, 0, 5) = (2 * GPLL_HZ) \div khz
    <2>1. VioKept(khz)
      BY <1>3, <1>5
    <2>2. HdcpA(khz) \in 1 .. 32 /\ HdcpHp(khz) \in 1 .. 32 /\ {0, 5, 8, 10} \subseteq 0 .. 16
      BY <2>1 DEF VioKept
    <2>3. Divider(42, 0, 5) = HdcpA(khz)
      <3>1. WillDivideBy(42, 0, HdcpA(khz))
        BY <2>1 DEF VioKept
      <3> QED BY <2>2, <3>1, DividesAtRest
    <2>4. Divider(43, 0, 5) = HdcpHp(khz)
      <3>1. WillDivideBy(43, 0, HdcpHp(khz))
        BY <2>1 DEF VioKept
      <3> QED BY <2>2, <3>1, DividesAtRest
    <2> QED BY <2>3, <2>4 DEF HdcpA, HdcpHp
  <1> QED BY <1>2, <1>4, <1>5

\* HDCP and VIO keep the rates they were last given, for any rates in any order and
\* whatever the registers held at reset (rk3399_hdcp_set_clk, rk3399_vio_set_clk).
THEOREM ClockSettingsKept == Spec => []SettingsKept
  BY BaseInit, BaseNext, SettingInit, SettingNext, SettingAtRest, PTL DEF Spec

(***************************************************************************)
(* The start, part by part.                                                *)
(***************************************************************************)
PmuWrites == << ClrSet(PmuClksel0, Bits(0, 5), At(AtLeast(676 * MHz, 48 * MHz), 0)) >>

FirstWrites ==
  << ClrSet(12, 0 .. 15, {14, 8, 0}), ClrSet(19, 0 .. 15, {9, 8} \cup Bits(0, 6)),
     ClrSet(56, {1, 0}, {1, 0}) >>

Aclk25 ==
  ClrSet(25, Bits(8, 3) \cup {7},
         At(AtLeast(100 * MHz, 50 * MHz), 8) \cup {7} \cup At(AtMost(GPLL_HZ, 100 * MHz), 0))

LastWrites ==
  << Aclk25, ClrSet(21, {7} \cup Bits(0, 5), {7, 1, 0}), ClrSet(22, Bits(0, 6), Bits(0, 3)) >>

StartLittle == rk3399_configure_cpu(816 * MHz, CPU_CLUSTER_LITTLE)
StartBig == rk3399_configure_cpu(816 * MHz, CPU_CLUSTER_BIG)
SetStart(p) == rkclk_set_pll(p, InitDivisors[p])
PerihpBuses == BusRegister(14, 150 * MHz, 75 * MHz, 37500)
Perilp0Buses == BusRegister(23, 300 * MHz, 100 * MHz, 50 * MHz)
RunLittle == rk3399_configure_cpu(1300 * MHz, CPU_CLUSTER_LITTLE)
RunBig == rk3399_configure_cpu(1700 * MHz, CPU_CLUSTER_BIG)

LEMMA StartSplit ==
  /\ ArmPlatformInitialize = ((rk3399_pmu_clock_init \o rk3399_clock_init) \o RunLittle) \o RunBig
  /\ rk3399_pmu_clock_init = SetStart("ppll") \o PmuWrites
  /\ rk3399_clock_init
       = (((((((StartLittle \o StartBig) \o FirstWrites) \o SetStart("gpll")) \o SetStart("npll"))
             \o SetStart("cpll")) \o PerihpBuses) \o Perilp0Buses) \o LastWrites
  <1>1. ArmPlatformInitialize = ((rk3399_pmu_clock_init \o rk3399_clock_init) \o RunLittle) \o RunBig
    BY DEF ArmPlatformInitialize, RunLittle, RunBig
  <1>2. \A p \in Started : SetStart(p) = rkclk_set_pll(p, InitDivisors[p])
    BY DEF SetStart
  <1>3. /\ SetStart("ppll") = rkclk_set_pll("ppll", InitDivisors.ppll)
        /\ SetStart("gpll") = rkclk_set_pll("gpll", InitDivisors.gpll)
        /\ SetStart("npll") = rkclk_set_pll("npll", InitDivisors.npll)
        /\ SetStart("cpll") = rkclk_set_pll("cpll", InitDivisors.cpll)
    BY <1>2 DEF Started
  <1>4. rk3399_pmu_clock_init = SetStart("ppll") \o PmuWrites
    BY <1>3 DEF rk3399_pmu_clock_init, PmuWrites
  <1>5. rk3399_clock_init
          = (((((((StartLittle \o StartBig) \o FirstWrites)
                   \o rkclk_set_pll("gpll", InitDivisors.gpll))
                  \o rkclk_set_pll("npll", InitDivisors.npll))
                 \o rkclk_set_pll("cpll", InitDivisors.cpll))
                \o PerihpBuses) \o Perilp0Buses) \o LastWrites
    BY DEF rk3399_clock_init, StartLittle, StartBig, FirstWrites, PerihpBuses,
           Perilp0Buses, LastWrites, Aclk25
  <1> QED BY <1>1, <1>3, <1>4, <1>5

LEMMA StartSequences ==
  /\ {SetStart(p) : p \in Started} \subseteq Seq(Accesses)
  /\ PmuWrites \in Seq(Accesses) /\ FirstWrites \in Seq(Accesses) /\ LastWrites \in Seq(Accesses)
  /\ StartLittle \in Seq(Accesses) /\ StartBig \in Seq(Accesses)
  /\ PerihpBuses \in Seq(Accesses) /\ Perilp0Buses \in Seq(Accesses)
  /\ RunLittle \in Seq(Accesses) /\ RunBig \in Seq(Accesses)
  <1>1. \A p \in Started : InitDivisors[p] \in Dividers /\ p \in PLLs
    BY DEF Dividers, Started, PLLs
  <1>2. \A p \in Started : SetStart(p) \in Seq(Accesses)
    BY <1>1, rkclk_set_pll_Program DEF SetStart, Program
  <1>3. /\ 816 * MHz \in ApllFrequencies /\ 1300 * MHz \in ApllFrequencies
        /\ 1700 * MHz \in ApllFrequencies
    BY DEF ApllFrequencies
  <1>4. StartLittle \in Seq(Accesses) /\ StartBig \in Seq(Accesses)
    BY <1>3, configure_cpu_Program DEF StartLittle, StartBig, Program
  <1>5. RunLittle \in Seq(Accesses) /\ RunBig \in Seq(Accesses)
    BY <1>3, configure_cpu_Program DEF RunLittle, RunBig, Program
  <1>6. PerihpBuses \in Seq(Accesses) /\ Perilp0Buses \in Seq(Accesses)
    BY BusRegister_Program DEF PerihpBuses, Perilp0Buses, Program, Registers
  <1>7. PmuWrites \in Seq(Accesses)
    <2>1. PmuClksel0 \in Registers
      BY DEF Registers
    <2>2. Bits(0, 5) \in SUBSET Int /\ At(AtLeast(676 * MHz, 48 * MHz), 0) \in SUBSET Int
      BY Masks
    <2>3. ClrSet(PmuClksel0, Bits(0, 5), At(AtLeast(676 * MHz, 48 * MHz), 0)) \in Accesses
      BY <2>1, <2>2, WriteAccess DEF Accesses
    <2> QED BY <2>3 DEF PmuWrites
  <1>8. {12, 19, 56, 25, 21, 22} \subseteq Registers
    BY DEF Registers
  <1>9. FirstWrites \in Seq(Accesses)
    <2>1. {9, 8} \cup Bits(0, 6) \in SUBSET Int
      BY Masks
    <2>2. ClrSet(12, 0 .. 15, {14, 8, 0}) \in Accesses
      BY <1>8, WriteAccess DEF Accesses
    <2>3. ClrSet(19, 0 .. 15, {9, 8} \cup Bits(0, 6)) \in Accesses
      BY <1>8, <2>1, WriteAccess DEF Accesses
    <2>4. ClrSet(56, {1, 0}, {1, 0}) \in Accesses
      BY <1>8, WriteAccess DEF Accesses
    <2> QED BY <2>2, <2>3, <2>4, ThreeAccesses DEF FirstWrites
  <1>10. LastWrites \in Seq(Accesses)
    <2>1. /\ Bits(8, 3) \cup {7} \in SUBSET Int /\ {7} \cup Bits(0, 5) \in SUBSET Int
          /\ Bits(0, 6) \in SUBSET Int /\ Bits(0, 3) \in SUBSET Int
          /\ At(AtLeast(100 * MHz, 50 * MHz), 8) \cup {7} \cup At(AtMost(GPLL_HZ, 100 * MHz), 0)
               \in SUBSET Int
      BY Masks
    <2>2. Aclk25 \in Accesses
      BY <1>8, <2>1, WriteAccess DEF Accesses, Aclk25
    <2>3. ClrSet(21, {7} \cup Bits(0, 5), {7, 1, 0}) \in Accesses
      BY <1>8, <2>1, WriteAccess DEF Accesses
    <2>4. ClrSet(22, Bits(0, 6), Bits(0, 3)) \in Accesses
      BY <1>8, <2>1, WriteAccess DEF Accesses
    <2> QED BY <2>2, <2>3, <2>4, ThreeAccesses DEF LastWrites
  <1> QED BY <1>2, <1>4, <1>5, <1>6, <1>7, <1>9, <1>10

LEMMA Joined ==
  ASSUME NEW s \in Seq(Accesses), NEW t \in Seq(Accesses)
  PROVE  s \o t \in Seq(Accesses)
  BY ConcatProperties

\* What a part gives and all later parts keep is given by the whole.
LEMMA ClockInitGiven ==
  ASSUME NEW G, NEW K
  PROVE  /\ rk3399_clock_init \in Seq(Accesses)
         /\ Given(LastWrites, G, K) => Given(rk3399_clock_init, G, K)
         /\ Kept(LastWrites, K) =>
              /\ Given(Perilp0Buses, G, K) => Given(rk3399_clock_init, G, K)
              /\ Kept(Perilp0Buses, K) =>
                   /\ Given(PerihpBuses, G, K) => Given(rk3399_clock_init, G, K)
                   /\ Kept(PerihpBuses, K) =>
                        /\ Given(SetStart("cpll"), G, K) => Given(rk3399_clock_init, G, K)
                        /\ Kept(SetStart("cpll"), K) =>
                             /\ Given(SetStart("npll"), G, K) => Given(rk3399_clock_init, G, K)
                             /\ Kept(SetStart("npll"), K) =>
                                  (Given(SetStart("gpll"), G, K) => Given(rk3399_clock_init, G, K))
  <1> DEFINE cpus == StartLittle \o StartBig
             first == cpus \o FirstWrites
             gpll == first \o SetStart("gpll")
             npll == gpll \o SetStart("npll")
             cpll == npll \o SetStart("cpll")
             perihp == cpll \o PerihpBuses
             perilp0 == perihp \o Perilp0Buses
  <1>1. /\ SetStart("gpll") \in Seq(Accesses) /\ SetStart("npll") \in Seq(Accesses)
        /\ SetStart("cpll") \in Seq(Accesses)
        /\ FirstWrites \in Seq(Accesses) /\ LastWrites \in Seq(Accesses)
        /\ PerihpBuses \in Seq(Accesses) /\ Perilp0Buses \in Seq(Accesses)
    BY StartSequences DEF Started
  <1>2. cpus \in Seq(Accesses)
    BY StartSequences, Joined
  <1>3. rk3399_clock_init = perilp0 \o LastWrites
    BY StartSplit
  <1> HIDE DEF cpus
  <1>4. first \in Seq(Accesses)
    BY <1>1, <1>2, Joined
  <1> HIDE DEF first
  <1>5. gpll \in Seq(Accesses) /\ (Given(SetStart("gpll"), G, K) => Given(gpll, G, K))
    BY <1>1, <1>4, Joined, ThenGiven
  <1> HIDE DEF gpll
  <1>6. /\ npll \in Seq(Accesses)
        /\ Given(SetStart("npll"), G, K) => Given(npll, G, K)
        /\ Given(gpll, G, K) /\ Kept(SetStart("npll"), K) => Given(npll, G, K)
    BY <1>1, <1>5, Joined, ThenGiven, GivenThenKept
  <1> HIDE DEF npll
  <1>7. /\ cpll \in Seq(Accesses)
        /\ Given(SetStart("cpll"), G, K) => Given(cpll, G, K)
        /\ Given(npll, G, K) /\ Kept(SetStart("cpll"), K) => Given(cpll, G, K)
    BY <1>1, <1>6, Joined, ThenGiven, GivenThenKept
  <1> HIDE DEF cpll
  <1>8. /\ perihp \in Seq(Accesses)
        /\ Given(PerihpBuses, G, K) => Given(perihp, G, K)
        /\ Given(cpll, G, K) /\ Kept(PerihpBuses, K) => Given(perihp, G, K)
    BY <1>1, <1>7, Joined, ThenGiven, GivenThenKept
  <1> HIDE DEF perihp
  <1>9. /\ perilp0 \in Seq(Accesses)
        /\ Given(Perilp0Buses, G, K) => Given(perilp0, G, K)
        /\ Given(perihp, G, K) /\ Kept(Perilp0Buses, K) => Given(perilp0, G, K)
    BY <1>1, <1>8, Joined, ThenGiven, GivenThenKept
  <1> HIDE DEF perilp0
  <1>10. /\ rk3399_clock_init \in Seq(Accesses)
         /\ Given(LastWrites, G, K) => Given(rk3399_clock_init, G, K)
         /\ Given(perilp0, G, K) /\ Kept(LastWrites, K) => Given(rk3399_clock_init, G, K)
    BY <1>1, <1>3, <1>9, Joined, ThenGiven, GivenThenKept
  <1> QED BY <1>5, <1>6, <1>7, <1>8, <1>9, <1>10

LEMMA ClockInitKept ==
  ASSUME NEW K, Kept(StartLittle, K), Kept(StartBig, K), Kept(FirstWrites, K),
         Kept(SetStart("gpll"), K), Kept(SetStart("npll"), K), Kept(SetStart("cpll"), K),
         Kept(PerihpBuses, K), Kept(Perilp0Buses, K), Kept(LastWrites, K)
  PROVE  Kept(rk3399_clock_init, K)
  <1> DEFINE cpus == StartLittle \o StartBig
             first == cpus \o FirstWrites
             gpll == first \o SetStart("gpll")
             npll == gpll \o SetStart("npll")
             cpll == npll \o SetStart("cpll")
             perihp == cpll \o PerihpBuses
             perilp0 == perihp \o Perilp0Buses
  <1>1. /\ SetStart("gpll") \in Seq(Accesses) /\ SetStart("npll") \in Seq(Accesses)
        /\ SetStart("cpll") \in Seq(Accesses)
        /\ FirstWrites \in Seq(Accesses) /\ LastWrites \in Seq(Accesses)
        /\ PerihpBuses \in Seq(Accesses) /\ Perilp0Buses \in Seq(Accesses)
    BY StartSequences DEF Started
  <1>2. cpus \in Seq(Accesses) /\ Kept(cpus, K)
    BY StartSequences, Joined, KeptThenKept
  <1>3. rk3399_clock_init = perilp0 \o LastWrites
    BY StartSplit
  <1> HIDE DEF cpus
  <1>4. first \in Seq(Accesses) /\ Kept(first, K)
    BY <1>1, <1>2, Joined, KeptThenKept
  <1> HIDE DEF first
  <1>5. gpll \in Seq(Accesses) /\ Kept(gpll, K)
    BY <1>1, <1>4, Joined, KeptThenKept
  <1> HIDE DEF gpll
  <1>6. npll \in Seq(Accesses) /\ Kept(npll, K)
    BY <1>1, <1>5, Joined, KeptThenKept
  <1> HIDE DEF npll
  <1>7. cpll \in Seq(Accesses) /\ Kept(cpll, K)
    BY <1>1, <1>6, Joined, KeptThenKept
  <1> HIDE DEF cpll
  <1>8. perihp \in Seq(Accesses) /\ Kept(perihp, K)
    BY <1>1, <1>7, Joined, KeptThenKept
  <1> HIDE DEF perihp
  <1>9. perilp0 \in Seq(Accesses) /\ Kept(perilp0, K)
    BY <1>1, <1>8, Joined, KeptThenKept
  <1> HIDE DEF perilp0
  <1> QED BY <1>1, <1>3, <1>9, KeptThenKept

LEMMA StartGiven ==
  ASSUME NEW G, NEW K
  PROVE  /\ ArmPlatformInitialize \in Seq(Accesses)
         /\ Given(RunBig, G, K) => Given(ArmPlatformInitialize, G, K)
         /\ Kept(RunBig, K) =>
              /\ Given(RunLittle, G, K) => Given(ArmPlatformInitialize, G, K)
              /\ Kept(RunLittle, K) =>
                   /\ Given(rk3399_clock_init, G, K) => Given(ArmPlatformInitialize, G, K)
                   /\ Kept(rk3399_clock_init, K) =>
                        (Given(SetStart("ppll"), G, K) /\ Kept(PmuWrites, K)
                           => Given(ArmPlatformInitialize, G, K))
         /\ Kept(SetStart("ppll"), K) /\ Kept(PmuWrites, K) /\ Kept(rk3399_clock_init, K)
              /\ Kept(RunLittle, K) /\ Kept(RunBig, K) => Kept(ArmPlatformInitialize, K)
  <1> DEFINE pmu == rk3399_pmu_clock_init
             init == pmu \o rk3399_clock_init
             little == init \o RunLittle
  <1>1. /\ SetStart("ppll") \in Seq(Accesses) /\ PmuWrites \in Seq(Accesses)
        /\ RunLittle \in Seq(Accesses) /\ RunBig \in Seq(Accesses)
    BY StartSequences DEF Started
  <1>2. rk3399_clock_init \in Seq(Accesses)
    BY ClockInitGiven
  <1>3. pmu = SetStart("ppll") \o PmuWrites /\ ArmPlatformInitialize = little \o RunBig
    BY StartSplit
  <1>4. /\ pmu \in Seq(Accesses)
        /\ Given(SetStart("ppll"), G, K) /\ Kept(PmuWrites, K) => Given(pmu, G, K)
        /\ Kept(SetStart("ppll"), K) /\ Kept(PmuWrites, K) => Kept(pmu, K)
    BY <1>1, <1>3, Joined, GivenThenKept, KeptThenKept
  <1> HIDE DEF pmu
  <1>5. /\ init \in Seq(Accesses)
        /\ Given(pmu, G, K) /\ Kept(rk3399_clock_init, K) => Given(init, G, K)
        /\ Given(rk3399_clock_init, G, K) => Given(init, G, K)
        /\ Kept(pmu, K) /\ Kept(rk3399_clock_init, K) => Kept(init, K)
    BY <1>2, <1>4, Joined, GivenThenKept, ThenGiven, KeptThenKept
  <1> HIDE DEF init
  <1>6. /\ little \in Seq(Accesses)
        /\ Given(init, G, K) /\ Kept(RunLittle, K) => Given(little, G, K)
        /\ Given(RunLittle, G, K) => Given(little, G, K)
        /\ Kept(init, K) /\ Kept(RunLittle, K) => Kept(little, K)
    BY <1>1, <1>5, Joined, GivenThenKept, ThenGiven, KeptThenKept
  <1> HIDE DEF little
  <1>7. /\ ArmPlatformInitialize \in Seq(Accesses)
        /\ Given(little, G, K) /\ Kept(RunBig, K) => Given(ArmPlatformInitialize, G, K)
        /\ Given(RunBig, G, K) => Given(ArmPlatformInitialize, G, K)
        /\ Kept(little, K) /\ Kept(RunBig, K) => Kept(ArmPlatformInitialize, K)
    BY <1>1, <1>3, <1>6, Joined, GivenThenKept, ThenGiven, KeptThenKept
  <1> QED BY <1>4, <1>5, <1>6, <1>7

LEMMA StartWithin ==
  /\ \A p \in Started : Kept(SetStart(p), Within({}, {p}))
  /\ Kept(PmuWrites, Within({PmuClksel0}, {}))
  /\ Kept(FirstWrites, Within({12, 19, 56}, {}))
  /\ Kept(LastWrites, Within({25, 21, 22}, {}))
  /\ Kept(StartLittle, Within({0, 1}, {"apll_l"})) /\ Kept(RunLittle, Within({0, 1}, {"apll_l"}))
  /\ Kept(StartBig, Within({2, 3}, {"apll_b"})) /\ Kept(RunBig, Within({2, 3}, {"apll_b"}))
  /\ Kept(PerihpBuses, Within({14}, {})) /\ Kept(Perilp0Buses, Within({23}, {}))
  <1>1. ASSUME NEW p \in Started
        PROVE  Kept(SetStart(p), Within({}, {p}))
    <2>1. InitDivisors[p] \in Dividers /\ p \in PLLs
      BY DEF Dividers, Started, PLLs
    <2> QED BY <2>1, set_pll_Within DEF SetStart
  <1>2. Kept(PmuWrites, Within({PmuClksel0}, {}))
    <2>1. PmuClksel0 \in Registers
      BY DEF Registers
    <2>2. Bits(0, 5) \in SUBSET Int /\ At(AtLeast(676 * MHz, 48 * MHz), 0) \in SUBSET Int
      BY Masks
    <2>3. ClrSet(PmuClksel0, Bits(0, 5), At(AtLeast(676 * MHz, 48 * MHz), 0))
            \in Within({PmuClksel0}, {})
      BY <2>1, <2>2, WriteWithin
    <2> QED BY <2>3, ShortKept DEF PmuWrites
  <1>3. {12, 19, 56, 25, 21, 22, 14, 23} \subseteq Registers
    BY DEF Registers
  <1>4. Kept(FirstWrites, Within({12, 19, 56}, {}))
    <2> DEFINE K == Within({12, 19, 56}, {})
    <2>1. {9, 8} \cup Bits(0, 6) \in SUBSET Int
      BY Masks
    <2>2. ClrSet(12, 0 .. 15, {14, 8, 0}) \in K
      BY <1>3, WriteWithin
    <2>3. ClrSet(19, 0 .. 15, {9, 8} \cup Bits(0, 6)) \in K
      BY <1>3, <2>1, WriteWithin
    <2>4. ClrSet(56, {1, 0}, {1, 0}) \in K
      BY <1>3, WriteWithin
    <2> HIDE DEF K
    <2>5. Kept(FirstWrites, K)
      BY <2>2, <2>3, <2>4, ShortKept DEF FirstWrites
    <2> QED BY <2>5 DEF K
  <1>5. Kept(LastWrites, Within({25, 21, 22}, {}))
    <2> DEFINE K == Within({25, 21, 22}, {})
    <2>1. /\ Bits(8, 3) \cup {7} \in SUBSET Int /\ {7} \cup Bits(0, 5) \in SUBSET Int
          /\ Bits(0, 6) \in SUBSET Int /\ Bits(0, 3) \in SUBSET Int
          /\ At(AtLeast(100 * MHz, 50 * MHz), 8) \cup {7} \cup At(AtMost(GPLL_HZ, 100 * MHz), 0)
               \in SUBSET Int
      BY Masks
    <2>2. Aclk25 \in K
      BY <1>3, <2>1, WriteWithin DEF Aclk25
    <2>3. ClrSet(21, {7} \cup Bits(0, 5), {7, 1, 0}) \in K
      BY <1>3, <2>1, WriteWithin
    <2>4. ClrSet(22, Bits(0, 6), Bits(0, 3)) \in K
      BY <1>3, <2>1, WriteWithin
    <2> HIDE DEF K
    <2>5. Kept(LastWrites, K)
      BY <2>2, <2>3, <2>4, ShortKept DEF LastWrites
    <2> QED BY <2>5 DEF K
  <1>6. /\ 816 * MHz \in ApllFrequencies /\ 1300 * MHz \in ApllFrequencies
        /\ 1700 * MHz \in ApllFrequencies
    BY DEF ApllFrequencies
  <1>7. /\ ConBase(CPU_CLUSTER_LITTLE) = 0 /\ ConBase(CPU_CLUSTER_BIG) = 2
        /\ ApllOf(CPU_CLUSTER_LITTLE) = "apll_l" /\ ApllOf(CPU_CLUSTER_BIG) = "apll_b"
        /\ 0 + 1 = 1 /\ 2 + 1 = 3
    BY DEF ConBase, ApllOf, CPU_CLUSTER_LITTLE, CPU_CLUSTER_BIG
  <1>8. /\ Kept(StartLittle, Within({0, 1}, {"apll_l"}))
        /\ Kept(RunLittle, Within({0, 1}, {"apll_l"}))
    BY <1>6, <1>7, configure_cpu_Within DEF StartLittle, RunLittle
  <1>9. /\ Kept(StartBig, Within({2, 3}, {"apll_b"}))
        /\ Kept(RunBig, Within({2, 3}, {"apll_b"}))
    BY <1>6, <1>7, configure_cpu_Within DEF StartBig, RunBig
  <1>10. ASSUME NEW reg \in Registers, NEW aclk, NEW hclk, NEW pclk
         PROVE  Kept(BusRegister(reg, aclk, hclk, pclk), Within({reg}, {}))
    <2> DEFINE aclk_div == AtMost(GPLL_HZ, aclk)
               hclk_div == AtLeast(aclk, hclk)
               pclk_div == AtLeast(aclk, pclk)
               clr == Bits(12, 3) \cup Bits(8, 2) \cup {7} \cup Bits(0, 5)
               set == At(pclk_div, 12) \cup At(hclk_div, 8) \cup {7} \cup At(aclk_div, 0)
               K == Within({reg}, {})
    <2>1. clr \in SUBSET Int /\ set \in SUBSET Int
      BY Masks
    <2>2. Assert(hclk_div <= 3 /\ pclk_div <= 7) \in K
      BY AssertWithin
    <2>3. ClrSet(reg, clr, set) \in K
      BY <2>1, WriteWithin
    <2>4. BusRegister(reg, aclk, hclk, pclk)
            = << Assert(hclk_div <= 3 /\ pclk_div <= 7), ClrSet(reg, clr, set) >>
      BY DEF BusRegister
    <2> HIDE DEF K, clr, set, hclk_div, pclk_div
    <2>5. Kept(BusRegister(reg, aclk, hclk, pclk), K)
      BY <2>2, <2>3, <2>4, ShortKept
    <2> QED BY <2>5 DEF K
  <1>11. Kept(PerihpBuses, Within({14}, {})) /\ Kept(Perilp0Buses, Within({23}, {}))
    BY <1>3, <1>10 DEF PerihpBuses, Perilp0Buses
  <1> QED BY <1>1, <1>2, <1>4, <1>5, <1>8, <1>9, <1>11

(***************************************************************************)
(* The dividers of the buses, of the clusters and of the peripherals.      *)
(***************************************************************************)
LEMMA WillHoldOtherCall ==
  ASSUME NEW reg, NEW ones, NEW zeros, todo = << >>, clksel' = clksel,
         WillHold(reg, ones, zeros), NEW regs, NEW plls, reg \notin regs,
         Kept(todo', Within(regs, plls))
  PROVE  WillHold(reg, ones, zeros)'
  <1>1. Kept(todo', Spares(reg, ones \cup zeros))
    BY WithinSpares, KeptMore
  <1> QED BY <1>1, KeptByCall

LEMMA WillHoldStutter ==
  ASSUME NEW reg, NEW ones, NEW zeros, todo' = todo, clksel' = clksel,
         WillHold(reg, ones, zeros)
  PROVE  WillHold(reg, ones, zeros)'
  BY DEF WillHold, Holds

CpuFields(c, khz) ==
  /\ WillHold(ConBase(c), AclkmBits(khz), {})
  /\ WillHold(ConBase(c) + 1, DebugBits(khz), {})
  /\ WillHold(ConBase(c) + 1, AtclkBits(khz), Bits(0, 5) \ AtclkBits(khz))

CpuInv == \A c \in Clusters : \A khz \in ApllFrequencies : asked[c] = khz => CpuFields(c, khz)

\* The fields of the peripherals: the register, where the field starts, how wide it is,
\* and the number it holds at least.
BusFields ==
  {[reg |-> 14, shift |-> 0, width |-> 5, n |-> 5], [reg |-> 14, shift |-> 8, width |-> 2, n |-> 1],
   [reg |-> 14, shift |-> 12, width |-> 3, n |-> 3], [reg |-> 23, shift |-> 0, width |-> 5, n |-> 2],
   [reg |-> 23, shift |-> 8, width |-> 2, n |-> 2], [reg |-> 23, shift |-> 12, width |-> 3, n |-> 5],
   [reg |-> 25, shift |-> 0, width |-> 5, n |-> 7], [reg |-> 25, shift |-> 8, width |-> 3, n |-> 1]}

BusInv == \A f \in BusFields : WillHold(f.reg, At(f.n, f.shift), {})

FieldInv == CpuInv /\ BusInv

LEMMA Bases ==
  ASSUME NEW c \in Clusters
  PROVE  /\ ConBase(c) \in {0, 2} /\ {ConBase(c), ConBase(c) + 1} \subseteq Registers
         /\ \A d \in Clusters : d # c =>
              {ConBase(c), ConBase(c) + 1} \cap {ConBase(d), ConBase(d) + 1} = {}
  BY DEF ConBase, Registers, Clusters, CPU_CLUSTER_LITTLE, CPU_CLUSTER_BIG

LEMMA BusFieldsFit ==
  ASSUME NEW f \in BusFields
  PROVE  /\ f.reg \in {14, 23, 25} /\ f.reg \in Registers /\ f.shift \in 0 .. 16
         /\ f.width \in Widths /\ Fits(f.n, f.width) /\ f.n \in Nat
         /\ At(f.n, f.shift) \subseteq 0 .. 15
  <1>1. /\ f.reg \in {14, 23, 25} /\ f.reg \in Registers /\ f.shift \in 0 .. 12 /\ f.width \in Widths
        /\ f.shift + f.width <= 16 /\ f.n \in Nat
    BY DEF BusFields, Registers, Widths
  <1>2. Fits(f.n, f.width)
    BY DEF BusFields, Fits, PowersOf2
  <1>3. At(f.n, f.shift) \subseteq Bits(f.shift, f.width)
    BY <1>1, <1>2, AtInField
  <1>4. Bits(f.shift, f.width) \subseteq 0 .. 15
    BY <1>1 DEF Bits, Widths
  <1> QED BY <1>1, <1>2, <1>3, <1>4

LEMMA FieldDriver ==
  ASSUME ClockBase, FieldInv, Driver
  PROVE  FieldInv'
  <1>1. asked' = asked
    BY DriverStep DEF ClockBase
  <1>2. ASSUME NEW c \in Clusters, NEW khz \in ApllFrequencies, CpuFields(c, khz)
        PROVE  CpuFields(c, khz)'
    <2>1. ConBase(c) \in Registers /\ ConBase(c) + 1 \in Registers
      BY Bases
    <2>2. WillHold(ConBase(c), AclkmBits(khz), {})'
      BY <1>2, <2>1, WillHoldStep DEF CpuFields, ClockBase
    <2>3. WillHold(ConBase(c) + 1, DebugBits(khz), {})'
      BY <1>2, <2>1, WillHoldStep DEF CpuFields, ClockBase
    <2>4. WillHold(ConBase(c) + 1, AtclkBits(khz), Bits(0, 5) \ AtclkBits(khz))'
      BY <1>2, <2>1, WillHoldStep DEF CpuFields, ClockBase
    <2> QED BY <2>2, <2>3, <2>4 DEF CpuFields
  <1>3. ASSUME NEW f \in BusFields
        PROVE  WillHold(f.reg, At(f.n, f.shift), {})'
    BY BusFieldsFit, WillHoldStep DEF FieldInv, BusInv, ClockBase
  <1>4. CpuInv'
    BY <1>1, <1>2 DEF FieldInv, CpuInv
  <1>5. BusInv'
    BY <1>3 DEF BusInv
  <1> QED BY <1>4, <1>5 DEF FieldInv

LEMMA FieldStutter ==
  ASSUME FieldInv, todo' = todo, clksel' = clksel, asked' = asked
  PROVE  FieldInv'
  <1>1. ASSUME NEW c \in Clusters, NEW khz \in ApllFrequencies, CpuFields(c, khz)
        PROVE  CpuFields(c, khz)'
    BY <1>1, WillHoldStutter DEF CpuFields
  <1>2. CpuInv'
    BY <1>1 DEF FieldInv, CpuInv
  <1>3. BusInv'
    BY WillHoldStutter DEF FieldInv, BusInv
  <1> QED BY <1>2, <1>3 DEF FieldInv

\* A call that writes other registers than a cluster's keeps its fields.
LEMMA CpuFieldsKept ==
  ASSUME NEW c \in Clusters, NEW khz, CpuFields(c, khz), todo = << >>, clksel' = clksel,
         NEW regs, NEW plls, {ConBase(c), ConBase(c) + 1} \cap regs = {},
         Kept(todo', Within(regs, plls))
  PROVE  CpuFields(c, khz)'
  <1>1. WillHold(ConBase(c), AclkmBits(khz), {})'
    BY WillHoldOtherCall DEF CpuFields
  <1>2. WillHold(ConBase(c) + 1, DebugBits(khz), {})'
    BY WillHoldOtherCall DEF CpuFields
  <1>3. WillHold(ConBase(c) + 1, AtclkBits(khz), Bits(0, 5) \ AtclkBits(khz))'
    BY WillHoldOtherCall DEF CpuFields
  <1> QED BY <1>1, <1>2, <1>3 DEF CpuFields

LEMMA BusKept ==
  ASSUME BusInv, todo = << >>, clksel' = clksel,
         NEW regs, NEW plls, regs \cap {14, 23, 25} = {}, Kept(todo', Within(regs, plls))
  PROVE  BusInv'
  <1> SUFFICES ASSUME NEW f \in BusFields
               PROVE  WillHold(f.reg, At(f.n, f.shift), {})'
    BY DEF BusInv
  <1>1. WillHold(f.reg, At(f.n, f.shift), {}) /\ f.reg \notin regs
    BY BusFieldsFit DEF BusInv
  <1> QED BY <1>1, WillHoldOtherCall

LEMMA FieldOtherCall ==
  ASSUME FieldInv, todo = << >>, clksel' = clksel, \A c \in Clusters : asked'[c] = asked[c],
         NEW regs, NEW plls, regs \subseteq 42 .. 52, Kept(todo', Within(regs, plls))
  PROVE  FieldInv'
  <1>1. ASSUME NEW c \in Clusters, NEW khz \in ApllFrequencies, asked'[c] = khz
        PROVE  CpuFields(c, khz)'
    <2>1. CpuFields(c, khz)
      BY <1>1 DEF FieldInv, CpuInv
    <2>2. {ConBase(c), ConBase(c) + 1} \cap regs = {}
      BY Bases
    <2> QED BY <2>1, <2>2, CpuFieldsKept
  <1>2. BusInv'
    BY BusKept DEF FieldInv
  <1> QED BY <1>1, <1>2 DEF FieldInv, CpuInv

LEMMA FieldCpuCall ==
  ASSUME ClockBase, FieldInv, NEW rate \in ApllFrequencies, NEW k \in CpuClusters,
         Call(rk3399_configure_cpu(rate, k), k, rate)
  PROVE  FieldInv'
  <1>1. /\ todo = << >> /\ todo' = rk3399_configure_cpu(rate, k) /\ clksel' = clksel
        /\ asked' = [asked EXCEPT ![k] = rate]
    BY DEF Call
  <1>2. k \in Clusters
    BY ClusterAssumption
  <1>3. /\ asked'[k] = rate
        /\ \A c \in Clusters : c # k => asked'[c] = asked[c]
    BY <1>1, <1>2 DEF ClockBase, AskedOK, Clusters, CPU_CLUSTER_LITTLE, CPU_CLUSTER_BIG
  <1>4. Kept(todo', Within({ConBase(k), ConBase(k) + 1}, {ApllOf(k)}))
    BY <1>1, configure_cpu_Within
  <1>5. CpuFields(k, rate)'
    BY <1>1, configure_cpu_Gives, GivenByCall DEF CpuFields
  <1>6. ASSUME NEW c \in Clusters, NEW khz \in ApllFrequencies, asked'[c] = khz
        PROVE  CpuFields(c, khz)'
    <2>1. CASE c = k
      BY <1>3, <1>5, <1>6, <2>1
    <2>2. CASE c # k
      <3>1. CpuFields(c, khz)
        BY <1>3, <1>6, <2>2 DEF FieldInv, CpuInv
      <3>2. {ConBase(c), ConBase(c) + 1} \cap {ConBase(k), ConBase(k) + 1} = {}
        BY <1>2, <2>2, Bases
      <3> QED BY <1>1, <1>4, <3>1, <3>2, CpuFieldsKept
    <2> QED BY <2>1, <2>2
  <1>7. {ConBase(k), ConBase(k) + 1} \cap {14, 23, 25} = {}
    BY <1>2, Bases
  <1>8. BusInv'
    BY <1>1, <1>4, <1>7, BusKept DEF FieldInv
  <1> QED BY <1>6, <1>8 DEF FieldInv, CpuInv

LEMMA FieldNext == ClockBase /\ FieldInv /\ [Next]_vars => FieldInv'
  <1> SUFFICES ASSUME ClockBase, FieldInv, [Next]_vars
               PROVE  FieldInv'
    OBVIOUS
  <1>1. CASE UNCHANGED vars
    BY <1>1, FieldStutter DEF vars
  <1>2. CASE Driver
    BY <1>2, FieldDriver
  <1>3. ASSUME NEW p \in PLLs, Lock(p)
        PROVE  FieldInv'
    BY <1>3, FieldStutter DEF Lock
  <1>4. ASSUME NEW khz \in ApllFrequencies, NEW c \in CpuClusters,
               Call(rk3399_configure_cpu(khz, c), c, khz)
        PROVE  FieldInv'
    BY <1>4, FieldCpuCall
  <1>5. ASSUME NEW khz \in PixelRates, NEW vop \in {0, 1},
               Call(rk3399_vop_set_clk(vop, khz), "pixel", khz)
        PROVE  FieldInv'
    <2>1. /\ todo = << >> /\ todo' = rk3399_vop_set_clk(vop, khz) /\ clksel' = clksel
          /\ \A c \in Clusters : asked'[c] = asked[c]
      BY <1>5 DEF Call, ClockBase, AskedOK, Clusters, CPU_CLUSTER_LITTLE, CPU_CLUSTER_BIG
    <2>2. 47 .. 52 \subseteq 42 .. 52
      OBVIOUS
    <2> QED BY <2>1, <2>2, vop_set_clk_Within, FieldOtherCall
  <1>6. ASSUME NEW khz \in BusRates,
               \/ Call(rk3399_hdcp_set_clk(khz), "hdcp", khz)
               \/ Call(rk3399_vio_set_clk(khz), "vio", khz)
        PROVE  FieldInv'
    <2>1. /\ todo = << >> /\ clksel' = clksel
          /\ todo' = rk3399_hdcp_set_clk(khz) \/ todo' = rk3399_vio_set_clk(khz)
          /\ \A c \in Clusters : asked'[c] = asked[c]
      BY <1>6 DEF Call, ClockBase, AskedOK, Clusters, CPU_CLUSTER_LITTLE, CPU_CLUSTER_BIG
    <2>2. Kept(todo', Within({42, 43}, {}))
      BY <2>1, SharedWithin
    <2>3. {42, 43} \subseteq 42 .. 52
      OBVIOUS
    <2> QED BY <2>1, <2>2, <2>3, FieldOtherCall
  <1> QED BY <1>1, <1>2, <1>3, <1>4, <1>5, <1>6 DEF Next, Calling, Spin, Idle

LEMMA FirstGiven ==
  ASSUME NEW G, NEW K, NEW a \in G, NEW b \in K, NEW c \in K
  PROVE  Given(<< a, b, c >>, G, K)
  <1> DEFINE s == << a, b, c >>
  <1>1. Len(s) = 3 /\ s[1] = a /\ s[2] = b /\ s[3] = c
    OBVIOUS
  <1>2. \A j \in 2 .. 3 : s[j] \in K
    BY <1>1
  <1> QED BY <1>1, <1>2 DEF Given

\* What the registers of the peripherals are given.
LEMMA BusRegister_Gives ==
  ASSUME NEW reg \in Registers, NEW aclk, NEW hclk, NEW pclk, NEW ones,
         ones \subseteq 0 .. 15,
         \/ ones = At(AtLeast(aclk, pclk), 12)
         \/ ones = At(AtLeast(aclk, hclk), 8)
         \/ ones = At(AtMost(GPLL_HZ, aclk), 0)
  PROVE  Given(BusRegister(reg, aclk, hclk, pclk), Raises(reg, ones, {}), Spares(reg, ones \cup {}))
  <1> DEFINE aclk_div == AtMost(GPLL_HZ, aclk)
             hclk_div == AtLeast(aclk, hclk)
             pclk_div == AtLeast(aclk, pclk)
             clr == Bits(12, 3) \cup Bits(8, 2) \cup {7} \cup Bits(0, 5)
             set == At(pclk_div, 12) \cup At(hclk_div, 8) \cup {7} \cup At(aclk_div, 0)
             fit == Assert(hclk_div <= 3 /\ pclk_div <= 7)
  <1>1. clr \in SUBSET Int /\ set \in SUBSET Int
    BY Masks
  <1>2. ones \subseteq set
    OBVIOUS
  <1>3. BusRegister(reg, aclk, hclk, pclk) = << fit, ClrSet(reg, clr, set) >>
    BY DEF BusRegister
  <1> HIDE DEF clr, set, fit
  <1>4. ClrSet(reg, clr, set) \in Raises(reg, ones, {})
    BY <1>1, <1>2, WriteRaises
  <1> QED BY <1>3, <1>4, LastGiven

LEMMA LastWrites_Gives ==
  ASSUME NEW ones, ones \subseteq 0 .. 15,
         \/ ones = At(AtLeast(100 * MHz, 50 * MHz), 8)
         \/ ones = At(AtMost(GPLL_HZ, 100 * MHz), 0)
  PROVE  Given(LastWrites, Raises(25, ones, {}), Spares(25, ones \cup {}))
  <1> DEFINE clr == Bits(8, 3) \cup {7}
             set == At(AtLeast(100 * MHz, 50 * MHz), 8) \cup {7} \cup At(AtMost(GPLL_HZ, 100 * MHz), 0)
             b == ClrSet(21, {7} \cup Bits(0, 5), {7, 1, 0})
             c == ClrSet(22, Bits(0, 6), Bits(0, 3))
  <1>1. clr \in SUBSET Int /\ set \in SUBSET Int
    BY Masks
  <1>2. /\ {7} \cup Bits(0, 5) \in SUBSET Int /\ Bits(0, 6) \in SUBSET Int
        /\ Bits(0, 3) \in SUBSET Int
    BY Masks
  <1>3. 25 \in Registers /\ 21 \in Registers /\ 22 \in Registers
    BY DEF Registers
  <1>4. LastWrites = << ClrSet(25, clr, set), b, c >>
    BY DEF LastWrites, Aclk25
  <1>5. b \in Spares(25, ones \cup {})
    BY <1>2, <1>3, WriteElsewhere
  <1>6. c \in Spares(25, ones \cup {})
    BY <1>2, <1>3, WriteElsewhere
  <1>7. ones \subseteq set
    OBVIOUS
  <1> HIDE DEF clr, set, b, c
  <1>8. ClrSet(25, clr, set) \in Raises(25, ones, {})
    BY <1>1, <1>3, <1>7, WriteRaises
  <1> QED BY <1>4, <1>5, <1>6, <1>8, FirstGiven

LEMMA WithinKept ==
  ASSUME NEW s, NEW regs, NEW plls, Kept(s, Within(regs, plls)),
         NEW reg, reg \notin regs, NEW bits
  PROVE  Kept(s, Spares(reg, bits))
  BY WithinSpares, KeptMore

LEMMA BusInit == Init => BusInv
  <1> SUFFICES ASSUME Init, NEW f \in BusFields
               PROVE  WillHold(f.reg, At(f.n, f.shift), {})
    BY DEF BusInv
  <1> DEFINE ones == At(f.n, f.shift)
             G == Raises(f.reg, ones, {})
             K == Spares(f.reg, ones \cup {})
  <1>1. f.reg \in {14, 23, 25} /\ ones \subseteq 0 .. 15
    BY BusFieldsFit
  <1>2. Kept(RunLittle, K) /\ Kept(RunBig, K)
    <2>1. f.reg \notin {0, 1} /\ f.reg \notin {2, 3}
      BY <1>1
    <2>2. Kept(RunLittle, Within({0, 1}, {"apll_l"})) /\ Kept(RunBig, Within({2, 3}, {"apll_b"}))
      BY StartWithin
    <2> QED BY <2>1, <2>2, WithinKept
  <1>3. ASSUME f.reg # 25
        PROVE  Kept(LastWrites, K)
    <2>1. f.reg \notin {25, 21, 22}
      BY <1>1, <1>3
    <2>2. Kept(LastWrites, Within({25, 21, 22}, {}))
      BY StartWithin
    <2> QED BY <2>1, <2>2, WithinKept
  <1>4. ASSUME f.reg # 23
        PROVE  Kept(Perilp0Buses, K)
    <2>1. f.reg \notin {23}
      BY <1>4
    <2>2. Kept(Perilp0Buses, Within({23}, {}))
      BY StartWithin
    <2> QED BY <2>1, <2>2, WithinKept
  <1>5. /\ AtMost(GPLL_HZ, 150 * MHz) = 5 /\ AtLeast(150 * MHz, 75 * MHz) = 1
        /\ AtLeast(150 * MHz, 37500) = 3
        /\ AtMost(GPLL_HZ, 300 * MHz) = 2 /\ AtLeast(300 * MHz, 100 * MHz) = 2
        /\ AtLeast(300 * MHz, 50 * MHz) = 5
        /\ AtMost(GPLL_HZ, 100 * MHz) = 7 /\ AtLeast(100 * MHz, 50 * MHz) = 1
    BY DEF AtMost, AtLeast, DIV_ROUND_UP, GPLL_HZ, MHz
  <1>6. Given(rk3399_clock_init, G, K)
    <2>1. CASE f.reg = 14
      <3>1. ones \in {At(5, 0), At(1, 8), At(3, 12)}
        BY <2>1 DEF BusFields
      <3>2. 14 \in Registers
        BY DEF Registers
      <3>3. Given(PerihpBuses, Raises(14, ones, {}), Spares(14, ones \cup {}))
        BY <1>1, <1>5, <3>1, <3>2, BusRegister_Gives DEF PerihpBuses
      <3> QED BY <1>3, <1>4, <2>1, <3>3, ClockInitGiven
    <2>2. CASE f.reg = 23
      <3>1. ones \in {At(2, 0), At(2, 8), At(5, 12)}
        BY <2>2 DEF BusFields
      <3>2. 23 \in Registers
        BY DEF Registers
      <3>3. Given(Perilp0Buses, Raises(23, ones, {}), Spares(23, ones \cup {}))
        BY <1>1, <1>5, <3>1, <3>2, BusRegister_Gives DEF Perilp0Buses
      <3> QED BY <1>3, <2>2, <3>3, ClockInitGiven
    <2>3. CASE f.reg = 25
      <3>1. ones \in {At(7, 0), At(1, 8)}
        BY <2>3 DEF BusFields
      <3>2. Given(LastWrites, Raises(25, ones, {}), Spares(25, ones \cup {}))
        BY <1>1, <1>5, <3>1, LastWrites_Gives
      <3> QED BY <2>3, <3>2, ClockInitGiven
    <2> QED BY <1>1, <2>1, <2>2, <2>3
  <1>7. Given(ArmPlatformInitialize, G, K)
    BY <1>2, <1>6, StartGiven
  <1> QED BY <1>7 DEF WillHold, Init

LEMMA CpuInit == Init => CpuInv
  <1> SUFFICES ASSUME Init, NEW c \in Clusters, NEW khz \in ApllFrequencies, asked[c] = khz
               PROVE  CpuFields(c, khz)
    BY DEF CpuInv
  <1> DEFINE given(part, reg, ones, zeros) ==
               Given(part, Raises(reg, ones, zeros), Spares(reg, ones \cup zeros))
             fields(part) ==
               /\ given(part, ConBase(c), AclkmBits(khz), {})
               /\ given(part, ConBase(c) + 1, DebugBits(khz), {})
               /\ given(part, ConBase(c) + 1, AtclkBits(khz), Bits(0, 5) \ AtclkBits(khz))
  <1>1. CASE c = CPU_CLUSTER_LITTLE
    <2>1. khz = 1300 * MHz
      BY <1>1 DEF Init, CPU_CLUSTER_LITTLE
    <2>2. fields(RunLittle)
      BY <1>1, <2>1, configure_cpu_Gives DEF RunLittle
    <2>3. ConBase(c) \notin {2, 3} /\ ConBase(c) + 1 \notin {2, 3}
      BY <1>1 DEF ConBase
    <2>4. \A bits : /\ Kept(RunBig, Spares(ConBase(c), bits))
                    /\ Kept(RunBig, Spares(ConBase(c) + 1, bits))
      <3>1. Kept(RunBig, Within({2, 3}, {"apll_b"}))
        BY StartWithin
      <3> QED BY <2>3, <3>1, WithinKept
    <2>5. fields(ArmPlatformInitialize)
      BY <2>2, <2>4, StartGiven
    <2> QED BY <2>5 DEF CpuFields, WillHold, Init
  <1>2. CASE c = CPU_CLUSTER_BIG
    <2>1. khz = 1700 * MHz
      BY <1>2 DEF Init, CPU_CLUSTER_BIG
    <2>2. fields(RunBig)
      BY <1>2, <2>1, configure_cpu_Gives DEF RunBig
    <2>3. fields(ArmPlatformInitialize)
      BY <2>2, StartGiven
    <2> QED BY <2>3 DEF CpuFields, WillHold, Init
  <1> QED BY <1>1, <1>2 DEF Clusters

LEMMA FieldInit == Init => FieldInv
  BY BusInit, CpuInit DEF FieldInv

\* A frequency of the clusters, against a divider of its bus.
LEMMA NearNominal ==
  ASSUME NEW khz \in ApllFrequencies, NEW d \in Int
  PROVE  /\ d >= khz \div (300 * MHz) => khz < (d + 1) * (300 * MHz)
         /\ d >= khz \div (100 * MHz) => khz < (d + 1) * (100 * MHz)
         /\ d = khz \div (300 * MHz) => d * (300 * MHz) <= khz
  <1>1. 300 * MHz = 300000 /\ 100 * MHz = 100000
    BY SMT DEF MHz
  <1>2. khz \in {1700000, 1600000, 1300000, 816000, 600000}
    BY SMT DEF ApllFrequencies, MHz
  <1> QED BY <1>1, <1>2, SMT

LEMMA CpuAtRest == ClockBase /\ FieldInv => CpuBusesNearNominal
  <1> SUFFICES ASSUME ClockBase, FieldInv, todo = << >>, NEW c \in Clusters,
                      NEW base, base = IF c = "little" THEN 0 ELSE 2
               PROVE  /\ asked[c] < (Divider(base, 8, 5) + 1) * (300 * MHz)
                      /\ asked[c] < (Divider(base + 1, 8, 5) + 1) * (100 * MHz)
                      /\ Divider(base + 1, 0, 5) * (300 * MHz) <= asked[c]
                      /\ asked[c] < (Divider(base + 1, 0, 5) + 1) * (300 * MHz)
    BY DEF CpuBusesNearNominal, AtRest
  <1>1. PICK khz \in ApllFrequencies : asked[c] = khz
    BY DEF ClockBase, AskedOK, Clusters, CPU_CLUSTER_LITTLE, CPU_CLUSTER_BIG
  <1>2. ConBase(c) = base
    BY DEF ConBase, CPU_CLUSTER_LITTLE
  <1>3. CpuFields(c, khz)
    BY <1>1 DEF FieldInv, CpuInv
  <1>4. /\ AclkmBits(khz) \subseteq clksel[ConBase(c)]
        /\ DebugBits(khz) \subseteq clksel[ConBase(c) + 1]
        /\ AtclkBits(khz) \subseteq clksel[ConBase(c) + 1]
        /\ (Bits(0, 5) \ AtclkBits(khz)) \cap clksel[ConBase(c) + 1] = {}
    BY <1>3, HoldsAtRest DEF CpuFields, Holds
  <1>5. Divider(base, 8, 5) \in Int /\ Divider(base, 8, 5) >= khz \div (300 * MHz)
    BY <1>2, <1>4, CpuDividers, FieldAtLeast DEF AclkmBits, Widths
  <1>6. Divider(base + 1, 8, 5) \in Int /\ Divider(base + 1, 8, 5) >= khz \div (100 * MHz)
    BY <1>2, <1>4, CpuDividers, FieldAtLeast DEF DebugBits, Widths
  <1>7. Divider(base + 1, 0, 5) \in Int /\ Divider(base + 1, 0, 5) = khz \div (300 * MHz)
    <2>1. Divider(base + 1, 0, 5) = khz \div (300 * MHz)
      BY <1>2, <1>4, CpuDividers, FieldExactly DEF AtclkBits, Widths
    <2>2. Divider(base + 1, 0, 5) \in Int
      BY <1>2, <1>4, CpuDividers, FieldAtLeast DEF AtclkBits, Widths
    <2> QED BY <2>1, <2>2
  <1>8. khz < (Divider(base, 8, 5) + 1) * (300 * MHz)
    BY <1>5, NearNominal
  <1>9. khz < (Divider(base + 1, 8, 5) + 1) * (100 * MHz)
    BY <1>6, NearNominal
  <1>10. /\ Divider(base + 1, 0, 5) * (300 * MHz) <= khz
         /\ khz < (Divider(base + 1, 0, 5) + 1) * (300 * MHz)
    <2> DEFINE d == Divider(base + 1, 0, 5)
    <2>1. d \in Int /\ d = khz \div (300 * MHz)
      BY <1>7
    <2> HIDE DEF d
    <2>2. d >= khz \div (300 * MHz)
      BY <2>1, SMT
    <2> QED BY <2>1, <2>2, NearNominal DEF d
  <1> QED BY <1>1, <1>8, <1>9, <1>10, Zenon

LEMMA ProductAtLeast ==
  ASSUME NEW a \in Int, NEW b \in Int, NEW m \in Nat, NEW n \in Nat, a >= m, b >= n
  PROVE  a * b >= m * n
  <1>1. a * b >= m * b
    BY SMT
  <1>2. m * b >= m * n
    BY SMT
  <1> QED BY <1>1, <1>2

LEMMA BusAtRest == ClockBase /\ FieldInv => PeripheralBusesInLimits
  <1> SUFFICES ASSUME FieldInv, todo = << >>
               PROVE  /\ Divider(14, 0, 5) * 150 >= 800
                      /\ Divider(14, 0, 5) * Divider(14, 8, 2) * 75 >= 800
                      /\ Divider(14, 0, 5) * Divider(14, 12, 3) * 37500 >= 800 * MHz
                      /\ Divider(23, 0, 5) * 300 >= 800
                      /\ Divider(23, 0, 5) * Divider(23, 8, 2) * 100 >= 800
                      /\ Divider(23, 0, 5) * Divider(23, 12, 3) * 50 >= 800
                      /\ Divider(25, 0, 5) * 100 >= 800
                      /\ Divider(25, 0, 5) * Divider(25, 8, 3) * 50 >= 800
    BY DEF PeripheralBusesInLimits, AtRest
  <1>1. ASSUME NEW f \in BusFields
        PROVE  /\ Divider(f.reg, f.shift, f.width) \in Int
               /\ Divider(f.reg, f.shift, f.width) >= f.n + 1
    <2>1. At(f.n, f.shift) \subseteq clksel[f.reg]
      BY HoldsAtRest DEF FieldInv, BusInv, Holds
    <2> QED BY <2>1, BusFieldsFit, FieldAtLeast
  <1> DEFINE d(reg, shift, width) == Divider(reg, shift, width)
  <1>2. ASSUME NEW reg, NEW shift, NEW width, NEW n,
               [reg |-> reg, shift |-> shift, width |-> width, n |-> n] \in BusFields
        PROVE  d(reg, shift, width) \in Int /\ d(reg, shift, width) >= n + 1
    BY <1>1, <1>2
  <1> HIDE DEF d
  <1>3. /\ d(14, 0, 5) \in Int /\ d(14, 0, 5) >= 5 + 1
        /\ d(14, 8, 2) \in Int /\ d(14, 8, 2) >= 1 + 1
        /\ d(14, 12, 3) \in Int /\ d(14, 12, 3) >= 3 + 1
    BY <1>2 DEF BusFields
  <1>4. /\ d(23, 0, 5) \in Int /\ d(23, 0, 5) >= 2 + 1
        /\ d(23, 8, 2) \in Int /\ d(23, 8, 2) >= 2 + 1
        /\ d(23, 12, 3) \in Int /\ d(23, 12, 3) >= 5 + 1
    BY <1>2 DEF BusFields
  <1>5. /\ d(25, 0, 5) \in Int /\ d(25, 0, 5) >= 7 + 1
        /\ d(25, 8, 3) \in Int /\ d(25, 8, 3) >= 1 + 1
    BY <1>2 DEF BusFields
  <1>6. d(14, 0, 5) * d(14, 8, 2) >= 12 /\ d(14, 0, 5) * d(14, 8, 2) \in Int
    BY <1>3, ProductAtLeast
  <1>7. d(14, 0, 5) * d(14, 12, 3) >= 24 /\ d(14, 0, 5) * d(14, 12, 3) \in Int
    BY <1>3, ProductAtLeast
  <1>8. d(23, 0, 5) * d(23, 8, 2) >= 9 /\ d(23, 0, 5) * d(23, 8, 2) \in Int
    BY <1>4, ProductAtLeast
  <1>9. d(23, 0, 5) * d(23, 12, 3) >= 18 /\ d(23, 0, 5) * d(23, 12, 3) \in Int
    BY <1>4, ProductAtLeast
  <1>10. d(25, 0, 5) * d(25, 8, 3) >= 16 /\ d(25, 0, 5) * d(25, 8, 3) \in Int
    BY <1>5, ProductAtLeast
  <1>11. /\ \A x \in Int : x >= 6 => x * 150 >= 800
         /\ \A x \in Int : x >= 3 => x * 300 >= 800
         /\ \A x \in Int : x >= 8 => x * 100 >= 800
         /\ \A x \in Int : x >= 12 => x * 75 >= 800
         /\ \A x \in Int : x >= 24 => x * 37500 >= 800 * MHz
         /\ \A x \in Int : x >= 9 => x * 100 >= 800
         /\ \A x \in Int : x >= 16 => x * 50 >= 800
    BY DEF MHz
  <1>12. d(14, 0, 5) * 150 >= 800 /\ d(23, 0, 5) * 300 >= 800 /\ d(25, 0, 5) * 100 >= 800
    <2>1. d(14, 0, 5) >= 6 /\ d(23, 0, 5) >= 3 /\ d(25, 0, 5) >= 8
      BY <1>3, <1>4, <1>5
    <2>2. d(14, 0, 5) * 150 >= 800
      BY <1>3, <1>11, <2>1
    <2>3. d(23, 0, 5) * 300 >= 800
      BY <1>4, <1>11, <2>1
    <2>4. d(25, 0, 5) * 100 >= 800
      BY <1>5, <1>11, <2>1
    <2> QED BY <2>2, <2>3, <2>4
  <1>13. d(14, 0, 5) * d(14, 8, 2) * 75 >= 800
    BY <1>6, <1>11
  <1>14. d(14, 0, 5) * d(14, 12, 3) * 37500 >= 800 * MHz
    BY <1>7, <1>11
  <1>15. d(23, 0, 5) * d(23, 8, 2) * 100 >= 800
    BY <1>8, <1>11
  <1>16. d(23, 0, 5) * d(23, 12, 3) * 50 >= 800
    BY <1>9, <1>11
  <1>17. d(25, 0, 5) * d(25, 8, 3) * 50 >= 800
    BY <1>10, <1>11
  <1> QED BY <1>12, <1>13, <1>14, <1>15, <1>16, <1>17 DEF d

(***************************************************************************)
(* The PLLs of the start.                                                  *)
(***************************************************************************)
StartPllInv == \A p \in Started : WillBeSet(p, InitDivisors[p]) /\ WillRun(p)

\* A call that leaves a PLL alone.
LEMMA PllOtherCall ==
  ASSUME todo = << >>, pll' = pll, NEW p \in PLLs, NEW div,
         NEW regs, NEW plls, p \notin plls, Kept(todo', Within(regs, plls))
  PROVE  /\ WillBeSet(p, div) => WillBeSet(p, div)'
         /\ WillRun(p) => WillRun(p)'
  <1>1. \A ops : ops \subseteq Later \cup {"slow"} => Kept(todo', NoneOf(ops, p))
    BY WithinNoneOf, KeptMore
  <1>2. /\ Kept(todo', NoneOf({"fbdiv"}, p)) /\ Kept(todo', NoneOf({"divisors"}, p))
        /\ Kept(todo', NoneOf({"slow", "normal"}, p))
    BY <1>1 DEF Later
  <1>3. ASSUME WillBeSet(p, div)
        PROVE  WillBeSet(p, div)'
    <2>1. pll[p].fbdiv = div.fbdiv
      BY <1>3, EmptyGiven DEF WillBeSet, WillFeedBack
    <2>2. HasDivisors(p, div)
      BY <1>3, EmptyGiven DEF WillBeSet, WillDivide
    <2>3. WillFeedBack(p, div)'
      BY <1>2, <2>1 DEF WillFeedBack
    <2>4. WillDivide(p, div)'
      BY <1>2, <2>2 DEF WillDivide, HasDivisors
    <2> QED BY <2>3, <2>4 DEF WillBeSet
  <1>4. ASSUME WillRun(p)
        PROVE  WillRun(p)'
    <2>1. pll[p].mode = "normal"
      BY <1>4, EmptyGiven DEF WillRun
    <2> QED BY <1>2, <2>1 DEF WillRun
  <1> QED BY <1>3, <1>4

\* A PLL that locks, and anything else that leaves its dividers and its mode.
LEMMA PllSame ==
  ASSUME todo' = todo, NEW p \in PLLs, NEW div,
         pll'[p].fbdiv = pll[p].fbdiv, pll'[p].refdiv = pll[p].refdiv,
         pll'[p].postdiv1 = pll[p].postdiv1, pll'[p].postdiv2 = pll[p].postdiv2,
         pll'[p].mode = pll[p].mode
  PROVE  /\ WillBeSet(p, div) => WillBeSet(p, div)'
         /\ WillRun(p) => WillRun(p)'
  BY DEF WillBeSet, WillFeedBack, WillDivide, HasDivisors, WillRun

LEMMA LockSame ==
  ASSUME ClockInv, NEW q \in PLLs, Lock(q), NEW p \in PLLs
  PROVE  /\ todo' = todo
         /\ pll'[p].fbdiv = pll[p].fbdiv /\ pll'[p].refdiv = pll[p].refdiv
         /\ pll'[p].postdiv1 = pll[p].postdiv1 /\ pll'[p].postdiv2 = pll[p].postdiv2
         /\ pll'[p].mode = pll[p].mode
  BY DEF ClockInv, ClockTypeOK, Lock

\* A PLL that is set is given its dividers and started.
LEMMA SetGivesPll ==
  ASSUME NEW p \in PLLs, NEW div,
         Given(todo, With("fbdiv", p, div), NoneOf({"fbdiv"}, p)),
         Given(todo, With("divisors", p, div), NoneOf({"divisors"}, p))
  PROVE  WillBeSet(p, div)
  BY DEF WillBeSet, WillFeedBack, WillDivide

LEMMA StartedPLL ==
  ASSUME NEW p \in Started
  PROVE  /\ p \in PLLs /\ InitDivisors[p] \in Dividers
         /\ p \notin {"apll_l"} /\ p \notin {"apll_b"} /\ p \notin {"vpll"}
  BY DEF Started, PLLs, Dividers

\* Every part of the start but its own leaves a PLL alone.
LEMMA StartKeepsPll ==
  ASSUME NEW p \in Started, NEW ops, ops \subseteq Later \cup {"slow"}
  PROVE  LET K == NoneOf(ops, p)
         IN /\ Kept(PmuWrites, K) /\ Kept(FirstWrites, K) /\ Kept(LastWrites, K)
            /\ Kept(StartLittle, K) /\ Kept(StartBig, K) /\ Kept(RunLittle, K) /\ Kept(RunBig, K)
            /\ Kept(PerihpBuses, K) /\ Kept(Perilp0Buses, K)
            /\ \A q \in Started : q # p => Kept(SetStart(q), K)
  <1> DEFINE K == NoneOf(ops, p)
  <1>1. ASSUME NEW s, NEW regs, NEW plls, p \notin plls, Kept(s, Within(regs, plls))
        PROVE  Kept(s, K)
    BY <1>1, WithinNoneOf, KeptMore
  <1> HIDE DEF K
  <1>2. p \notin {} /\ p \notin {"apll_l"} /\ p \notin {"apll_b"}
    BY StartedPLL
  <1>3. Kept(PmuWrites, K) /\ Kept(FirstWrites, K) /\ Kept(LastWrites, K)
    <2>1. Kept(PmuWrites, K)
      BY <1>1, <1>2, StartWithin
    <2>2. Kept(FirstWrites, K)
      BY <1>1, <1>2, StartWithin
    <2>3. Kept(LastWrites, K)
      BY <1>1, <1>2, StartWithin
    <2> QED BY <2>1, <2>2, <2>3
  <1>4. Kept(StartLittle, K) /\ Kept(StartBig, K)
    <2>1. Kept(StartLittle, K)
      BY <1>1, <1>2, StartWithin
    <2>2. Kept(StartBig, K)
      BY <1>1, <1>2, StartWithin
    <2> QED BY <2>1, <2>2
  <1>5. Kept(RunLittle, K) /\ Kept(RunBig, K)
    <2>1. Kept(RunLittle, K)
      BY <1>1, <1>2, StartWithin
    <2>2. Kept(RunBig, K)
      BY <1>1, <1>2, StartWithin
    <2> QED BY <2>1, <2>2
  <1>6. Kept(PerihpBuses, K) /\ Kept(Perilp0Buses, K)
    <2>1. Kept(PerihpBuses, K)
      BY <1>1, <1>2, StartWithin
    <2>2. Kept(Perilp0Buses, K)
      BY <1>1, <1>2, StartWithin
    <2> QED BY <2>1, <2>2
  <1>7. ASSUME NEW q \in Started, q # p
        PROVE  Kept(SetStart(q), K)
    <2>1. p \notin {q} /\ Kept(SetStart(q), Within({}, {q}))
      BY <1>7, StartWithin
    <2> QED BY <1>1, <2>1
  <1> QED BY <1>3, <1>4, <1>5, <1>6, <1>7 DEF K

\* What setting a PLL gives is given by the whole start.
LEMMA StartGivesPll ==
  ASSUME NEW p \in Started, NEW ops, ops \subseteq Later \cup {"slow"}, NEW G,
         Given(SetStart(p), G, NoneOf(ops, p))
  PROVE  Given(ArmPlatformInitialize, G, NoneOf(ops, p))
  <1> DEFINE K == NoneOf(ops, p)
  <1>1. /\ Kept(PmuWrites, K) /\ Kept(FirstWrites, K) /\ Kept(LastWrites, K)
        /\ Kept(StartLittle, K) /\ Kept(StartBig, K) /\ Kept(RunLittle, K) /\ Kept(RunBig, K)
        /\ Kept(PerihpBuses, K) /\ Kept(Perilp0Buses, K)
        /\ \A q \in Started : q # p => Kept(SetStart(q), K)
    BY StartKeepsPll
  <1> HIDE DEF K
  <1>2. CASE p = "ppll"
    <2>1. /\ Kept(SetStart("gpll"), K) /\ Kept(SetStart("npll"), K)
          /\ Kept(SetStart("cpll"), K)
      BY <1>1, <1>2 DEF Started
    <2>2. Kept(rk3399_clock_init, K)
      BY <1>1, <2>1, ClockInitKept
    <2>3. Given(SetStart("ppll"), G, K)
      BY <1>2 DEF K
    <2>4. Given(ArmPlatformInitialize, G, K)
      BY <1>1, <2>2, <2>3, StartGiven
    <2> QED BY <2>4 DEF K
  <1>3. ASSUME Given(rk3399_clock_init, G, K)
        PROVE  Given(ArmPlatformInitialize, G, NoneOf(ops, p))
    <2>1. Given(ArmPlatformInitialize, G, K)
      BY <1>1, <1>3, StartGiven
    <2> QED BY <2>1 DEF K
  <1>4. CASE p = "gpll"
    <2>1. Kept(SetStart("npll"), K) /\ Kept(SetStart("cpll"), K)
      BY <1>1, <1>4 DEF Started
    <2>2. Given(SetStart("gpll"), G, K)
      BY <1>4 DEF K
    <2> QED BY <1>1, <1>3, <2>1, <2>2, ClockInitGiven
  <1>5. CASE p = "npll"
    <2>1. Kept(SetStart("cpll"), K)
      BY <1>1, <1>5 DEF Started
    <2>2. Given(SetStart("npll"), G, K)
      BY <1>5 DEF K
    <2> QED BY <1>1, <1>3, <2>1, <2>2, ClockInitGiven
  <1>6. CASE p = "cpll"
    <2>1. Given(SetStart("cpll"), G, K)
      BY <1>6 DEF K
    <2> QED BY <1>1, <1>3, <2>1, ClockInitGiven
  <1> QED BY <1>2, <1>4, <1>5, <1>6 DEF Started

LEMMA StartPllInit == Init => StartPllInv
  <1> SUFFICES ASSUME todo = ArmPlatformInitialize, NEW p \in Started
               PROVE  WillBeSet(p, InitDivisors[p]) /\ WillRun(p)
    BY DEF Init, StartPllInv
  <1> DEFINE div == InitDivisors[p]
  <1>1. p \in PLLs /\ div \in Dividers
    BY StartedPLL
  <1> HIDE DEF div
  <1>2. SetStart(p) = rkclk_set_pll(p, div)
    BY DEF SetStart, div
  <1>3. Given(SetStart(p), With("fbdiv", p, div), NoneOf({"fbdiv"}, p))
    BY <1>1, <1>2, set_pll_Gives
  <1>4. Given(SetStart(p), With("divisors", p, div), NoneOf({"divisors"}, p))
    BY <1>1, <1>2, set_pll_Gives
  <1>5. Given(SetStart(p), Starts(p), NoneOf({"slow", "normal"}, p))
    BY <1>1, <1>2, set_pll_Gives
  <1>6. Given(ArmPlatformInitialize, With("fbdiv", p, div), NoneOf({"fbdiv"}, p))
    BY <1>3, StartGivesPll DEF Later
  <1>7. Given(ArmPlatformInitialize, With("divisors", p, div), NoneOf({"divisors"}, p))
    BY <1>4, StartGivesPll DEF Later
  <1>8. Given(ArmPlatformInitialize, Starts(p), NoneOf({"slow", "normal"}, p))
    BY <1>5, StartGivesPll DEF Later
  <1>9. WillBeSet(p, div)
    BY <1>1, <1>6, <1>7, SetGivesPll
  <1>10. WillRun(p)
    BY <1>8 DEF WillRun
  <1> QED BY <1>9, <1>10 DEF div

\* What each step does to what a PLL will be set to.
LEMMA PllNext ==
  ASSUME ClockBase, [Next]_vars, NEW p \in PLLs, p \notin {"apll_l", "apll_b", "vpll"}, NEW div
  PROVE  /\ WillBeSet(p, div) => WillBeSet(p, div)'
         /\ WillRun(p) => WillRun(p)'
  <1>1. CASE UNCHANGED vars
    BY <1>1, PllSame DEF vars
  <1>2. CASE Driver
    BY <1>2, WillFeedBackStep, WillDivideStep, WillRunStep DEF ClockBase, WillBeSet
  <1>3. ASSUME NEW q \in PLLs, Lock(q)
        PROVE  /\ WillBeSet(p, div) => WillBeSet(p, div)'
               /\ WillRun(p) => WillRun(p)'
    BY <1>3, LockSame, PllSame DEF ClockBase
  <1>4. CASE Calling
    <2>1. PICK regs, plls : p \notin plls /\ Kept(todo', Within(regs, plls))
      <3>1. ASSUME NEW khz \in ApllFrequencies, NEW c \in CpuClusters,
                   Call(rk3399_configure_cpu(khz, c), c, khz)
            PROVE  \E regs, plls : p \notin plls /\ Kept(todo', Within(regs, plls))
        <4>1. Kept(todo', Within({ConBase(c), ConBase(c) + 1}, {ApllOf(c)}))
          BY <3>1, configure_cpu_Within DEF Call
        <4>2. p \notin {ApllOf(c)}
          BY DEF ApllOf
        <4> QED BY <4>1, <4>2
      <3>2. ASSUME NEW khz \in PixelRates, NEW vop \in {0, 1},
                   Call(rk3399_vop_set_clk(vop, khz), "pixel", khz)
            PROVE  \E regs, plls : p \notin plls /\ Kept(todo', Within(regs, plls))
        <4>1. Kept(todo', Within(47 .. 52, {"vpll"}))
          BY <3>2, vop_set_clk_Within DEF Call
        <4> QED BY <4>1
      <3>3. ASSUME NEW khz \in BusRates,
                   \/ Call(rk3399_hdcp_set_clk(khz), "hdcp", khz)
                   \/ Call(rk3399_vio_set_clk(khz), "vio", khz)
            PROVE  \E regs, plls : p \notin plls /\ Kept(todo', Within(regs, plls))
        <4>1. Kept(todo', Within({42, 43}, {}))
          BY <3>3, SharedWithin DEF Call
        <4> QED BY <4>1
      <3> QED BY <1>4, <3>1, <3>2, <3>3 DEF Calling
    <2>2. todo = << >> /\ pll' = pll
      BY <1>4 DEF Calling, Call
    <2> QED BY <2>1, <2>2, PllOtherCall
  <1> QED BY <1>1, <1>2, <1>3, <1>4 DEF Next, Spin, Idle

LEMMA StartPllNext == ClockBase /\ StartPllInv /\ [Next]_vars => StartPllInv'
  <1> SUFFICES ASSUME ClockBase, StartPllInv, [Next]_vars, NEW p \in Started
               PROVE  (WillBeSet(p, InitDivisors[p]) /\ WillRun(p))'
    BY DEF StartPllInv
  <1> DEFINE div == InitDivisors[p]
  <1>1. p \in PLLs /\ p \notin {"apll_l", "apll_b", "vpll"}
    BY StartedPLL
  <1>2. WillBeSet(p, div) /\ WillRun(p)
    BY DEF StartPllInv
  <1> HIDE DEF div
  <1>3. WillBeSet(p, div)' /\ WillRun(p)'
    BY <1>1, <1>2, PllNext
  <1> QED BY <1>3 DEF div

LEMMA RateAtRest == ClockBase /\ StartPllInv => RateReported
  <1> SUFFICES ASSUME StartPllInv, todo = << >>, NEW p \in Started
               PROVE  rkclk_pll_get_rate(pll[p]) \in InitFrequency[p] - 24 * MHz .. InitFrequency[p]
    BY DEF RateReported, AtRest, Started
  <1> DEFINE div == InitDivisors[p]
             r == pll[p]
  <1>1. WillBeSet(p, div) /\ WillRun(p)
    BY DEF StartPllInv
  <1>2. r.fbdiv = div.fbdiv /\ r.mode = "normal"
    BY <1>1, EmptyGiven DEF WillBeSet, WillFeedBack, WillRun
  <1>3. r.refdiv = div.refdiv /\ r.postdiv1 = div.postdiv1 /\ r.postdiv2 = div.postdiv2
    BY <1>1, EmptyGiven DEF WillBeSet, WillDivide, HasDivisors
  <1>4. rkclk_pll_get_rate(r)
          = ((24 * div.fbdiv) \div (div.refdiv * div.postdiv1 * div.postdiv2)) * MHz
    BY <1>2, <1>3 DEF rkclk_pll_get_rate
  <1>5. LET rate == ((24 * div.fbdiv) \div (div.refdiv * div.postdiv1 * div.postdiv2)) * MHz
        IN rate \in Int /\ InitFrequency[p] - 24 * MHz <= rate /\ rate <= InitFrequency[p]
    BY DEF Started, InitDivisors, PLL_DIVISORS, InitFrequency, MHz, GPLL_HZ, OSC_HZ
  <1>6. InitFrequency[p] \in Int
    BY DEF Started, InitFrequency, MHz, GPLL_HZ
  <1> QED BY <1>4, <1>5, <1>6

(***************************************************************************)
(* The assertions.                                                         *)
(***************************************************************************)
LEMMA set_pll_Passing ==
  ASSUME NEW p \in PLLs, NEW div \in Dividers, PllInRange(div)
  PROVE  Kept(rkclk_set_pll(p, div), Passing)
  <1>1. PllInRange(div) \in BOOLEAN
    BY DEF PllInRange
  <1>2. Assert(PllInRange(div)) \in Passing
    BY <1>1, AssertPasses
  <1>3. /\ PllOp("slow", p, div) \in Passing /\ PllOp("integer", p, div) \in Passing
        /\ PllOp("fbdiv", p, div) \in Passing /\ PllOp("divisors", p, div) \in Passing
        /\ PllOp("lock", p, div) \in Passing /\ PllOp("normal", p, div) \in Passing
    BY PllPasses DEF Later
  <1> DEFINE s == rkclk_set_pll(p, div)
  <1>4. /\ Len(s) = 7 /\ s[1] = Assert(PllInRange(div))
        /\ s[2] = PllOp("slow", p, div) /\ s[3] = PllOp("integer", p, div)
        /\ s[4] = PllOp("fbdiv", p, div) /\ s[5] = PllOp("divisors", p, div)
        /\ s[6] = PllOp("lock", p, div) /\ s[7] = PllOp("normal", p, div)
    BY DEF rkclk_set_pll
  <1> HIDE DEF s
  <1>5. \A i \in 1 .. 7 : i = 1 \/ i = 2 \/ i = 3 \/ i = 4 \/ i = 5 \/ i = 6 \/ i = 7
    OBVIOUS
  <1>6. Kept(s, Passing)
    BY <1>2, <1>3, <1>4, <1>5 DEF Kept
  <1> QED BY <1>6 DEF s

\* The dividers of the tables put their VCO and its output into range.
LEMMA TablesInRange ==
  /\ \A khz \in ApllFrequencies : PllInRange(apll_cfgs(khz))
  /\ \A p \in Started : PllInRange(InitDivisors[p])
  <1>1. ASSUME NEW khz \in ApllFrequencies
        PROVE  PllInRange(apll_cfgs(khz))
    <2>1. CASE khz = 1700000
      BY <2>1 DEF PllInRange, VcoInRange, apll_cfgs, PLL_DIVISORS, MHz, OSC_HZ
    <2>2. CASE khz = 1600000
      BY <2>2 DEF PllInRange, VcoInRange, apll_cfgs, PLL_DIVISORS, MHz, OSC_HZ
    <2>3. CASE khz = 1300000
      BY <2>3 DEF PllInRange, VcoInRange, apll_cfgs, PLL_DIVISORS, MHz, OSC_HZ
    <2>4. CASE khz = 816000
      BY <2>4 DEF PllInRange, VcoInRange, apll_cfgs, PLL_DIVISORS, MHz, OSC_HZ
    <2>5. CASE khz = 600000
      BY <2>5 DEF PllInRange, VcoInRange, apll_cfgs, PLL_DIVISORS, MHz, OSC_HZ
    <2> QED BY <2>1, <2>2, <2>3, <2>4, <2>5 DEF ApllFrequencies, MHz
  <1>2. ASSUME NEW p \in Started
        PROVE  PllInRange(InitDivisors[p])
    <2>1. p = "ppll" \/ p = "gpll" \/ p = "npll" \/ p = "cpll"
      BY DEF Started
    <2>2. CASE p = "ppll"
      BY <2>2 DEF PllInRange, VcoInRange, InitDivisors, PLL_DIVISORS, MHz, OSC_HZ
    <2>3. CASE p = "gpll"
      BY <2>3 DEF PllInRange, VcoInRange, InitDivisors, PLL_DIVISORS, MHz, OSC_HZ, GPLL_HZ
    <2>4. CASE p = "npll"
      BY <2>4 DEF PllInRange, VcoInRange, InitDivisors, PLL_DIVISORS, MHz, OSC_HZ
    <2>5. CASE p = "cpll"
      BY <2>5 DEF PllInRange, VcoInRange, InitDivisors, PLL_DIVISORS, MHz, OSC_HZ
    <2> QED BY <2>1, <2>2, <2>3, <2>4, <2>5
  <1> QED BY <1>1, <1>2

LEMMA configure_cpu_Passing ==
  ASSUME NEW khz \in ApllFrequencies, NEW c
  PROVE  Kept(rk3399_configure_cpu(khz, c), Passing)
  <1> DEFINE low == At(AtLeast(khz, 300 * MHz), 8) \cup At(IF c = CPU_CLUSTER_LITTLE THEN 0 ELSE 1, 6)
             high == At(AtLeast(khz, 100 * MHz), 8) \cup At(AtLeast(khz, 300 * MHz), 0)
             fit == \A d \in {AtLeast(khz, 300 * MHz), AtLeast(khz, 100 * MHz), AtLeast(khz, 300 * MHz)} :
                      0 <= d /\ d < 31
  <1>1. Kept(rkclk_set_pll(ApllOf(c), apll_cfgs(khz)), Passing)
    BY TablesInRange, set_pll_Passing, configure_cpu_Split
  <1>2. /\ {ConBase(c), ConBase(c) + 1} \subseteq Registers
        /\ Bits(0, 5) \in SUBSET Int /\ low \in SUBSET Int /\ high \in SUBSET Int
    BY Masks DEF ConBase, Registers
  <1>3. fit \in BOOLEAN /\ fit
    BY CpuDividers DEF Fits
  <1> HIDE DEF low, high, fit
  <1>4. ClrSet(ConBase(c), Bits(0, 5), low) \in Passing
    BY <1>2, WritePasses
  <1>5. ClrSet(ConBase(c) + 1, Bits(0, 5), high) \in Passing
    BY <1>2, WritePasses
  <1>6. Assert(fit) \in Passing
    BY <1>3, AssertPasses
  <1>7. Kept(<< Assert(fit), ClrSet(ConBase(c), Bits(0, 5), low),
                ClrSet(ConBase(c) + 1, Bits(0, 5), high) >>, Passing)
    BY <1>4, <1>5, <1>6, ShortKept
  <1>8. Kept(CpuWrites(khz, c), Passing)
    BY <1>7 DEF CpuWrites, low, high, fit
  <1> QED BY <1>1, <1>8, configure_cpu_Split, KeptThenKept

LEMMA BusRegister_Passing ==
  ASSUME NEW reg \in Registers, NEW aclk, NEW hclk, NEW pclk,
         AtLeast(aclk, hclk) <= 3, AtLeast(aclk, pclk) <= 7
  PROVE  Kept(BusRegister(reg, aclk, hclk, pclk), Passing)
  <1> DEFINE aclk_div == AtMost(GPLL_HZ, aclk)
             hclk_div == AtLeast(aclk, hclk)
             pclk_div == AtLeast(aclk, pclk)
             fit == hclk_div <= 3 /\ pclk_div <= 7
             clr == Bits(12, 3) \cup Bits(8, 2) \cup {7} \cup Bits(0, 5)
             set == At(pclk_div, 12) \cup At(hclk_div, 8) \cup {7} \cup At(aclk_div, 0)
  <1>1. clr \in SUBSET Int /\ set \in SUBSET Int
    BY Masks
  <1>2. fit \in BOOLEAN /\ fit
    OBVIOUS
  <1>3. BusRegister(reg, aclk, hclk, pclk) = << Assert(fit), ClrSet(reg, clr, set) >>
    BY DEF BusRegister
  <1> HIDE DEF clr, set, fit
  <1>4. Assert(fit) \in Passing
    BY <1>2, AssertPasses
  <1>5. ClrSet(reg, clr, set) \in Passing
    BY <1>1, WritePasses
  <1> QED BY <1>3, <1>4, <1>5, ShortKept

LEMMA StartPassing == Kept(ArmPlatformInitialize, Passing)
  <1>1. \A p \in Started : Kept(SetStart(p), Passing)
    BY StartedPLL, TablesInRange, set_pll_Passing DEF SetStart
  <1>2. /\ Kept(SetStart("ppll"), Passing) /\ Kept(SetStart("gpll"), Passing)
        /\ Kept(SetStart("npll"), Passing) /\ Kept(SetStart("cpll"), Passing)
    BY <1>1 DEF Started
  <1>3. /\ 816 * MHz \in ApllFrequencies /\ 1300 * MHz \in ApllFrequencies
        /\ 1700 * MHz \in ApllFrequencies
    BY DEF ApllFrequencies
  <1>4. /\ Kept(StartLittle, Passing) /\ Kept(StartBig, Passing)
        /\ Kept(RunLittle, Passing) /\ Kept(RunBig, Passing)
    BY <1>3, configure_cpu_Passing DEF StartLittle, StartBig, RunLittle, RunBig
  <1>5. /\ AtLeast(150 * MHz, 75 * MHz) <= 3 /\ AtLeast(150 * MHz, 37500) <= 7
        /\ AtLeast(300 * MHz, 100 * MHz) <= 3 /\ AtLeast(300 * MHz, 50 * MHz) <= 7
    BY DEF AtLeast, MHz
  <1>6. Kept(PerihpBuses, Passing) /\ Kept(Perilp0Buses, Passing)
    BY <1>5, BusRegister_Passing DEF PerihpBuses, Perilp0Buses, Registers
  <1>7. \A a \in Accesses : a.op = "write" => a \in Passing
    BY DEF Passing
  <1>8. ASSUME NEW a \in Registers, NEW clr \in SUBSET Int, NEW set \in SUBSET Int
        PROVE  ClrSet(a, clr, set) \in Passing
    BY WritePasses
  <1>9. {12, 19, 56, 25, 21, 22, PmuClksel0} \subseteq Registers
    BY DEF Registers
  <1>10. Kept(PmuWrites, Passing)
    <2>1. Bits(0, 5) \in SUBSET Int /\ At(AtLeast(676 * MHz, 48 * MHz), 0) \in SUBSET Int
      BY Masks
    <2>2. ClrSet(PmuClksel0, Bits(0, 5), At(AtLeast(676 * MHz, 48 * MHz), 0)) \in Passing
      BY <1>8, <1>9, <2>1
    <2> QED BY <2>2, ShortKept DEF PmuWrites
  <1>11. Kept(FirstWrites, Passing)
    <2>1. {9, 8} \cup Bits(0, 6) \in SUBSET Int
      BY Masks
    <2>2. ClrSet(12, 0 .. 15, {14, 8, 0}) \in Passing
      BY <1>8, <1>9
    <2>3. ClrSet(19, 0 .. 15, {9, 8} \cup Bits(0, 6)) \in Passing
      BY <1>8, <1>9, <2>1
    <2>4. ClrSet(56, {1, 0}, {1, 0}) \in Passing
      BY <1>8, <1>9
    <2> QED BY <2>2, <2>3, <2>4, ShortKept DEF FirstWrites
  <1>12. Kept(LastWrites, Passing)
    <2>1. /\ Bits(8, 3) \cup {7} \in SUBSET Int /\ {7} \cup Bits(0, 5) \in SUBSET Int
          /\ Bits(0, 6) \in SUBSET Int /\ Bits(0, 3) \in SUBSET Int
          /\ At(AtLeast(100 * MHz, 50 * MHz), 8) \cup {7} \cup At(AtMost(GPLL_HZ, 100 * MHz), 0)
               \in SUBSET Int
      BY Masks
    <2>2. Aclk25 \in Passing
      BY <1>8, <1>9, <2>1 DEF Aclk25
    <2>3. ClrSet(21, {7} \cup Bits(0, 5), {7, 1, 0}) \in Passing
      BY <1>8, <1>9, <2>1
    <2>4. ClrSet(22, Bits(0, 6), Bits(0, 3)) \in Passing
      BY <1>8, <1>9, <2>1
    <2> QED BY <2>2, <2>3, <2>4, ShortKept DEF LastWrites
  <1>13. Kept(rk3399_clock_init, Passing)
    BY <1>2, <1>4, <1>6, <1>11, <1>12, ClockInitKept
  <1> QED BY <1>2, <1>4, <1>10, <1>13, StartGiven

\* A pixel clock whose dividers are in range fails no assertion.
LEMMA vop_set_clk_Passing ==
  ASSUME NEW vop \in {0, 1}, NEW khz \in PixelRates,
         pll_para_config(khz).ret = 0, PllInRange(pll_para_config(khz).div)
  PROVE  Kept(rk3399_vop_set_clk(vop, khz), Passing)
  <1> DEFINE ret == pll_para_config(khz).ret
             div == pll_para_config(khz).div
  <1>1. (ret = 0) \in BOOLEAN /\ ret = 0
    OBVIOUS
  <1>2. Assert(ret = 0) \in Passing
    BY <1>1, AssertPasses
  <1>3. \A a \in Accesses : a.op = "write" /\ a.reg \in 47 .. 52 => a \in Passing
    BY DEF Passing
  <1>4. /\ VopBuses(vop, ret = 0) \in Seq(Accesses) /\ Kept(VopBuses(vop, ret = 0), Passing)
        /\ Kept(VopPixels(vop), Passing)
    BY <1>1, <1>2, <1>3, VopAccesses
  <1>5. /\ div \in Dividers /\ "vpll" \in PLLs
        /\ rkclk_set_pll("vpll", div) \in Seq(Accesses) /\ VopPixels(vop) \in Seq(Accesses)
    BY vop_set_clk_Split
  <1>6. Kept(rkclk_set_pll("vpll", div), Passing)
    BY <1>5, set_pll_Passing
  <1>7. rk3399_vop_set_clk(vop, khz)
          = VopBuses(vop, ret = 0) \o (rkclk_set_pll("vpll", div) \o VopPixels(vop))
    BY vop_set_clk_Split
  <1> HIDE DEF ret, div
  <1>8. Kept(rkclk_set_pll("vpll", div) \o VopPixels(vop), Passing)
    BY <1>4, <1>5, <1>6, KeptThenKept
  <1>9. rkclk_set_pll("vpll", div) \o VopPixels(vop) \in Seq(Accesses)
    BY <1>5, Joined
  <1> QED BY <1>4, <1>7, <1>8, <1>9, KeptThenKept

(***************************************************************************)
(* The search for the dividers of a pixel clock.  Its VCO is compared with *)
(* what a reference divider r and a feedback divider f make of it, f times *)
(* Fref(r), a reference frequency that is rounded down.                    *)
(***************************************************************************)
LEMMA Division ==
  ASSUME NEW a \in Nat, NEW b \in Nat \ {0}
  PROVE  /\ a \div b \in Nat
         /\ b * (a \div b) <= a /\ a < b * (a \div b) + b
  BY SMT

Fref(r) == OSC_HZ \div r

LEMMA Frefs ==
  ASSUME NEW r \in 1 .. 62
  PROVE  /\ Fref(r) \in Nat /\ 387 <= Fref(r) /\ Fref(r) <= 24000
         /\ r * Fref(r) <= 24000 /\ 24000 < r * Fref(r) + r
  <1>1. 24000 \div r \in Nat /\ r * (24000 \div r) <= 24000 /\ 24000 < r * (24000 \div r) + r
    BY Division
  <1>2. OSC_HZ = 24000
    BY DEF OSC_HZ, MHz
  <1>3. Fref(r) >= 387
    BY <1>1, <1>2, SMT DEF Fref
  <1> QED BY <1>1, <1>2, <1>3 DEF Fref

LEMMA Steps ==
  ASSUME NEW r \in 24 .. 62
  PROVE  Fref(r - 1) >= Fref(r) + 6 /\ Fref(r - 1) <= 2 * Fref(r)
  BY SMT DEF Fref, OSC_HZ, MHz

Low(vco, r) == vco \div Fref(r)

Over(vco, r) == vco - Low(vco, r) * Fref(r)

Up(vco, r) == Low(vco, r) + 1 < 3200 /\ Over(vco, r) > Fref(r) \div 2

Diff(vco, r) == IF Up(vco, r) THEN Fref(r) - Over(vco, r) ELSE Over(vco, r)

Fb(vco, r) == Nearer(Low(vco, r), Up(vco, r))

Distance(a, b) == IF a > b THEN a - b ELSE b - a

Usable(n) == n \in FeedbackDividers

LEMMA UsableIs ==
  ASSUME NEW n \in Int
  PROVE  Usable(n) <=> 17 <= n /\ n <= 3199
  BY DEF Usable, FeedbackDividers

LEMMA Remainders ==
  ASSUME NEW vco \in Nat, NEW r \in 1 .. 62
  PROVE  /\ Low(vco, r) \in Nat
         /\ Over(vco, r) \in 0 .. Fref(r) - 1
         /\ vco = Low(vco, r) * Fref(r) + Over(vco, r)
  <1> DEFINE f == Fref(r)
             l == vco \div f
  <1>0. Fref(r) \in Nat /\ 387 <= Fref(r)
    BY Frefs
  <1>1. f \in Nat \ {0}
    BY <1>0
  <1> HIDE DEF f
  <1>2. l \in Nat /\ f * l <= vco /\ vco < f * l + f
    BY <1>1, Division
  <1> HIDE DEF l
  <1>3. l * f = f * l /\ f * l \in Nat
    BY <1>1, <1>2
  <1>4. Low(vco, r) = l /\ Fref(r) = f
    BY DEF l, f, Low
  <1>5. Over(vco, r) = vco - f * l
    BY <1>3, <1>4 DEF Over
  <1> QED BY <1>1, <1>2, <1>3, <1>4, <1>5

LEMMA Nearest ==
  ASSUME NEW vco \in Nat, NEW r \in 1 .. 62, Usable(Low(vco, r))
  PROVE  /\ Usable(Fb(vco, r))
         /\ Diff(vco, r) = Distance(Fb(vco, r) * Fref(r), vco)
         /\ Diff(vco, r) <= Over(vco, r)
         /\ Diff(vco, r) \in Nat
         /\ \A fbdiv \in Nat : Usable(fbdiv) => Diff(vco, r) <= Distance(fbdiv * Fref(r), vco)
  <1> DEFINE f == Fref(r)
             l == Low(vco, r)
             d == Over(vco, r)
  <1>1. /\ f \in Nat /\ 387 <= f /\ f <= 24000
        /\ d \in 0 .. f - 1 /\ vco = l * f + d
        /\ l \in Nat /\ 17 <= l /\ l <= 3199
    <2>1. Fref(r) \in Nat /\ 387 <= Fref(r) /\ Fref(r) <= 24000
      BY Frefs
    <2>2. Over(vco, r) \in 0 .. Fref(r) - 1
      BY Remainders
    <2>3. vco = Low(vco, r) * Fref(r) + Over(vco, r)
      BY Remainders
    <2>4. Low(vco, r) \in Nat
      BY Remainders
    <2>5. 17 <= Low(vco, r) /\ Low(vco, r) <= 3199
      BY <2>4, UsableIs
    <2> QED BY <2>1, <2>2, <2>3, <2>4, <2>5
  <1>2. f \div 2 \in Nat /\ 2 * (f \div 2) <= f /\ f < 2 * (f \div 2) + 2
    <2>1. f \in Nat
      BY <1>1
    <2> HIDE DEF f
    <2> QED BY <2>1, Division
  <1>3. Fb(vco, r) = (IF l + 1 < 3200 /\ d > f \div 2 THEN l + 1 ELSE l)
    BY DEF Fb, Nearer, Up
  <1>4. Diff(vco, r) = (IF l + 1 < 3200 /\ d > f \div 2 THEN f - d ELSE d)
    BY DEF Diff, Up
  <1>5. Fref(r) = f /\ Over(vco, r) = d
    OBVIOUS
  <1> HIDE DEF f, l, d
  <1> DEFINE h == f \div 2
  <1>6. h \in Nat /\ 2 * h <= f /\ f < 2 * h + 2
    BY <1>2
  <1>6a. /\ Fb(vco, r) = (IF l + 1 < 3200 /\ d > h THEN l + 1 ELSE l)
         /\ Diff(vco, r) = (IF l + 1 < 3200 /\ d > h THEN f - d ELSE d)
    BY <1>3, <1>4
  <1> HIDE DEF h
  <1>7. (l + 1) * f = l * f + f /\ l * f \in Nat
    BY <1>1
  <1>8. Diff(vco, r) <= d /\ Diff(vco, r) \in Nat
    BY <1>1, <1>6, <1>6a
  <1>9. ASSUME NEW fbdiv \in Nat, Usable(fbdiv)
        PROVE  Diff(vco, r) <= Distance(fbdiv * f, vco)
    <2>1. CASE fbdiv <= l
      <3>1. fbdiv * f <= l * f /\ fbdiv * f \in Nat
        BY <1>1, <2>1
      <3>2. Distance(fbdiv * f, vco) = vco - fbdiv * f
        BY <1>1, <1>7, <3>1 DEF Distance
      <3>3. vco - fbdiv * f >= d
        BY <1>1, <1>7, <3>1
      <3> QED BY <1>1, <1>8, <3>1, <3>2, <3>3
    <2>2. CASE fbdiv >= l + 1
      <3>1. fbdiv * f >= (l + 1) * f /\ fbdiv * f \in Nat
        BY <1>1, <2>2
      <3>2. fbdiv * f >= l * f + f
        BY <3>1, <1>7
      <3>3. Distance(fbdiv * f, vco) = fbdiv * f - vco
        BY <1>1, <1>7, <3>1, <3>2 DEF Distance
      <3>4. fbdiv * f - vco >= f - d
        BY <1>1, <1>7, <3>1, <3>2
      <3>5. Diff(vco, r) <= f - d
        <4>1. fbdiv <= 3199
          BY <1>9, UsableIs
        <4>2. l + 1 < 3200
          BY <1>1, <2>2, <4>1
        <4>3. Diff(vco, r) = (IF d > h THEN f - d ELSE d)
          BY <1>6a, <4>2
        <4>4. CASE d > h
          BY <1>1, <4>3, <4>4
        <4>5. CASE ~(d > h)
          BY <1>1, <1>6, <4>3, <4>5
        <4> QED BY <4>4, <4>5
      <3> QED BY <1>1, <1>8, <3>1, <3>3, <3>4, <3>5
    <2> QED BY <1>1, <2>1, <2>2
  <1>10. Usable(Fb(vco, r))
    <2>1. Fb(vco, r) \in Int /\ 17 <= Fb(vco, r) /\ Fb(vco, r) <= 3199
      BY <1>1, <1>6a
    <2> QED BY <2>1, UsableIs
  <1>11. Diff(vco, r) = Distance(Fb(vco, r) * f, vco)
    <2>1. CASE l + 1 < 3200 /\ d > h
      BY <2>1, <1>1, <1>6a, <1>7 DEF Distance
    <2>2. CASE ~(l + 1 < 3200 /\ d > h)
      BY <2>2, <1>1, <1>6a, <1>7 DEF Distance
    <2> QED BY <2>1, <2>2
  <1> QED BY <1>5, <1>8, <1>9, <1>10, <1>11

LEMMA Least ==
  ASSUME NEW T \in SUBSET Nat, T # {}
  PROVE  \E x \in T : \A y \in T : x <= y
  <1>1. PICK x \in T : \A y \in T : ~(<<y, x>> \in OpToRel(<, Nat))
    BY NatLessThanWellFounded, WFMin
  <1>2. \A y \in T : ~(y < x)
    BY <1>1 DEF OpToRel
  <1> QED BY <1>2

LEMMA UpTo ==
  ASSUME NEW T, NEW n \in Nat, 0 \in T, \A k \in 0 .. n - 1 : k \in T => k + 1 \in T
  PROVE  \A k \in 0 .. n : k \in T
  <1> SUFFICES ASSUME NEW j \in 0 .. n, j \notin T
               PROVE  FALSE
    OBVIOUS
  <1> DEFINE W == {k \in 0 .. n : k \notin T}
  <1>1. W \in SUBSET Nat /\ W # {}
    OBVIOUS
  <1> HIDE DEF W
  <1>2. PICK x \in W : \A y \in W : x <= y
    BY <1>1, Least
  <1>3. x \in 0 .. n /\ x \notin T
    BY DEF W
  <1>4. x # 0
    BY <1>3
  <1>5. x - 1 \in 0 .. n - 1
    BY <1>3, <1>4
  <1>6. x - 1 \in T
    <2>1. SUFFICES ASSUME x - 1 \notin T PROVE FALSE
      OBVIOUS
    <2>2. x - 1 \in W
      BY <2>1, <1>5 DEF W
    <2> QED BY <1>2, <1>3, <2>2
  <1>7. (x - 1) + 1 \in T
    BY <1>5, <1>6
  <1> QED BY <1>3, <1>7

NoPair(vco) == [refdiv |-> 0, fbdiv |-> 0, diff |-> vco]

Searched(vco, g, r) == IF r = 0 THEN NoPair(vco) ELSE NextPair(vco, r, g[r - 1])

BestPairs(vco) == CHOOSE g : g = [r \in 0 .. 62 |-> Searched(vco, g, r)]

LEMMA BestPairIs ==
  ASSUME NEW vco
  PROVE  BestPair(vco) = BestPairs(vco)[62]
  BY DEF BestPair, BestPairs, Searched, NoPair

LEMMA PairsExist ==
  ASSUME NEW vco
  PROVE  \E g : g = [r \in 0 .. 62 |-> Searched(vco, g, r)]
  <1> DEFINE Found(k) == \E g : g = [r \in 0 .. k |-> Searched(vco, g, r)]
             T == {k \in 0 .. 62 : Found(k)}
  <1>1. 0 \in T
    <2> DEFINE g == [r \in 0 .. 0 |-> NoPair(vco)]
    <2>1. \A r \in 0 .. 0 : Searched(vco, g, r) = NoPair(vco)
      BY DEF Searched
    <2>2. g = [r \in 0 .. 0 |-> Searched(vco, g, r)]
      BY <2>1
    <2> QED BY <2>2
  <1>2. ASSUME NEW k \in 0 .. 61, k \in T
        PROVE  k + 1 \in T
    <2>1. PICK g : g = [r \in 0 .. k |-> Searched(vco, g, r)]
      BY <1>2
    <2> DEFINE h == [r \in 0 .. k + 1 |-> IF r = k + 1 THEN NextPair(vco, r, g[k]) ELSE g[r]]
    <2>2. \A r \in 0 .. k + 1 : h[r] = Searched(vco, h, r)
      <3> SUFFICES ASSUME NEW r \in 0 .. k + 1
                   PROVE  h[r] = Searched(vco, h, r)
        OBVIOUS
      <3>1. CASE r = k + 1
        <4>1. r # 0 /\ r - 1 = k /\ k \in 0 .. k + 1 /\ k # k + 1
          BY <3>1
        <4>2. h[k] = g[k] /\ h[r] = NextPair(vco, r, g[k])
          BY <3>1, <4>1
        <4> HIDE DEF h
        <4> QED BY <4>1, <4>2 DEF Searched
      <3>2. CASE r \in 0 .. k
        <4>1. h[r] = g[r]
          BY <3>2
        <4>2. g[r] = Searched(vco, g, r)
          BY <2>1, <3>2
        <4>3. CASE r = 0
          <5> HIDE DEF h
          <5> QED BY <4>1, <4>2, <4>3 DEF Searched
        <4>4. CASE r # 0
          <5>1. r - 1 \in 0 .. k + 1 /\ r - 1 # k + 1
            BY <4>4, <3>2
          <5>2. h[r - 1] = g[r - 1]
            BY <5>1
          <5> HIDE DEF h
          <5> QED BY <4>1, <4>2, <4>4, <5>2 DEF Searched
        <4> QED BY <4>3, <4>4
      <3> QED BY <3>1, <3>2
    <2>3. h = [r \in 0 .. k + 1 |-> Searched(vco, h, r)]
      BY <2>2
    <2> HIDE DEF h
    <2>4. Found(k + 1)
      BY <2>3
    <2> QED BY <2>4
  <1> HIDE DEF T
  <1>3. \A k \in 0 .. 62 - 1 : k \in T => k + 1 \in T
    BY <1>2
  <1>4. 62 \in T
    BY <1>1, <1>3, UpTo
  <1> QED BY <1>4 DEF T

LEMMA BestPairsStep ==
  ASSUME NEW vco, NEW r \in 0 .. 62
  PROVE  BestPairs(vco)[r] = Searched(vco, BestPairs(vco), r)
  <1>1. BestPairs(vco) = [q \in 0 .. 62 |-> Searched(vco, BestPairs(vco), q)]
    BY PairsExist DEF BestPairs
  <1> QED BY <1>1

LEMMA NextPairIs ==
  ASSUME NEW vco, NEW r, NEW b
  PROVE  NextPair(vco, r, b)
           = IF b.diff # 0 /\ Usable(Low(vco, r)) /\ Diff(vco, r) < b.diff
             THEN [refdiv |-> r, fbdiv |-> Fb(vco, r), diff |-> Diff(vco, r)]
             ELSE b
  BY Zenon DEF NextPair, Usable, Low, Diff, Over, Up, Fb, Fref, Closer

\* b is what is best among the reference dividers up to k.
BestUpTo(vco, k, b) ==
  /\ \/ b = NoPair(vco)
     \/ /\ b.refdiv \in 1 .. k /\ Usable(Low(vco, b.refdiv))
        /\ b.fbdiv = Fb(vco, b.refdiv) /\ b.diff = Diff(vco, b.refdiv)
  /\ b.diff \in Nat
  /\ \A q \in 1 .. k : Usable(Low(vco, q)) => b.diff <= Diff(vco, q)

LEMMA BestUpToNext ==
  ASSUME NEW vco \in Nat, NEW k \in 0 .. 61, NEW b, BestUpTo(vco, k, b)
  PROVE  BestUpTo(vco, k + 1, NextPair(vco, k + 1, b))
  <1> DEFINE r == k + 1
             n == NextPair(vco, r, b)
  <1>1. r \in 1 .. 62
    OBVIOUS
  <1>2. Usable(Low(vco, r)) => Diff(vco, r) \in Nat
    BY <1>1, Nearest
  <1>3. \A q \in 1 .. r : q \in 1 .. k \/ q = r
    OBVIOUS
  <1>4. CASE b.diff # 0 /\ Usable(Low(vco, r)) /\ Diff(vco, r) < b.diff
    <2>1. n = [refdiv |-> r, fbdiv |-> Fb(vco, r), diff |-> Diff(vco, r)]
      BY <1>4, NextPairIs
    <2>2. r \in 1 .. k + 1
      BY <1>1
    <2>3. n.refdiv = r /\ n.fbdiv = Fb(vco, r) /\ n.diff = Diff(vco, r)
      BY <2>1
    <2> HIDE DEF n, r
    <2>4. \A q \in 1 .. k : Usable(Low(vco, q)) => n.diff <= Diff(vco, q)
      <3> SUFFICES ASSUME NEW q \in 1 .. k, Usable(Low(vco, q))
                   PROVE  n.diff <= Diff(vco, q)
        OBVIOUS
      <3>1. b.diff <= Diff(vco, q) /\ b.diff \in Nat
        BY DEF BestUpTo
      <3>2. q \in 1 .. 62
        OBVIOUS
      <3>3. Diff(vco, q) \in Nat
        BY <3>2, Nearest
      <3> QED BY <1>2, <1>4, <2>3, <3>1, <3>3
    <2>5. n.diff \in Nat
      BY <1>2, <1>4, <2>3
    <2>6. \A q \in 1 .. r : Usable(Low(vco, q)) => n.diff <= Diff(vco, q)
      <3> SUFFICES ASSUME NEW q \in 1 .. r, Usable(Low(vco, q))
                   PROVE  n.diff <= Diff(vco, q)
        OBVIOUS
      <3>1. CASE q \in 1 .. k
        BY <2>4, <3>1
      <3>2. CASE q = r
        <4>1. n.diff = Diff(vco, q)
          BY <2>3, <3>2
        <4> QED BY <2>5, <4>1
      <3> QED BY <1>3, <3>1, <3>2
    <2>7. BestUpTo(vco, r, n)
      BY <1>4, <2>2, <2>3, <2>5, <2>6 DEF BestUpTo, r
    <2> QED BY <2>7 DEF n, r
  <1>5. CASE ~(b.diff # 0 /\ Usable(Low(vco, r)) /\ Diff(vco, r) < b.diff)
    <2>1. n = b
      BY <1>5, NextPairIs
    <2> HIDE DEF n
    <2>2. b.diff \in Nat
      BY DEF BestUpTo
    <2>3. Usable(Low(vco, r)) => b.diff <= Diff(vco, r)
      <3> SUFFICES ASSUME Usable(Low(vco, r))
                   PROVE  b.diff <= Diff(vco, r)
        OBVIOUS
      <3>1. Diff(vco, r) \in Nat
        BY <1>2
      <3>2. b.diff = 0 \/ ~(Diff(vco, r) < b.diff)
        BY <1>5
      <3> HIDE DEF r
      <3> QED BY <2>2, <3>1, <3>2
    <2>4. \A q \in 1 .. r : Usable(Low(vco, q)) => b.diff <= Diff(vco, q)
      <3> SUFFICES ASSUME NEW q \in 1 .. r, Usable(Low(vco, q))
                   PROVE  b.diff <= Diff(vco, q)
        OBVIOUS
      <3>1. CASE q \in 1 .. k
        BY <3>1 DEF BestUpTo
      <3>2. CASE q = r
        BY <3>2, <2>3
      <3> QED BY <1>3, <3>1, <3>2
    <2>5. \/ b = NoPair(vco)
          \/ /\ b.refdiv \in 1 .. r /\ Usable(Low(vco, b.refdiv))
             /\ b.fbdiv = Fb(vco, b.refdiv) /\ b.diff = Diff(vco, b.refdiv)
      <3>1. \A i \in 1 .. k : i \in 1 .. r
        OBVIOUS
      <3> HIDE DEF r
      <3> QED BY <3>1 DEF BestUpTo
    <2> HIDE DEF r
    <2>6. BestUpTo(vco, r, b)
      BY <2>2, <2>4, <2>5 DEF BestUpTo
    <2> QED BY <2>1, <2>6 DEF n, r
  <1> QED BY <1>4, <1>5

LEMMA BestPairBest ==
  ASSUME NEW vco \in Nat
  PROVE  BestUpTo(vco, 62, BestPair(vco))
  <1> DEFINE T == {k \in 0 .. 62 : BestUpTo(vco, k, BestPairs(vco)[k])}
  <1>1. 0 \in T
    <2>1. BestPairs(vco)[0] = NoPair(vco)
      BY BestPairsStep DEF Searched
    <2>2. NoPair(vco).diff = vco
      BY DEF NoPair
    <2>3. BestUpTo(vco, 0, NoPair(vco))
      BY <2>2 DEF BestUpTo
    <2> QED BY <2>1, <2>3
  <1>2. ASSUME NEW k \in 0 .. 62 - 1, k \in T
        PROVE  k + 1 \in T
    <2>1. BestPairs(vco)[k + 1] = Searched(vco, BestPairs(vco), k + 1)
      BY BestPairsStep
    <2>2. Searched(vco, BestPairs(vco), k + 1) = NextPair(vco, k + 1, BestPairs(vco)[k])
      <3>1. k + 1 # 0 /\ (k + 1) - 1 = k
        OBVIOUS
      <3> QED BY <3>1 DEF Searched
    <2>3. k \in 0 .. 61
      OBVIOUS
    <2>4. BestUpTo(vco, k + 1, BestPairs(vco)[k + 1])
      BY <1>2, <2>1, <2>2, <2>3, BestUpToNext
    <2> QED BY <2>4
  <1> HIDE DEF T
  <1>3. \A k \in 0 .. 62 - 1 : k \in T => k + 1 \in T
    BY <1>2
  <1>4. 62 \in T
    BY <1>1, <1>3, UpTo
  <1> QED BY <1>4, BestPairIs DEF T

LEMMA QuotientAtLeast ==
  ASSUME NEW a \in Nat, NEW b \in Nat \ {0}, NEW c \in Nat, b * c <= a
  PROVE  c <= a \div b
  <1> DEFINE q == a \div b
  <1>1. q \in Nat /\ a < b * q + b
    BY Division
  <1> HIDE DEF q
  <1>2. SUFFICES ASSUME q + 1 <= c
                 PROVE  FALSE
    BY <1>1 DEF q
  <1>3. b * (q + 1) <= b * c
    BY <1>1, <1>2
  <1>4. b * (q + 1) = b * q + b /\ b * q \in Nat /\ b * c \in Nat
    BY <1>1
  <1> QED BY <1>1, <1>3, <1>4

LEMMA QuotientAtMost ==
  ASSUME NEW a \in Nat, NEW b \in Nat \ {0}, NEW c \in Nat, a <= b * c
  PROVE  a \div b <= c
  <1> DEFINE q == a \div b
  <1>1. q \in Nat /\ b * q <= a
    BY Division
  <1> HIDE DEF q
  <1>2. SUFFICES ASSUME c + 1 <= q
                 PROVE  FALSE
    BY <1>1 DEF q
  <1>3. b * (c + 1) <= b * q
    BY <1>1, <1>2
  <1>4. b * (c + 1) = b * c + b /\ b * q \in Nat /\ b * c \in Nat
    BY <1>1
  <1> QED BY <1>1, <1>3, <1>4

LEMMA DiffHalf ==
  ASSUME NEW vco \in Nat, NEW r \in 1 .. 62, Usable(Low(vco, r) + 1)
  PROVE  Diff(vco, r) <= Fref(r) \div 2
  <1> DEFINE f == Fref(r)
             d == Over(vco, r)
             h == f \div 2
  <1>1. Fref(r) \in Nat
    BY Frefs
  <1>2. Over(vco, r) \in 0 .. Fref(r) - 1
    BY Remainders
  <1>3. f \in Nat /\ d \in 0 .. f - 1
    BY <1>1, <1>2
  <1> HIDE DEF f, d
  <1>4. h \in Nat /\ f < 2 * h + 2
    BY <1>3, Division
  <1> HIDE DEF h
  <1>5. Low(vco, r) + 1 < 3200
    <2>1. Low(vco, r) \in Nat
      BY Remainders
    <2>2. Low(vco, r) + 1 \in Int
      BY <2>1
    <2>3. Low(vco, r) + 1 <= 3199
      BY <2>2, UsableIs
    <2> QED BY <2>1, <2>3
  <1>6. Diff(vco, r) = IF d > h THEN f - d ELSE d
    BY <1>5 DEF Diff, Up, d, f, h
  <1>7. Diff(vco, r) <= h
    BY <1>3, <1>4, <1>6
  <1> QED BY <1>7 DEF h, f

LEMMA References == Fref(3) = 8000 /\ Fref(20) = 1200 /\ 8000 \div 2 = 4000 /\ 1200 \div 2 = 600
  BY DEF Fref, OSC_HZ, MHz

LEMMA Coarse ==
  ASSUME NEW vco \in Nat, 800000 <= vco, vco <= 3200000
  PROVE  /\ Usable(Low(vco, 3)) /\ Diff(vco, 3) \in Nat
         /\ Diff(vco, 3) <= 4000 /\ Diff(vco, 3) <= vco - 800000
  <1> DEFINE l == Low(vco, 3)
  <1>1. l \in Nat /\ 17 <= l /\ l <= 400
    <2>1. l = vco \div 8000
      BY References DEF Low
    <2>2. 17 <= vco \div 8000
      BY QuotientAtLeast
    <2>3. vco \div 8000 <= 400
      BY QuotientAtMost
    <2>4. l \in Nat
      BY Remainders
    <2> QED BY <2>1, <2>2, <2>3, <2>4
  <1>2. Usable(l)
    <2> HIDE DEF l
    <2> QED BY <1>1, UsableIs
  <1>3. Diff(vco, 3) <= Fref(3) \div 2
    <2> HIDE DEF l
    <2>1. l + 1 \in Int /\ 17 <= l + 1 /\ l + 1 <= 3199
      BY <1>1
    <2>2. Usable(l + 1)
      BY <2>1, UsableIs
    <2> QED BY <2>2, DiffHalf DEF l
  <1>4. Diff(vco, 3) <= 4000
    BY <1>3, References
  <1>5. Usable(100)
    BY UsableIs
  <1>6. Diff(vco, 3) <= Distance(100 * Fref(3), vco)
    BY <1>2, <1>5, Nearest
  <1>7. Distance(100 * Fref(3), vco) = vco - 800000
    BY References DEF Distance
  <1>8. Diff(vco, 3) \in Nat
    BY <1>2, Nearest
  <1> QED BY <1>2, <1>4, <1>6, <1>7, <1>8

LEMMA Fine ==
  ASSUME NEW vco \in Nat, 800000 <= vco, vco <= 3200000
  PROVE  /\ Usable(Low(vco, 20)) /\ Diff(vco, 20) \in Nat
         /\ Diff(vco, 20) <= 600
         /\ vco <= 3198000 => Diff(vco, 20) <= 3198000 - vco
  <1> DEFINE l == Low(vco, 20)
  <1>1. l \in Nat /\ 17 <= l /\ l <= 2700
    <2>1. l = vco \div 1200
      BY References DEF Low
    <2>2. 17 <= vco \div 1200
      BY QuotientAtLeast
    <2>3. vco \div 1200 <= 2700
      BY QuotientAtMost
    <2>4. l \in Nat
      BY Remainders
    <2> QED BY <2>1, <2>2, <2>3, <2>4
  <1>2. Usable(l)
    <2> HIDE DEF l
    <2> QED BY <1>1, UsableIs
  <1>3. Diff(vco, 20) <= Fref(20) \div 2
    <2> HIDE DEF l
    <2>1. l + 1 \in Int /\ 17 <= l + 1 /\ l + 1 <= 3199
      BY <1>1
    <2>2. Usable(l + 1)
      BY <2>1, UsableIs
    <2> QED BY <2>2, DiffHalf DEF l
  <1>4. Diff(vco, 20) <= 600
    BY <1>3, References
  <1>5. Usable(2665)
    BY UsableIs
  <1>6. Diff(vco, 20) <= Distance(2665 * Fref(20), vco)
    BY <1>2, <1>5, Nearest
  <1>7. vco <= 3198000 => Distance(2665 * Fref(20), vco) = 3198000 - vco
    BY References DEF Distance
  <1>8. Diff(vco, 20) \in Nat
    BY <1>2, Nearest
  <1> QED BY <1>2, <1>4, <1>6, <1>7, <1>8

\* How far a pair is from the VCO it is for.
Off(vco, r, f) == Distance(f * Fref(r), vco)

LEMMA UsableReference ==
  ASSUME NEW vco \in Nat, NEW r \in 1 .. 62, Usable(Low(vco, r))
  PROVE  /\ Usable(Fb(vco, r)) /\ Fb(vco, r) \in Nat
         /\ Diff(vco, r) = Off(vco, r, Fb(vco, r))
  <1>1. /\ Usable(Fb(vco, r))
        /\ Diff(vco, r) = Distance(Fb(vco, r) * Fref(r), vco)
    BY Nearest
  <1>2. Low(vco, r) \in Nat
    BY Remainders
  <1> QED BY <1>1, <1>2 DEF Fb, Nearer, Off

LEMMA PairIsNearest ==
  ASSUME NEW vco \in Nat, NEW b, b = BestPair(vco), b # NoPair(vco)
  PROVE  /\ b.refdiv \in 1 .. 62
         /\ b.fbdiv \in Nat /\ Usable(b.fbdiv)
         /\ b.diff = Off(vco, b.refdiv, b.fbdiv)
  <1>1. /\ b.refdiv \in 1 .. 62 /\ Usable(Low(vco, b.refdiv))
        /\ b.fbdiv = Fb(vco, b.refdiv) /\ b.diff = Diff(vco, b.refdiv)
    BY BestPairBest DEF BestUpTo
  <1>2. PICK r \in 1 .. 62 : /\ r = b.refdiv /\ Usable(Low(vco, r))
                            /\ b.fbdiv = Fb(vco, r) /\ b.diff = Diff(vco, r)
    BY <1>1
  <1>3. /\ Usable(Fb(vco, r)) /\ Fb(vco, r) \in Nat
         /\ Diff(vco, r) = Off(vco, r, Fb(vco, r))
    BY <1>2, UsableReference
  <1> QED BY <1>2, <1>3

LEMMA Chosen ==
  ASSUME NEW vco \in Nat, 800000 <= vco, vco <= 3200000,
         NEW b, b = BestPair(vco)
  PROVE  /\ b.refdiv \in 1 .. 62
         /\ b.fbdiv \in Nat /\ Usable(b.fbdiv)
         /\ b.diff \in Nat /\ b.diff = Off(vco, b.refdiv, b.fbdiv)
         /\ b.diff <= 600 /\ b.diff <= vco - 800000
         /\ vco <= 3198000 => b.diff <= 3198000 - vco
  <1>1. BestUpTo(vco, 62, b)
    BY BestPairBest
  <1>2. b.diff \in Nat
    BY <1>1 DEF BestUpTo
  <1>3. b.diff <= Diff(vco, 3)
    <2>1. 3 \in 1 .. 62
      OBVIOUS
    <2>2. Usable(Low(vco, 3))
      BY Coarse
    <2> QED BY <1>1, <2>1, <2>2 DEF BestUpTo
  <1>4. b.diff <= Diff(vco, 20)
    <2>1. 20 \in 1 .. 62
      OBVIOUS
    <2>2. Usable(Low(vco, 20))
      BY Fine
    <2> QED BY <1>1, <2>1, <2>2 DEF BestUpTo
  <1>5. b.diff <= 600
    <2>1. Diff(vco, 20) \in Nat /\ Diff(vco, 20) <= 600
      BY Fine
    <2> QED BY <1>2, <1>4, <2>1
  <1>6. vco <= 3198000 => b.diff <= 3198000 - vco
    <2>1. Diff(vco, 20) \in Nat /\ (vco <= 3198000 => Diff(vco, 20) <= 3198000 - vco)
      BY Fine
    <2> QED BY <1>2, <1>4, <2>1
  <1>7. b.diff <= vco - 800000
    <2>1. Diff(vco, 3) \in Nat /\ Diff(vco, 3) <= vco - 800000
      BY Coarse
    <2> QED BY <1>2, <1>3, <2>1
  <1>8. b # NoPair(vco)
    <2>1. NoPair(vco).diff = vco
      BY DEF NoPair
    <2>2. b.diff # vco
      BY <1>2, <1>5
    <2> QED BY <2>1, <2>2
  <1> QED BY <1>2, <1>5, <1>6, <1>7, <1>8, PairIsNearest

\* A feedback divider f of a reference divider r, whose product is between.
LEMMA TopVco ==
  ASSUME NEW r \in 1 .. 62, NEW f \in Nat, f <= 3199, f * Fref(r) <= 3198000
  PROVE  24000 * f <= r * 3200000
  <1>1. CASE r >= 24
    BY <1>1
  <1>2. CASE r <= 23
    <2>0. Fref(r) = 24000 \div r
      BY DEF Fref, OSC_HZ, MHz
    <2>1. /\ 24000 \div 1 = 24000 /\ 24000 \div 2 = 12000 /\ 24000 \div 3 = 8000
          /\ 24000 \div 4 = 6000 /\ 24000 \div 5 = 4800 /\ 24000 \div 6 = 4000
          /\ 24000 \div 7 = 3428 /\ 24000 \div 8 = 3000 /\ 24000 \div 9 = 2666
          /\ 24000 \div 10 = 2400 /\ 24000 \div 11 = 2181 /\ 24000 \div 12 = 2000
          /\ 24000 \div 13 = 1846 /\ 24000 \div 14 = 1714 /\ 24000 \div 15 = 1600
          /\ 24000 \div 16 = 1500 /\ 24000 \div 17 = 1411 /\ 24000 \div 18 = 1333
          /\ 24000 \div 19 = 1263 /\ 24000 \div 20 = 1200 /\ 24000 \div 21 = 1142
          /\ 24000 \div 22 = 1090 /\ 24000 \div 23 = 1043
      OBVIOUS
    <2>2. CASE r \in 1 .. 6
      <3>1. r = 1 \/ r = 2 \/ r = 3 \/ r = 4 \/ r = 5 \/ r = 6
        BY <2>2
      <3> QED BY <2>0, <2>1, <3>1
    <2>3. CASE r \in 7 .. 12
      <3>1. r = 7 \/ r = 8 \/ r = 9 \/ r = 10 \/ r = 11 \/ r = 12
        BY <2>3
      <3> QED BY <2>0, <2>1, <3>1
    <2>4. CASE r \in 13 .. 18
      <3>1. r = 13 \/ r = 14 \/ r = 15 \/ r = 16 \/ r = 17 \/ r = 18
        BY <2>4
      <3> QED BY <2>0, <2>1, <3>1
    <2>5. CASE r \in 19 .. 23
      <3>1. r = 19 \/ r = 20 \/ r = 21 \/ r = 22 \/ r = 23
        BY <2>5
      <3> QED BY <2>0, <2>1, <3>1
    <2>6. r \in 1 .. 6 \/ r \in 7 .. 12 \/ r \in 13 .. 18 \/ r \in 19 .. 23
      BY <1>2
    <2> QED BY <2>2, <2>3, <2>4, <2>5, <2>6
  <1> QED BY <1>1, <1>2

\* The VCO that a pair of dividers makes.
SetVco(f, r) == (24000 * f) \div r

\* A pair of dividers makes a VCO within 4 MHz of vco.
Accurate(f, r, vco) == Distance(24000 * f, vco * r) <= 4000 * r

\* A rate, or a VCO, that the search does not bring above the range.
Within3198(khz) == khz <= 3198000

\* What the search for a VCO comes up with.
Close(vco, r, f) ==
  /\ 800000 <= vco /\ vco <= 3200000
  /\ f <= 3199
  /\ Off(vco, r, f) \in Nat /\ Off(vco, r, f) <= 600
  /\ Off(vco, r, f) <= vco - 800000
  /\ vco <= 3198000 => Off(vco, r, f) <= 3198000 - vco

SetInRange(f, r) ==
  SetVco(f, r) \in Nat /\ 800000 <= SetVco(f, r) /\ SetVco(f, r) <= 3200000

LEMMA ChosenVco ==
  ASSUME NEW vco \in Nat, NEW r \in 1 .. 62, NEW f \in Nat, Close(vco, r, f), Within3198(vco)
  PROVE  SetInRange(f, r)
  <1> DEFINE p == f * Fref(r)
             d == Off(vco, r, f)
  <1>1. Fref(r) \in Nat /\ r * Fref(r) <= 24000
    BY Frefs
  <1>2. p \in Nat
    BY <1>1
  <1>3. d = Distance(p, vco)
    BY DEF Off
  <1>3a. /\ d \in Nat /\ d <= vco - 800000 /\ d <= 3198000 - vco
         /\ f <= 3199 /\ 800000 <= vco /\ vco <= 3198000
    BY SMT DEF Close, Within3198
  <1> HIDE DEF p, d
  <1>4. 800000 <= p /\ p <= 3198000
    BY <1>2, <1>3, <1>3a, SMT DEF Distance
  <1>5. r * 800000 <= 24000 * f
    <2> DEFINE c == Fref(r)
               g == r * c
    <2>1. c \in Nat /\ g \in Nat /\ g <= 24000 /\ p = f * c
      BY <1>1 DEF p
    <2> HIDE DEF c
    <2>2. f * g = r * p
      <3>1. f * (r * c) = r * (f * c)
        BY <2>1
      <3> QED BY <2>1, <3>1
    <2> HIDE DEF g
    <2>3. f * g <= 24000 * f /\ f * g \in Nat
      BY <2>1
    <2>4. r * 800000 <= r * p
      BY <1>2, <1>4
    <2> QED BY <1>2, <2>2, <2>3, <2>4
  <1>6. 24000 * f <= r * 3200000
    BY <1>3a, <1>4, TopVco, SMT DEF p
  <1>7. 24000 * f \in Nat /\ r \in Nat \ {0}
    OBVIOUS
  <1>8. 800000 <= SetVco(f, r) /\ SetVco(f, r) <= 3200000
    BY <1>5, <1>6, <1>7, QuotientAtLeast, QuotientAtMost DEF SetVco
  <1>9. SetVco(f, r) \in Nat
    BY <1>7, Division, SMT DEF SetVco
  <1> QED BY <1>8, <1>9, SMT DEF SetInRange

LEMMA ChosenAccuracy ==
  ASSUME NEW vco \in Nat, NEW r \in 1 .. 62, NEW f \in Nat, Close(vco, r, f)
  PROVE  Accurate(f, r, vco)
  <1> DEFINE c == Fref(r)
             p == f * c
             g == r * c
             d == Off(vco, r, f)
  <1>1. Fref(r) \in Nat /\ r * Fref(r) <= 24000 /\ 24000 < r * Fref(r) + r
    BY Frefs
  <1>2. c \in Nat /\ p \in Nat /\ g \in Nat /\ g <= 24000 /\ 24000 <= g + (r - 1)
    BY <1>1
  <1>3. d = Distance(p, vco)
    BY DEF Off
  <1>4. f * g = r * p
    <2> HIDE DEF c
    <2>1. f * (r * c) = r * (f * c)
      BY <1>2
    <2> QED BY <2>1
  <1>4a. d \in Nat /\ d <= 600 /\ f <= 3199
    BY SMT DEF Close
  <1> HIDE DEF c, p, g, d
  <1>5. p - vco <= 600 /\ vco - p <= 600
    BY <1>2, <1>3, <1>4a DEF Distance
  <1>6. r * (p - vco) <= r * 600 /\ r * (vco - p) <= r * 600
    BY <1>2, <1>5
  <1>7. r * (p - vco) = r * p - r * vco /\ r * (vco - p) = r * vco - r * p
    BY <1>2
  <1>8. f * g <= 24000 * f
    BY <1>2
  <1>9. 24000 * f <= f * g + 3199 * (r - 1)
    <2>1. 24000 * f <= (g + (r - 1)) * f
      BY <1>2
    <2>2. (g + (r - 1)) * f = f * g + f * (r - 1)
      BY <1>2
    <2>3. f * (r - 1) <= 3199 * (r - 1)
      BY <1>4a
    <2>4. f * g \in Nat /\ f * (r - 1) \in Nat
      BY <1>2
    <2> QED BY <2>1, <2>2, <2>3, <2>4
  <1> DEFINE x == r * p
             y == r * vco
  <1>10. /\ x \in Nat /\ y \in Nat /\ x - y <= r * 600 /\ y - x <= r * 600
         /\ x <= 24000 * f /\ 24000 * f <= x + 3199 * (r - 1)
    BY <1>2, <1>4, <1>6, <1>7, <1>8, <1>9
  <1>11. vco * r = y
    OBVIOUS
  <1> HIDE DEF x, y
  <1> QED BY <1>10, <1>11, SMT DEF Distance, Accurate

LEMMA CloserBelow ==
  ASSUME NEW vco \in Nat, NEW q \in 1 .. 62, Usable(Low(vco, q)),
         NEW f \in Nat, Usable(f),
         NEW b, b = BestPair(vco)
  PROVE  b.diff <= Off(vco, q, f)
  <1>1. b.diff \in Nat /\ b.diff <= Diff(vco, q)
    BY BestPairBest DEF BestUpTo
  <1>2. Diff(vco, q) \in Nat
    BY Nearest
  <1>3. Diff(vco, q) <= Distance(f * Fref(q), vco)
    BY Nearest
  <1>4. Distance(f * Fref(q), vco) \in Int
    <2>1. Fref(q) \in Nat
      BY Frefs
    <2>2. f * Fref(q) \in Nat
      BY <2>1
    <2> QED BY <2>2 DEF Distance
  <1> QED BY <1>1, <1>2, <1>3, <1>4 DEF Off

LowVco(vco, q) == Low(vco, q) * Fref(q)

LEMMA LowBelow ==
  ASSUME NEW vco \in Nat, NEW q \in 1 .. 62
  PROVE  LowVco(vco, q) <= vco
  <1> DEFINE c == Fref(q)
             l == Low(vco, q)
             d == Over(vco, q)
  <1>1. c \in Nat
    BY Frefs
  <1>2. l \in Nat
    BY Remainders
  <1>3. d \in 0 .. c - 1
    BY Remainders
  <1>4. vco = l * c + d
    BY Remainders
  <1> HIDE DEF c, l, d
  <1>5. l * c \in Nat
    BY <1>1, <1>2
  <1> QED BY <1>1, <1>2, <1>3, <1>4, <1>5 DEF LowVco, c, l, d

LEMMA NotTooLow ==
  ASSUME NEW vco \in Nat, NEW q \in 1 .. 62, 800000 <= vco
  PROVE  Low(vco, q) \in Nat /\ 17 <= Low(vco, q)
  <1> DEFINE c == Fref(q)
             p == c * 17
  <1>1. Fref(q) \in Nat /\ 387 <= Fref(q) /\ Fref(q) <= 24000
    BY Frefs, SMT
  <1>2. c \in Nat \ {0} /\ c * 17 <= vco
    BY <1>1, SMT
  <1> HIDE DEF c
  <1>3. 17 <= vco \div c
    BY <1>2, QuotientAtLeast, SMT
  <1>4. vco \div c \in Nat
    BY <1>2, Division, SMT
  <1> QED BY <1>3, <1>4, SMT DEF Low, c

\* Where the best feedback divider is out of reach, the reference divider before
\* or a much finer one does at least as well.
LEMMA CloserAbove ==
  ASSUME NEW vco \in Nat, NEW q \in 1 .. 62, 800000 <= vco, vco <= 3200000,
         Low(vco, q) >= 3200,
         NEW f \in Nat, Usable(f),
         NEW b, b = BestPair(vco)
  PROVE  b.diff <= Off(vco, q, f)
  <1> DEFINE c == Fref(q)
             l == Low(vco, q)
             g == Fref(q - 1)
  <1>1. f <= 3199
    BY UsableIs, SMT
  <1>2. /\ c \in Nat /\ 387 <= c /\ c <= 24000
        /\ q * c <= 24000 /\ 24000 < q * c + q
    BY Frefs, SMT
  <1>3. l \in Nat /\ l * c <= vco
    <2>1. l \in Nat
      BY NotTooLow, SMT
    <2>2. LowVco(vco, q) <= vco
      BY LowBelow, SMT
    <2>3. LowVco(vco, q) = l * c
      BY SMT DEF LowVco
    <2> HIDE DEF c
    <2> QED BY <1>2, <2>1, <2>2, <2>3, SMT
  <1>4. l >= 3200
    OBVIOUS
  <1> HIDE DEF c, l
  <1>5. 3200 * c <= vco
    BY <1>2, <1>3, <1>4, SMT
  <1>6. c <= 1000
    BY <1>2, <1>5, SMT
  <1>7. q >= 24
    <2>1. SUFFICES ASSUME q <= 23
                   PROVE  FALSE
      BY SMT
    <2>2. q * c <= 23 * 1000
      <3>1. q * c <= 23 * c
        BY <1>2, <2>1, SMT
      <3> QED BY <1>2, <1>6, <3>1, SMT
    <2> QED BY <1>2, <2>1, <2>2, SMT
  <1>8. f * c \in Nat /\ f * c <= 3199 * c
    BY <1>1, <1>2, SMT
  <1>9. Off(vco, q, f) = vco - f * c
    <2>1. ~(f * c > vco)
      BY <1>2, <1>5, <1>8, SMT
    <2> QED BY <2>1, SMT DEF Off, Distance, c
  <1> DEFINE o == Off(vco, q, f)
  <1>10. o \in Nat /\ c <= o /\ vco - 3199 * c <= o
    BY <1>2, <1>5, <1>8, <1>9, SMT
  <1> HIDE DEF o
  <1>11. b.diff \in Nat /\ b.diff <= 600
    BY Chosen, SMT
  <1>12. CASE o >= 600
    BY <1>10, <1>11, <1>12, SMT DEF o
  <1>13. CASE o < 600
    <2>1. q - 1 \in 1 .. 62
      BY <1>7, SMT
    <2>2. g >= c + 6 /\ g <= 2 * c
      <3>1. q \in 24 .. 62
        BY <1>7, SMT
      <3> QED BY <3>1, Steps, SMT DEF c
    <2>3. g \in Nat \ {0}
      BY <2>1, Frefs, SMT
    <2>4. Low(vco, q - 1) \in Nat /\ 17 <= Low(vco, q - 1)
      BY <2>1, NotTooLow, SMT
    <2>5. vco \div g <= 3198
      <3>1. vco < 3199 * g
        BY <1>2, <1>10, <1>13, <2>2, <2>3, SMT
      <3> DEFINE k == vco \div g
      <3>2. k \in Nat /\ g * k <= vco
        <4> HIDE DEF g
        <4> QED BY <2>3, Division, SMT
      <3> HIDE DEF k, g
      <3>3. SUFFICES ASSUME 3199 <= k
                     PROVE  FALSE
        BY <3>2, SMT DEF k
      <3>4. g * 3199 <= g * k
        BY <2>3, <3>2, <3>3, SMT
      <3>5. g * k \in Nat
        BY <2>3, <3>2, SMT
      <3> QED BY <2>3, <3>1, <3>2, <3>4, <3>5, SMT
    <2>6. Low(vco, q - 1) <= 3198
      BY <2>5, SMT DEF Low
    <2> DEFINE m == Low(vco, q - 1)
    <2>7. m \in Nat /\ 17 <= m /\ m <= 3198
      BY <2>4, <2>6, SMT
    <2> HIDE DEF m
    <2>8. Usable(m) /\ Usable(m + 1)
      BY <2>7, UsableIs, SMT
    <2>9. Diff(vco, q - 1) <= g \div 2
      BY <2>1, <2>8, DiffHalf, SMT DEF m
    <2>10. g \div 2 <= c /\ g \div 2 \in Nat
      <3> HIDE DEF g
      <3> QED BY <1>2, <2>2, <2>3, SMT
    <2>11. Diff(vco, q - 1) \in Nat
      BY <2>1, <2>8, Nearest, SMT DEF m
    <2>12. b.diff <= Diff(vco, q - 1)
      <3>1. BestUpTo(vco, 62, b)
        BY BestPairBest, SMT
      <3> QED BY <2>1, <2>8, <3>1, SMT DEF BestUpTo, m
    <2> HIDE DEF g
    <2>13. b.diff <= o
      BY <1>2, <1>10, <1>11, <2>9, <2>10, <2>11, <2>12, SMT
    <2> QED BY <2>13 DEF o
  <1> QED BY <1>10, <1>12, <1>13, SMT

LEMMA NoPairCloser ==
  ASSUME NEW vco \in Nat, 800000 <= vco, vco <= 3200000,
         NEW q \in 1 .. 62, NEW f \in Nat, Usable(f)
  PROVE  BestPair(vco).diff <= Off(vco, q, f)
  <1> DEFINE l == Low(vco, q)
  <1>1. l \in Nat /\ 17 <= l
    BY NotTooLow, SMT
  <1> HIDE DEF l
  <1>2. CASE l <= 3199
    <2>1. Usable(l)
      BY <1>1, <1>2, UsableIs, SMT
    <2> QED BY <2>1, CloserBelow, SMT DEF l
  <1>3. CASE l >= 3200
    BY <1>3, CloserAbove, SMT DEF l
  <1> QED BY <1>1, <1>2, <1>3, SMT

LEMMA RoundUp ==
  ASSUME NEW n \in Nat, NEW d \in Nat \ {0}
  PROVE  /\ DIV_ROUND_UP(n, d) \in Nat
         /\ n <= d * DIV_ROUND_UP(n, d)
         /\ d * DIV_ROUND_UP(n, d) <= n + d - 1
  <1> DEFINE m == n + d - 1
             k == m \div d
  <1>1. m \in Nat /\ DIV_ROUND_UP(n, d) = k
    BY DEF DIV_ROUND_UP
  <1> HIDE DEF m
  <1>2. k \in Nat /\ d * k <= m /\ m < d * k + d
    BY <1>1, Division
  <1> HIDE DEF k
  <1>3. d * k \in Nat
    BY <1>2
  <1>4. n <= d * k /\ d * k <= n + d - 1
    BY <1>2, <1>3 DEF m
  <1> QED BY <1>1, <1>2, <1>4

LEMMA PostDividersNat ==
  ASSUME NEW khz \in Nat \ {0}
  PROVE  /\ PostDividers(khz).postdiv1 \in Nat
         /\ PostDividers(khz).postdiv2 \in Nat
  <1> DEFINE p == DIV_ROUND_UP(800 * MHz, khz)
             s == DIV_ROUND_UP(p, 7)
             t == DIV_ROUND_UP(p, s)
  <1>1. 800 * MHz \in Nat
    BY SMT DEF MHz
  <1>2. p \in Nat
    <2> DEFINE n == 800 * MHz
    <2>1. n \in Nat
      BY <1>1
    <2> HIDE DEF n
    <2>2. DIV_ROUND_UP(n, khz) \in Nat
      BY <2>1, RoundUp
    <2> QED BY <2>2 DEF n
  <1>3. PostDividers(khz) = IF p <= 7 THEN [postdiv1 |-> p, postdiv2 |-> 1]
                            ELSE [postdiv1 |-> t, postdiv2 |-> s]
    BY DEF PostDividers
  <1> HIDE DEF p
  <1>4. s \in Nat /\ p <= 7 * s
    BY <1>2, RoundUp, SMT
  <1> HIDE DEF s
  <1>5. ~(p <= 7) => t \in Nat
    <2>1. SUFFICES ASSUME ~(p <= 7)
                   PROVE  t \in Nat
      OBVIOUS
    <2>2. s \in Nat \ {0}
      BY <1>2, <1>4, <2>1, SMT
    <2> QED BY <1>2, <2>2, RoundUp, SMT
  <1> HIDE DEF t
  <1> QED BY <1>2, <1>3, <1>4, <1>5

LEMMA PostDividersRange ==
  ASSUME NEW khz \in Nat, NEW top \in Nat, 16327 <= khz, khz <= top, 3198000 <= top
  PROVE  /\ PostDividers(khz).postdiv1 \in 1 .. 7
         /\ PostDividers(khz).postdiv2 \in 1 .. 7
         /\ 800000 <= khz * PostDividers(khz).postdiv1 * PostDividers(khz).postdiv2
         /\ khz * PostDividers(khz).postdiv1 * PostDividers(khz).postdiv2 <= top
  <1> DEFINE p == DIV_ROUND_UP(800 * MHz, khz)
             s == DIV_ROUND_UP(p, 7)
             t == DIV_ROUND_UP(p, s)
  <1>1. p \in Nat /\ 800000 <= khz * p /\ khz * p <= 800000 + khz - 1
    <2>1. 800 * MHz = 800000
      BY SMT DEF MHz
    <2> DEFINE n == 800 * MHz
    <2>2. n \in Nat /\ khz \in Nat \ {0}
      BY <2>1, SMT
    <2> HIDE DEF n
    <2> DEFINE m == DIV_ROUND_UP(n, khz)
    <2>3. m \in Nat /\ n <= khz * m /\ khz * m <= n + khz - 1
      BY <2>2, RoundUp, SMT
    <2> HIDE DEF m
    <2>4. n = 800000 /\ p = m
      BY <2>1, SMT DEF m, n
    <2> HIDE DEF p
    <2> QED BY <2>2, <2>3, <2>4, SMT
  <1>2. PostDividers(khz) = IF p <= 7 THEN [postdiv1 |-> p, postdiv2 |-> 1]
                            ELSE [postdiv1 |-> t, postdiv2 |-> s]
    BY SMT DEF PostDividers
  <1> HIDE DEF p
  <1>3. p >= 1
    BY <1>1, SMT
  <1>4. khz * p = khz * (p - 1) + khz /\ khz * (p - 1) \in Nat
    BY <1>1, <1>3, SMT
  <1>5. khz * (p - 1) < 800000
    BY <1>1, <1>4, SMT
  <1>6. CASE p <= 7
    <2>1. PostDividers(khz).postdiv1 = p /\ PostDividers(khz).postdiv2 = 1
      BY <1>2, <1>6, SMT
    <2>2. khz * p * 1 = khz * p
      BY <1>1, SMT
    <2>3. khz * p <= top
      <3>1. CASE p = 1
        BY <3>1, SMT
      <3>2. CASE p # 1
        <4>1. khz <= khz * (p - 1)
          BY <1>1, <1>3, <3>2, SMT
        <4> QED BY <1>1, <1>5, <4>1, <1>4, SMT
      <3> QED BY <3>1, <3>2
    <2>4. p \in 1 .. 7
      BY <1>1, <1>3, <1>6, SMT
    <2> QED BY <1>1, <2>1, <2>2, <2>3, <2>4, SMT
  <1>7. CASE ~(p <= 7)
    <2>1. PostDividers(khz).postdiv1 = t /\ PostDividers(khz).postdiv2 = s
      BY <1>2, <1>7, SMT
    <2>2. khz * 7 < 800000
      <3>1. khz * 7 <= khz * (p - 1)
        BY <1>1, <1>7, SMT
      <3> QED BY <1>4, <1>5, <3>1, SMT
    <2>3. p <= 49
      <3>1. SUFFICES ASSUME p >= 50
                     PROVE  FALSE
        BY <1>1, SMT
      <3>2. 16327 * 49 <= khz * (p - 1)
        BY <1>1, <3>1, SMT
      <3> QED BY <1>4, <1>5, <3>2, SMT
    <2>4. s \in Nat /\ p <= 7 * s /\ 7 * s <= p + 6
      <3>1. s \in Nat /\ p <= 7 * s /\ 7 * s <= p + 7 - 1
        BY <1>1, RoundUp, SMT
      <3> HIDE DEF s
      <3> QED BY <1>1, <3>1, SMT
    <2> HIDE DEF s
    <2>5. s \in 2 .. 7
      BY <1>1, <1>7, <2>3, <2>4, SMT
    <2>6. t \in Nat /\ p <= s * t /\ s * t <= p + s - 1
      <3>1. s \in Nat \ {0}
        BY <2>5, SMT
      <3> QED BY <1>1, <3>1, RoundUp, SMT
    <2> HIDE DEF t
    <2>7. s = 2 \/ s = 3 \/ s = 4 \/ s = 5 \/ s = 6 \/ s = 7
      BY <2>5, SMT
    <2>8. t \in 1 .. 7
      BY <1>1, <1>7, <2>4, <2>6, <2>7, SMT
    <2>9. s * t \in Nat /\ p <= s * t /\ s * t <= p + 6
      BY <1>1, <2>6, <2>7, <2>8, SMT
    <2> DEFINE g == s * t
    <2>10. khz * t * s = khz * g
      BY <2>6, <2>4, SMT
    <2>11. g \in Nat /\ p <= g /\ g <= p + 6
      BY <2>9
    <2> HIDE DEF g
    <2>12. khz * p <= khz * g
      BY <1>1, <2>11, SMT
    <2>13. khz * g <= khz * (p + 6)
      BY <1>1, <2>11, SMT
    <2>14. khz * (p + 6) = khz * p + khz * 6
      BY <1>1, SMT
    <2>15. 800000 <= khz * g /\ khz * g <= top
      BY <1>1, <2>2, <2>11, <2>12, <2>13, <2>14, SMT
    <2>16. 800000 <= khz * t * s /\ khz * t * s <= top
      BY <2>10, <2>15, SMT
    <2>17. s \in 1 .. 7
      BY <2>5, SMT
    <2> QED BY <2>1, <2>8, <2>16, <2>17, SMT
  <1> QED BY <1>6, <1>7

LEMMA VcoOfHasVco ==
  ASSUME NEW khz \in Nat \ {0}, HasVco(khz),
         NEW vco, vco = khz * PostDividers(khz).postdiv1 * PostDividers(khz).postdiv2
  PROVE  vco \in Nat /\ 800000 <= vco /\ vco <= 3200000
  <1> DEFINE a == PostDividers(khz).postdiv1
             b == PostDividers(khz).postdiv2
  <1>1. a \in Nat /\ b \in Nat
    BY PostDividersNat
  <1>2. VcoInRange(vco)
    BY DEF HasVco
  <1> HIDE DEF a, b
  <1>3. khz * a * b \in Nat
    BY <1>1
  <1>4. vco \in Nat
    BY <1>3 DEF a, b
  <1>5. 800 * MHz = 800000 /\ 3200 * MHz = 3200000
    BY SMT DEF MHz
  <1> QED BY <1>2, <1>4, <1>5, SMT DEF VcoInRange

LEMMA FeedbackUsable ==
  \A f \in FeedbackDividers : f \in Nat /\ Usable(f)
  BY SMT DEF Usable, FeedbackDividers

\* No pair of dividers comes closer to the VCO of a pixel clock, for any rate that has
\* one, than the pair that pll_para_config finds by one pass over the reference dividers,
\* rounding the feedback divider of each.
THEOREM BestFound == BestPairFound
  <1> SUFFICES ASSUME NEW khz \in {k \in PixelRates : HasVco(k)},
                      NEW refdiv \in 1 .. 62, NEW fbdiv \in FeedbackDividers,
                      NEW vco, vco = khz * PostDividers(khz).postdiv1 * PostDividers(khz).postdiv2,
                      NEW fref, fref = OSC_HZ \div refdiv
               PROVE  BestPair(vco).diff
                        <= IF fbdiv * fref > vco THEN fbdiv * fref - vco ELSE vco - fbdiv * fref
    BY Zenon DEF BestPairFound
  <1>1. khz \in Nat \ {0} /\ HasVco(khz)
    BY RateAssumption, Zenon
  <1>2. vco \in Nat /\ 800000 <= vco /\ vco <= 3200000
    BY <1>1, VcoOfHasVco, SMT
  <1>3. fbdiv \in Nat /\ Usable(fbdiv)
    BY FeedbackUsable, Zenon
  <1>4. BestPair(vco).diff <= Off(vco, refdiv, fbdiv)
    BY <1>2, <1>3, NoPairCloser, SMT
  <1> QED BY <1>4, Zenon DEF Off, Distance, Fref

PixelLimits(khz) == 16327 <= khz /\ khz <= 3200000

\* What a rate within the limits is configured to.
LEMMA PixelConfig ==
  ASSUME NEW khz \in Nat, PixelLimits(khz),
         NEW c, c = pll_para_config(khz),
         NEW v, v = c.div
  PROVE  /\ c.ret = 0
         /\ Within3198(khz) => PllInRange(v)
         /\ v.refdiv \in 1 .. 62 /\ v.fbdiv \in Nat
         /\ v.postdiv1 \in 1 .. 7 /\ v.postdiv2 \in 1 .. 7
         /\ Accurate(v.fbdiv, v.refdiv, khz * v.postdiv1 * v.postdiv2)
  <1> DEFINE p1 == PostDividers(khz).postdiv1
             p2 == PostDividers(khz).postdiv2
             vco == khz * p1 * p2
             b == BestPair(vco)
  <1>1. /\ p1 \in 1 .. 7 /\ p2 \in 1 .. 7 /\ 800000 <= vco /\ vco <= 3200000
        /\ Within3198(khz) => Within3198(vco)
    BY PostDividersRange, SMT DEF PixelLimits, Within3198
  <1>2. 800 * MHz = 800000 /\ 3200 * MHz = 3200000 /\ 4 * MHz = 4000 /\ 16 * MHz = 16000
        /\ OSC_HZ = 24000
    BY SMT DEF MHz, OSC_HZ
  <1>6. vco \in Nat
    <2> HIDE DEF p1, p2
    <2> QED BY <1>1, SMT
  <1>3. HasVco(khz)
    <2>1. VcoInRange(vco)
      <3>1. PICK k : k = vco
        OBVIOUS
      <3>2. 800000 <= k /\ k <= 3200000 /\ k \in Nat
        BY <1>1, <1>6, <3>1, SMT
      <3>3. VcoInRange(k)
        BY <1>2, <3>2, SMT DEF VcoInRange
      <3> QED BY <3>1, <3>3, Zenon
    <2>2. p2 <= 7
      <3> HIDE DEF p2
      <3> QED BY <1>1, SMT
    <2> QED BY <2>1, <2>2, SMT DEF HasVco
  <1>4. c = [ret |-> IF b.diff > 4 * MHz THEN -1 ELSE 0,
             div |-> [refdiv |-> b.refdiv, fbdiv |-> b.fbdiv, postdiv1 |-> p1, postdiv2 |-> p2]]
    BY <1>3, SMT DEF pll_para_config
  <1>5. /\ c.ret = (IF b.diff > 4 * MHz THEN -1 ELSE 0)
        /\ v.refdiv = b.refdiv /\ v.fbdiv = b.fbdiv /\ v.postdiv1 = p1 /\ v.postdiv2 = p2
    <2> HIDE DEF b, p1, p2
    <2> QED BY <1>4, SMT
  <1> HIDE DEF vco
  <1>7. /\ b.refdiv \in 1 .. 62
        /\ b.fbdiv \in Nat /\ Usable(b.fbdiv)
        /\ b.diff \in Nat /\ b.diff = Off(vco, b.refdiv, b.fbdiv)
    BY <1>1, <1>6, Chosen, SMT
  <1>8. b.diff <= 600 /\ b.diff <= vco - 800000 /\ (vco <= 3198000 => b.diff <= 3198000 - vco)
    BY <1>1, <1>6, Chosen, SMT
  <1> HIDE DEF b
  <1>9. c.ret = 0
    BY <1>2, <1>5, <1>7, <1>8, SMT
  <1>10. PICK r \in 1 .. 62, f \in Nat : r = b.refdiv /\ f = b.fbdiv
    BY <1>7, Zenon
  <1>11. 17 <= f /\ f <= 3199
    <2>1. Usable(f)
      BY <1>7, <1>10, Zenon
    <2> QED BY <2>1, UsableIs, SMT
  <1>12. b.diff = Off(vco, r, f)
    BY <1>7, <1>10, Zenon
  <1>13. Close(vco, r, f)
    BY <1>1, <1>7, <1>8, <1>11, <1>12, SMT DEF Close
  <1> DEFINE w == SetVco(f, r)
  <1>14. ASSUME Within3198(khz)
         PROVE  w \in Nat /\ 800000 <= w /\ w <= 3200000
    <2>0. Within3198(vco)
      BY <1>1, <1>14, SMT
    <2>1. SetInRange(f, r)
      BY <1>6, <1>13, <2>0, ChosenVco, Zenon
    <2> QED BY <2>1, SMT DEF SetInRange
  <1>15. Accurate(f, r, vco)
    BY <1>6, <1>13, ChosenAccuracy, Zenon
  <1>16. v.refdiv = r /\ v.fbdiv = f
    BY <1>5, <1>10, Zenon
  <1>17. ASSUME Within3198(khz)
         PROVE  PllInRange(v)
    <2> DEFINE x == w \div p1
               y == x \div p2
    <2>0. w \in Nat /\ 800000 <= w /\ w <= 3200000
      BY <1>14, <1>17
    <2>1. (OSC_HZ * v.fbdiv) \div v.refdiv = w
      BY <1>2, <1>16, SMT DEF SetVco
    <2> HIDE DEF w, p1, p2
    <2>2. 114285 <= x /\ x \in Nat /\ x <= w
      BY <1>1, <2>0, SMT
    <2>3. (((OSC_HZ * v.fbdiv) \div v.refdiv) \div v.postdiv1) \div v.postdiv2 = y
      BY <1>5, <2>1, Zenon
    <2> HIDE DEF x
    <2>4. 16000 <= y /\ y \in Nat /\ y <= x
      BY <1>1, <2>2, SMT
    <2> HIDE DEF y
    <2>5. v.fbdiv \in 16 .. 3200
      BY <1>11, <1>16, SMT
    <2>6. VcoInRange(w) /\ 16 * MHz <= y /\ y <= 3200 * MHz
      BY <1>2, <2>0, <2>2, <2>4, SMT DEF VcoInRange
    <2> HIDE DEF w, y
    <2> DEFINE z == v.fbdiv \in 16 .. 3200
    <2>7. z
      BY <2>5
    <2> HIDE DEF z
    <2>8. PllInRange(v) <=> /\ VcoInRange((OSC_HZ * v.fbdiv) \div v.refdiv)
                            /\ 16 * MHz <= (((OSC_HZ * v.fbdiv) \div v.refdiv) \div v.postdiv1) \div v.postdiv2
                            /\ (((OSC_HZ * v.fbdiv) \div v.refdiv) \div v.postdiv1) \div v.postdiv2 <= 3200 * MHz
                            /\ z
      BY Zenon DEF PllInRange, z
    <2> QED BY <2>1, <2>3, <2>6, <2>7, <2>8, SMT
  <1>18. Accurate(v.fbdiv, v.refdiv, khz * v.postdiv1 * v.postdiv2)
    BY <1>5, <1>15, <1>16, Zenon DEF vco
  <1>19. v.refdiv \in 1 .. 62 /\ v.fbdiv \in Nat
    BY <1>5, <1>7, Zenon
  <1>20. v.postdiv1 \in 1 .. 7 /\ v.postdiv2 \in 1 .. 7
    <2>1. p1 \in 1 .. 7 /\ p2 \in 1 .. 7
      BY <1>1, SMT
    <2> QED BY <1>5, <2>1, Zenon
  <1> QED BY <1>9, <1>17, <1>18, <1>19, <1>20, Zenon

(***************************************************************************)
(* No assertion fails.                                                     *)
(***************************************************************************)
AssertInv == asserted \/ ~Kept(todo, Passing) => outside

LEMMA AssertInit == Init => AssertInv
  BY StartPassing DEF Init, AssertInv

LEMMA AssertDriver ==
  ASSUME ClockBase, AssertInv, Driver
  PROVE  AssertInv'
  <1>1. todo \in Seq(Accesses) /\ todo # << >> /\ todo' = Tail(todo) /\ todo[1] \in Accesses
    BY DriverStep DEF ClockBase
  <1>2. outside' = outside
    BY DEF Driver, Write, CheckAssertion, SetMode, SetDividers, WaitForLock, Proceed
  <1>3. ASSUME ~outside
        PROVE  ~asserted' /\ Kept(todo', Passing)
    <2>1. ~asserted /\ Kept(todo, Passing)
      BY <1>3 DEF AssertInv
    <2>2. todo[1] \in Passing /\ Kept(todo', Passing)
      BY <1>1, <2>1, TailKept
    <2>3. ~asserted'
      <3>1. Next1 = todo[1]
        BY AccessesLeft DEF Next1, ClockBase
      <3>2. CASE CheckAssertion
        BY <2>1, <2>2, <3>1, <3>2 DEF CheckAssertion, Does, Passing
      <3>3. CASE Write \/ SetMode \/ SetDividers \/ WaitForLock
        BY <2>1, <3>3 DEF Write, SetMode, SetDividers, WaitForLock
      <3> QED BY <3>2, <3>3 DEF Driver
    <2> QED BY <2>2, <2>3
  <1> QED BY <1>2, <1>3 DEF AssertInv

\* A rate of a bus that the unit supports has dividers of five bits.
LEMMA SupportedFits ==
  ASSUME NEW khz \in BusRates, khz >= 50000
  PROVE  {HdcpA(khz), HdcpHp(khz)} \subseteq 1 .. 32
  <1> DEFINE a == 800000 \div khz
             p == 1600000 \div khz
  <1>1. khz \in Nat \ {0} /\ khz <= 800000
    BY BusRateNumbers, SMT
  <1>2. a \in Nat /\ 1 <= a /\ a <= 16
    <2>1. a \in Nat
      BY <1>1, Division, SMT
    <2>2. khz * 1 <= 800000 /\ 800000 <= khz * 16
      BY <1>1, SMT
    <2> QED BY <1>1, <2>1, <2>2, QuotientAtLeast, QuotientAtMost, SMT
  <1>3. p \in Nat /\ 1 <= p /\ p <= 32
    <2>1. p \in Nat
      BY <1>1, Division, SMT
    <2>2. khz * 1 <= 1600000 /\ 1600000 <= khz * 32
      BY <1>1, SMT
    <2> QED BY <1>1, <2>1, <2>2, QuotientAtLeast, QuotientAtMost, SMT
  <1>4. HdcpA(khz) = a /\ HdcpHp(khz) = p
    <2>1. 800 * MHz = 800000
      BY SMT DEF MHz
    <2>2. GPLL_HZ = 800000 /\ 2 * GPLL_HZ = 1600000
      BY <2>1, SMT DEF GPLL_HZ
    <2> QED BY <2>2, SMT DEF HdcpA, HdcpHp
  <1> HIDE DEF a, p
  <1> QED BY <1>2, <1>3, <1>4, SMT

\* The limits of a pixel rate.
LEMMA SupportedPixels ==
  ASSUME NEW khz
  PROVE  Supported("pixel", khz) <=> PixelLimits(khz)
  <1>1. 3200 * MHz = 3200000
    BY SMT DEF MHz
  <1> QED BY <1>1, SMT DEF Supported, PixelLimits

LEMMA AssertCall ==
  ASSUME ClockBase, AssertInv, Calling
  PROVE  AssertInv'
  <1> SUFFICES ASSUME ~outside'
               PROVE  ~asserted' /\ Kept(todo', Passing)
    BY DEF AssertInv
  <1>1. ~asserted'
    BY DEF Calling, Call, AssertInv
  <1>2. ASSUME NEW khz \in ApllFrequencies, NEW c \in CpuClusters,
               Call(rk3399_configure_cpu(khz, c), c, khz)
        PROVE  Kept(todo', Passing)
    BY <1>2, configure_cpu_Passing DEF Call
  <1>3. ASSUME NEW khz \in BusRates,
               \/ Call(rk3399_hdcp_set_clk(khz), "hdcp", khz)
               \/ Call(rk3399_vio_set_clk(khz), "vio", khz)
        PROVE  Kept(todo', Passing)
    <2>1. Supported("hdcp", khz) \/ Supported("vio", khz)
      BY <1>3 DEF Call
    <2>2. khz >= 50000
      BY <2>1, SMT DEF Supported, MHz
    <2>3. {HdcpA(khz), HdcpHp(khz)} \subseteq 1 .. 32
      BY <2>2, SupportedFits, SMT
    <2>4. /\ Kept(rk3399_hdcp_set_clk(khz), Passing)
          /\ Kept(rk3399_vio_set_clk(khz), Passing)
      BY <2>3, SharedPassing
    <2> QED BY <1>3, <2>4 DEF Call
  <1>4. ASSUME NEW khz \in PixelRates, NEW vop \in {0, 1},
               Call(rk3399_vop_set_clk(vop, khz), "pixel", khz)
        PROVE  Kept(todo', Passing)
    <2>1. Supported("pixel", khz) /\ ~Overshoots("pixel", khz)
      BY <1>4 DEF Call
    <2>2. PixelLimits(khz)
      BY <2>1, SupportedPixels
    <2>3. khz \in Nat /\ khz <= 3198000
      <3>1. khz \in Nat
        BY RateAssumption
      <3>2. 3198 * MHz = 3198000
        BY SMT DEF MHz
      <3> QED BY <2>1, <3>1, <3>2, SMT DEF Overshoots
    <2>4. pll_para_config(khz).ret = 0 /\ PllInRange(pll_para_config(khz).div)
      <3>1. Within3198(khz)
        BY <2>3, SMT DEF Within3198
      <3> QED BY <2>2, <2>3, <3>1, PixelConfig
    <2>5. Kept(rk3399_vop_set_clk(vop, khz), Passing)
      BY <2>4, vop_set_clk_Passing
    <2> QED BY <1>4, <2>5 DEF Call
  <1> QED BY <1>1, <1>2, <1>3, <1>4 DEF Calling

LEMMA AssertNext == ClockBase /\ AssertInv /\ [Next]_vars => AssertInv'
  <1> SUFFICES ASSUME ClockBase, AssertInv, [Next]_vars
               PROVE  AssertInv'
    OBVIOUS
  <1>1. CASE UNCHANGED vars
    BY <1>1 DEF AssertInv, vars
  <1>2. ASSUME NEW p \in PLLs, Lock(p)
        PROVE  AssertInv'
    BY <1>2 DEF Lock, AssertInv
  <1> QED BY <1>1, <1>2, AssertDriver, AssertCall DEF Next, Spin, Idle

LEMMA AssertHolds == AssertInv => AssertionsHold
  BY DEF AssertInv, AssertionsHold

\* The dividers of the buses are right: for any sequence of calls, no assertion of
\* CRULib fails while it is asked for rates that the unit can give and that the search
\* for a pixel clock does not overshoot (up to 3198 MHz); at rest a bus of a cluster
\* exceeds its nominal rate by less than one part in its divider, and no bus of the
\* peripherals is above its rate.
THEOREM ClockDividersRight == Spec => []DividersRight
  <1>1. ClockBase /\ FieldInv /\ AssertInv => DividersRight
    BY AssertHolds, CpuAtRest, BusAtRest DEF DividersRight
  <1> QED BY <1>1, BaseInit, BaseNext, FieldInit, FieldNext, AssertInit, AssertNext, PTL DEF Spec

(***************************************************************************)
(* The clock of the pixels.                                                *)
(***************************************************************************)
PixelDividers(khz) == pll_para_config(khz).div

PixelInv ==
  \A khz \in PixelRates :
    asked.pixel = khz /\ PixelLimits(khz) => WillBeSet("vpll", PixelDividers(khz))

LEMMA PixelInit == Init => PixelInv
  BY RateAssumption DEF Init, PixelInv

\* A step that asks for no other rate and leaves what the PLL will be set to.
LEMMA PixelStep ==
  ASSUME PixelInv, asked'.pixel = asked.pixel,
         \A khz \in PixelRates :
           WillBeSet("vpll", PixelDividers(khz)) => WillBeSet("vpll", PixelDividers(khz))'
  PROVE  PixelInv'
  BY DEF PixelInv

LEMMA PixelDriver ==
  ASSUME ClockBase, PixelInv, Driver
  PROVE  PixelInv'
  <1>1. asked' = asked
    BY DriverStep DEF ClockBase
  <1>2. ASSUME NEW khz \in PixelRates, WillBeSet("vpll", PixelDividers(khz))
        PROVE  WillBeSet("vpll", PixelDividers(khz))'
    <2> DEFINE div == PixelDividers(khz)
    <2>1. "vpll" \in PLLs
      BY DEF PLLs
    <2>2. WillFeedBack("vpll", div) /\ WillDivide("vpll", div)
      BY <1>2 DEF WillBeSet
    <2> HIDE DEF div
    <2>3. WillFeedBack("vpll", div)'
      BY <2>1, <2>2, WillFeedBackStep DEF ClockBase
    <2>4. WillDivide("vpll", div)'
      BY <2>1, <2>2, WillDivideStep DEF ClockBase
    <2> QED BY <2>3, <2>4 DEF WillBeSet, div
  <1> QED BY <1>1, <1>2, PixelStep

LEMMA PixelOtherCall ==
  ASSUME PixelInv, todo = << >>, pll' = pll,
         asked'.pixel = asked.pixel,
         NEW regs, NEW plls, "vpll" \notin plls, Kept(todo', Within(regs, plls))
  PROVE  PixelInv'
  <1>1. ASSUME NEW khz \in PixelRates, WillBeSet("vpll", PixelDividers(khz))
        PROVE  WillBeSet("vpll", PixelDividers(khz))'
    <2> DEFINE div == PixelDividers(khz)
    <2>1. "vpll" \in PLLs /\ WillBeSet("vpll", div)
      BY <1>1 DEF PLLs
    <2> HIDE DEF div
    <2>2. WillBeSet("vpll", div)'
      BY <2>1, PllOtherCall
    <2> QED BY <2>2 DEF div
  <1> QED BY <1>1, PixelStep

\* The accesses of a call give the PLL its dividers.
LEMMA vop_set_clk_Gives ==
  ASSUME NEW vop \in {0, 1}, NEW khz \in PixelRates, pll_para_config(khz).ret = 0,
         NEW G, NEW op \in {"fbdiv", "divisors"},
         G = With(op, "vpll", PixelDividers(khz))
  PROVE  Given(rk3399_vop_set_clk(vop, khz), G, NoneOf({op}, "vpll"))
  <1> DEFINE ret == pll_para_config(khz).ret
             div == PixelDividers(khz)
             K == NoneOf({op}, "vpll")
             set == rkclk_set_pll("vpll", div)
  <1>1. /\ div \in Dividers /\ "vpll" \in PLLs
        /\ set \in Seq(Accesses) /\ VopPixels(vop) \in Seq(Accesses)
    BY vop_set_clk_Split DEF PixelDividers
  <1>2. rk3399_vop_set_clk(vop, khz) = VopBuses(vop, ret = 0) \o (set \o VopPixels(vop))
    BY vop_set_clk_Split DEF PixelDividers
  <1>3. (ret = 0) \in BOOLEAN
    OBVIOUS
  <1> HIDE DEF ret, div
  <1>4. Given(set, With(op, "vpll", div), K)
    BY <1>1, set_pll_Gives
  <1> HIDE DEF set
  <1>5. Assert(ret = 0) \in K
    BY <1>3, OpOfAssert DEF NoneOf
  <1>6. \A a \in Accesses : a.op = "write" /\ a.reg \in 47 .. 52 => a \in K
    BY DEF NoneOf
  <1> HIDE DEF K
  <1>7. VopBuses(vop, ret = 0) \in Seq(Accesses) /\ Kept(VopPixels(vop), K)
    BY <1>3, <1>5, <1>6, VopAccesses
  <1>8. Given(set \o VopPixels(vop), With(op, "vpll", div), K)
    BY <1>1, <1>4, <1>7, GivenThenKept
  <1>9. set \o VopPixels(vop) \in Seq(Accesses)
    BY <1>1, Joined
  <1>10. Given(VopBuses(vop, ret = 0) \o (set \o VopPixels(vop)), With(op, "vpll", div), K)
    BY <1>7, <1>8, <1>9, ThenGiven
  <1> QED BY <1>2, <1>10 DEF K, div

LEMMA PixelCall ==
  ASSUME ClockBase, PixelInv, NEW khz \in PixelRates, NEW vop \in {0, 1},
         Call(rk3399_vop_set_clk(vop, khz), "pixel", khz)
  PROVE  PixelInv'
  <1> SUFFICES ASSUME PixelLimits(khz)
               PROVE  WillBeSet("vpll", PixelDividers(khz))'
    <2>1. asked'.pixel = khz
      BY DEF Call, ClockBase, AskedOK
    <2> QED BY <2>1 DEF PixelInv
  <1>1. PixelLimits(khz)
    OBVIOUS
  <1>2. khz \in Nat
    BY RateAssumption
  <1>3. pll_para_config(khz).ret = 0
    BY <1>1, <1>2, PixelConfig
  <1>4. todo' = rk3399_vop_set_clk(vop, khz)
    BY DEF Call
  <1> DEFINE div == PixelDividers(khz)
  <1>5. /\ Given(todo', With("fbdiv", "vpll", div), NoneOf({"fbdiv"}, "vpll"))
        /\ Given(todo', With("divisors", "vpll", div), NoneOf({"divisors"}, "vpll"))
    BY <1>3, <1>4, vop_set_clk_Gives
  <1> HIDE DEF div
  <1>6. WillBeSet("vpll", div)'
    BY <1>5 DEF WillBeSet, WillFeedBack, WillDivide
  <1> QED BY <1>1, <1>6 DEF div

LEMMA PixelNext == ClockBase /\ PixelInv /\ [Next]_vars => PixelInv'
  <1> SUFFICES ASSUME ClockBase, PixelInv, [Next]_vars
               PROVE  PixelInv'
    OBVIOUS
  <1>1. CASE UNCHANGED vars
    <2>1. ASSUME NEW khz \in PixelRates, WillBeSet("vpll", PixelDividers(khz))
          PROVE  WillBeSet("vpll", PixelDividers(khz))'
      BY <1>1, <2>1 DEF vars, WillBeSet, WillFeedBack, WillDivide, HasDivisors
    <2> QED BY <1>1, <2>1, PixelStep DEF vars
  <1>2. CASE Driver
    BY <1>2, PixelDriver
  <1>3. ASSUME NEW q \in PLLs, Lock(q)
        PROVE  PixelInv'
    <2>1. ASSUME NEW khz \in PixelRates, WillBeSet("vpll", PixelDividers(khz))
          PROVE  WillBeSet("vpll", PixelDividers(khz))'
      <3>1. "vpll" \in PLLs
        BY DEF PLLs
      <3> DEFINE div == PixelDividers(khz)
      <3>2. WillBeSet("vpll", div)
        BY <2>1
      <3> HIDE DEF div
      <3>3. WillBeSet("vpll", div)'
        BY <1>3, <3>1, <3>2, LockSame, PllSame DEF ClockBase
      <3> QED BY <3>3 DEF div
    <2> QED BY <1>3, <2>1, PixelStep DEF Lock
  <1>4. ASSUME NEW khz \in ApllFrequencies, NEW c \in CpuClusters,
               Call(rk3399_configure_cpu(khz, c), c, khz)
        PROVE  PixelInv'
    <2>1. c \in {"little", "big"}
      BY ClusterAssumption DEF Clusters, CPU_CLUSTER_LITTLE, CPU_CLUSTER_BIG
    <2>2. todo = << >> /\ pll' = pll
      BY <1>4 DEF Call
    <2>5. asked' = [asked EXCEPT ![c] = khz]
      BY <1>4 DEF Call
    <2>6. asked'.pixel = asked.pixel
      BY <2>1, <2>5, SMT DEF ClockBase, AskedOK
    <2>3. Kept(todo', Within({ConBase(c), ConBase(c) + 1}, {ApllOf(c)}))
      BY <1>4, configure_cpu_Within DEF Call
    <2>4. "vpll" \notin {ApllOf(c)}
      BY DEF ApllOf
    <2> QED BY <2>2, <2>3, <2>4, <2>6, PixelOtherCall
  <1>5. ASSUME NEW khz \in BusRates,
               \/ Call(rk3399_hdcp_set_clk(khz), "hdcp", khz)
               \/ Call(rk3399_vio_set_clk(khz), "vio", khz)
        PROVE  PixelInv'
    <2>1. todo = << >> /\ pll' = pll
      BY <1>5 DEF Call
    <2>2. asked'.pixel = asked.pixel
      BY <1>5, SMT DEF Call, ClockBase, AskedOK
    <2>3. Kept(todo', Within({42, 43}, {}))
      BY <1>5, SharedWithin DEF Call
    <2> QED BY <2>1, <2>2, <2>3, PixelOtherCall
  <1>6. ASSUME NEW khz \in PixelRates, NEW vop \in {0, 1},
               Call(rk3399_vop_set_clk(vop, khz), "pixel", khz)
        PROVE  PixelInv'
    BY <1>6, PixelCall
  <1> QED BY <1>1, <1>2, <1>3, <1>4, <1>5, <1>6 DEF Next, Calling, Spin, Idle

LEMMA PixelAtRest == ClockBase /\ PixelInv => PixelClockAccurate
  <1> SUFFICES ASSUME ClockBase, PixelInv, todo = << >>, Supported("pixel", asked.pixel),
                      NEW v, v = pll["vpll"],
                      NEW khz, khz = asked.pixel,
                      NEW target, target = khz * v.postdiv1 * v.postdiv2 * v.refdiv,
                      NEW got, got = OSC_HZ * v.fbdiv
               PROVE  (IF got > target THEN got - target ELSE target - got) <= 4 * MHz * v.refdiv
    BY DEF PixelClockAccurate, AtRest
  <1>0. PixelLimits(khz)
    BY SupportedPixels
  <1>1. khz \in PixelRates
    <2>1. khz # 0
      BY <1>0, SMT DEF PixelLimits
    <2> QED BY <2>1 DEF ClockBase, AskedOK
  <1>2. PixelLimits(khz) /\ WillBeSet("vpll", PixelDividers(khz))
    BY <1>0, <1>1 DEF PixelInv
  <1> DEFINE div == PixelDividers(khz)
  <1>3. v.fbdiv = div.fbdiv
    BY <1>2, EmptyGiven DEF WillBeSet, WillFeedBack
  <1>4. v.refdiv = div.refdiv /\ v.postdiv1 = div.postdiv1 /\ v.postdiv2 = div.postdiv2
    BY <1>2, EmptyGiven DEF WillBeSet, WillDivide, HasDivisors
  <1>5. khz \in Nat
    BY <1>1, RateAssumption
  <1>6. Accurate(div.fbdiv, div.refdiv, khz * div.postdiv1 * div.postdiv2)
    BY <1>2, <1>5, PixelConfig DEF PixelDividers
  <1> HIDE DEF div
  <1>7. Distance(24000 * v.fbdiv, khz * v.postdiv1 * v.postdiv2 * v.refdiv) <= 4000 * v.refdiv
    BY <1>3, <1>4, <1>6, SMT DEF Accurate
  <1>8. OSC_HZ = 24000 /\ 4 * MHz = 4000
    BY SMT DEF OSC_HZ, MHz
  <1>9. Distance(got, target) <= 4 * MHz * v.refdiv
    BY <1>7, <1>8, SMT
  <1> QED BY <1>9, Zenon DEF Distance

\* What the code computes of a PLL is right, whatever rates are asked for: no pair of
\* dividers comes closer to the VCO of a pixel clock than the one that the search finds,
\* a pixel clock that is accepted is made from a VCO within 4 MHz of its target, and the
\* rate read back from a PLL of the start is the one it was set to.
THEOREM ClockRatesRight == Spec => []RatesRight
  <1>1. ClockBase /\ StartPllInv /\ PixelInv => RatesRight
    BY BestFound, PixelAtRest, RateAtRest DEF RatesRight
  <1> QED BY <1>1, BaseInit, BaseNext, StartPllInit, StartPllNext, PixelInit, PixelNext,
             PTL DEF Spec
==============================================================================
