----------------------------- MODULE DebugPort -----------------------------
(***************************************************************************)
(* The three libraries that can be the debug port: a console on the frame  *)
(* buffer, a log in memory, and the UART.  An image is built with one of   *)
(* them, and code of any priority writes to it: an application, and the    *)
(* event handlers that interrupt it.  A call in progress is a frame of     *)
(* calls, the interrupting call last.                                      *)
(*                                                                         *)
(* The frame buffer library disables interrupts for a call, the others     *)
(* rely on nothing.  In FbConPutCharWithFactor a newline jumps over the    *)
(* assignment of intstate and then reads it: the value is one of Garbage,  *)
(* and TRUE enables interrupts in the middle of a call.                    *)
(***************************************************************************)
EXTENDS Integers, Sequences, FiniteSets

CONSTANTS
  Ports,       \* the libraries to check, among "framebuffer", "memory", "uart"
  Texts,       \* what may be written, sequences of character codes
  Garbage,     \* the values an unassigned intstate may have
  gWidth,      \* the size of the frame buffer, in pixels
  gHeight,
  size,        \* the size of the log in memory
  TxDepth,     \* the size of each FIFO of the UART
  Attributes,  \* what SerialPortSetAttributes may be asked for
  Depth,       \* bound on calls interrupting each other
  MaxCalls     \* bound on calls

FONT_WIDTH == 5
FONT_HEIGHT == 12
SCALE_FACTOR == 2
UartClkInHz == 24000000

ASSUME PortAssumption == Ports \subseteq {"framebuffer", "memory", "uart"}
ASSUME ScreenAssumption ==
  /\ gWidth \in Nat /\ gWidth >= 2 * SCALE_FACTOR * (FONT_WIDTH + 1)
  /\ gHeight \in Nat /\ gHeight > (2 * SCALE_FACTOR + 1) * FONT_HEIGHT
  \* As of the 1080 and 900 pixels configured: at most half a line is left at the bottom.
  /\ gHeight % (SCALE_FACTOR * FONT_HEIGHT) <= FONT_HEIGHT
ASSUME LogAssumption == size \in Nat \ {0}
ASSUME FifoAssumption == TxDepth \in Nat \ {0}
ASSUME InputAssumption == Texts \subseteq Seq(Nat) /\ Garbage \subseteq BOOLEAN
\* The slowest rate whose divisor has 16 bits.
ASSUME RateAssumption ==
  \A ask \in Attributes : {ask.bits, ask.parity, ask.stop, ask.baud} \subseteq Nat /\ ask.baud >= 23
ASSUME BoundAssumption == Depth \in Nat /\ MaxCalls \in Nat

VARIABLES
  port,        \* the library that was built in, never changed
  calls,       \* the calls in progress
  interrupts,  \* interrupts are enabled
  fb,          \* the console: its globals and the cells that hold a glyph
  log,         \* the area in memory and its offset
  uart,        \* the registers and FIFOs of the UART
  made,        \* how many calls were made
  accident,    \* history: garbage has enabled interrupts that were disabled
  overlapped,  \* history: a call has interrupted another
  drawn,       \* history: the last glyph and its writer, until the line ends without it
  written      \* history: the last characters written to the log

vars == <<port, calls, interrupts, fb, log, uart, made, accident, overlapped, drawn, written>>

NoGlyph == [x |-> 0, y |-> 0, critical |-> FALSE, yellow |-> FALSE, any |-> FALSE]

\* The globals of the console are zero until SerialPortInitialize has run.
Init ==
  /\ port \in Ports
  /\ calls = << >> /\ interrupts = TRUE
  /\ fb = [initialized |-> FALSE, x |-> 0, y |-> 0, yellow |-> FALSE, glyphs |-> {}]
  /\ log = [area |-> [i \in 0 .. size - 1 |-> 0], offset |-> 0]
  /\ uart = [lcr |-> {}, dll |-> 0, dlh |-> 0, tx |-> 0, rx |-> 0, lost |-> {}, set |-> << >>]
  /\ made = 0 /\ accident = FALSE /\ overlapped = FALSE
  /\ drawn = NoGlyph /\ written = << >>

Top == calls[Len(calls)]
At(p, label) == port = p /\ calls # << >> /\ Top.pc = label
Become(frame) == calls' = [calls EXCEPT ![Len(calls)] = frame]
Goto(label) == Become([Top EXCEPT !.pc = label])

(***************************************************************************)
(* Calls.                                                                  *)
(***************************************************************************)
\* An application may call with interrupts disabled; an event handler runs only
\* where they are enabled.
MayCall(enabled) ==
  /\ made < MaxCalls /\ made' = made + 1
  /\ IF calls = << >> THEN enabled \in BOOLEAN ELSE interrupts /\ Len(calls) < Depth /\ enabled
  /\ overlapped' = (overlapped \/ calls # << >>)

Frame(kind, pc, text, saved, ask) ==
  [kind |-> kind, pc |-> pc, text |-> text, ch |-> 0, saved |-> saved, yellow |-> fb.yellow,
   intstate |-> FALSE, local |-> 0, lcr |-> {}, ask |-> ask]

\* SerialPortWrite, and for the frame buffer SerialPortWriteCritical in yellow.
SerialPortWrite(text, kind) ==
  \E enabled \in BOOLEAN :
    /\ MayCall(enabled)
    /\ calls' = Append(calls, Frame(kind, "next", text, enabled, << >>))
    /\ interrupts' = (enabled /\ port # "framebuffer")
    /\ fb' = [fb EXCEPT !.yellow = (@ \/ kind = "critical")]
    /\ UNCHANGED <<port, log, uart, accident, drawn, written>>

\* The console's; a second call does nothing.
SerialPortInitialize ==
  /\ port = "framebuffer" /\ calls = << >> /\ ~fb.initialized
  /\ fb' = [fb EXCEPT !.initialized = TRUE, !.x = 0, !.y = 0, !.yellow = FALSE]
  /\ UNCHANGED <<port, calls, interrupts, log, uart, made, accident, overlapped, drawn, written>>

\* Mistake: the interrupts are enabled whatever they were.
EnabledAlways(saved) == TRUE

EnabledAfter(saved) == IF saved THEN TRUE ELSE interrupts

ColourAfter(frame) == IF frame.kind = "critical" THEN frame.yellow ELSE fb.yellow

Return ==
  /\ calls # << >> /\ Top.pc = "next" /\ Top.text = << >>
  /\ calls' = SubSeq(calls, 1, Len(calls) - 1)
  /\ interrupts' = (IF port = "framebuffer" THEN EnabledAfter(Top.saved) ELSE interrupts)
  /\ fb' = [fb EXCEPT !.yellow = ColourAfter(Top)]
  /\ UNCHANGED <<port, log, uart, made, accident, overlapped, drawn, written>>

(***************************************************************************)
(* The frame buffer: a cursor in units of the font, SCALE_FACTOR of them   *)
(* to a glyph.                                                             *)
(***************************************************************************)
MaxX == gWidth \div (FONT_WIDTH + 1)
MaxY == (gHeight - 1) \div FONT_HEIGHT

LF == 10
CR == 13
Printable(c) == c \in 32 .. 127

NextCharacter ==
  /\ calls # << >> /\ Top.kind \in {"write", "critical"} /\ Top.pc = "next" /\ Top.text # << >>
  /\ Become([Top EXCEPT !.ch = Head(Top.text), !.text = Tail(@),
               !.pc = CASE port = "framebuffer" -> IF fb.initialized THEN "paint" ELSE "next"
                        [] port = "memory" -> "load"
                        [] port = "uart" -> "test"])
  /\ UNCHANGED <<port, interrupts, fb, log, uart, made, accident, overlapped, drawn, written>>

\* Leading spaces are dropped to save room.
Dropped(c) == ~Printable(c) \/ (c = 32 /\ fb.x = 0)

\* The label paint: what to do with the character, without touching the screen.
Paint ==
  /\ At("framebuffer", "paint")
  /\ \/ /\ Top.ch = LF
        /\ \E value \in Garbage : Become([Top EXCEPT !.pc = "newline", !.intstate = value])
        /\ drawn' = NoGlyph /\ fb' = fb
     \/ /\ Top.ch = CR /\ Goto("next")
        /\ fb' = [fb EXCEPT !.x = 0] /\ drawn' = drawn
     \/ /\ Top.ch \notin {LF, CR}
        /\ Goto(IF Dropped(Top.ch) THEN "next" ELSE "draw")
        /\ UNCHANGED <<fb, drawn>>
  /\ UNCHANGED <<port, interrupts, log, uart, made, accident, overlapped, written>>

\* FbConDrawglyph fills FONT_WIDTH by FONT_HEIGHT cells of SCALE_FACTOR pixels each
\* way: the columns and rows it ends before.
GlyphRight(x) == x * SCALE_FACTOR * (FONT_WIDTH + 1) + FONT_WIDTH * SCALE_FACTOR
GlyphBottom(y) == y * FONT_HEIGHT + FONT_HEIGHT * SCALE_FACTOR

LineFull(x) == x >= MaxX \div SCALE_FACTOR

\* The glyph is drawn with interrupts disabled; they stay so on the way to newline.
Draw ==
  /\ At("framebuffer", "draw")
  /\ fb' = [fb EXCEPT !.glyphs = @ \cup {<<fb.x, fb.y>>}, !.x = @ + 1]
  /\ drawn' = (IF Top.ch = 32 THEN (IF LineFull(fb.x + 1) THEN NoGlyph ELSE drawn)
               ELSE [x |-> fb.x, y |-> fb.y, critical |-> Top.kind = "critical",
                     yellow |-> fb.yellow, any |-> TRUE])
  /\ IF LineFull(fb.x + 1)
     THEN Become([Top EXCEPT !.pc = "newline", !.intstate = interrupts]) /\ interrupts' = FALSE
     ELSE Goto("next") /\ interrupts' = interrupts
  /\ UNCHANGED <<port, log, uart, made, accident, overlapped, written>>

\* The two assignments of a newline.  After an LF a handler may write between them, at
\* the old column of the new line.
NewLine ==
  /\ At("framebuffer", "newline") /\ Goto("column")
  /\ fb' = [fb EXCEPT !.y = @ + SCALE_FACTOR]
  /\ UNCHANGED <<port, interrupts, log, uart, made, accident, overlapped, drawn, written>>

FirstColumn ==
  /\ At("framebuffer", "column") /\ Goto("check")
  /\ fb' = [fb EXCEPT !.x = 0]
  /\ UNCHANGED <<port, interrupts, log, uart, made, accident, overlapped, drawn, written>>

\* Mistake: the height of the glyph is forgotten.
PageFullLate(y) == y >= MaxY

PageFull(y) == y >= MaxY - SCALE_FACTOR

Restore(intstate) ==
  /\ interrupts' = (interrupts \/ intstate)
  /\ accident' = (accident \/ (intstate /\ ~interrupts /\ Top.ch = LF))

CheckPage ==
  /\ At("framebuffer", "check")
  /\ IF PageFull(fb.y)
     THEN /\ Goto("top") /\ fb' = [fb EXCEPT !.glyphs = {}]
          /\ UNCHANGED <<interrupts, accident>>
     ELSE Goto("next") /\ fb' = fb /\ Restore(Top.intstate)
  /\ UNCHANGED <<port, log, uart, made, overlapped, drawn, written>>

\* Mistake: the cursor stays at the bottom.
StayingAtBottom(y) == y - SCALE_FACTOR

TopLine(y) == 0

PaintAgain == "paint"

\* After a clearing the character is painted again, on the new page.
ResetFb ==
  /\ At("framebuffer", "top") /\ Goto(PaintAgain)
  /\ fb' = [fb EXCEPT !.y = TopLine(@)]
  /\ Restore(Top.intstate)
  /\ UNCHANGED <<port, log, uart, made, overlapped, drawn, written>>

(***************************************************************************)
(* The log in memory.                                                      *)
(***************************************************************************)
LoadOffset ==
  /\ At("memory", "load")
  /\ Become([Top EXCEPT !.pc = "store", !.local = log.offset])
  /\ UNCHANGED <<port, interrupts, fb, log, uart, made, accident, overlapped, drawn, written>>

\* Mistake: the last place of the area is not used.
WrappedEarly(offset) == IF offset >= size - 1 THEN 0 ELSE offset

Wrapped(offset) == IF offset >= size THEN 0 ELSE offset

LastOf(s, n) == IF Len(s) > n THEN SubSeq(s, Len(s) - n + 1, Len(s)) ELSE s

\* A handler between the store and the test of the offset may find it at size, or
\* beyond: what it stores there is not in the area.
mem_putchar ==
  /\ At("memory", "store") /\ Goto("wrap")
  /\ log' = [area |-> [i \in DOMAIN log.area |-> IF i = Top.local THEN Top.ch ELSE log.area[i]],
             offset |-> Top.local + 1]
  /\ written' = LastOf(Append(written, Top.ch), size)
  /\ UNCHANGED <<port, interrupts, fb, uart, made, accident, overlapped, drawn>>

WrapOffset ==
  /\ At("memory", "wrap") /\ Goto("next")
  /\ log' = [log EXCEPT !.offset = Wrapped(@)]
  /\ UNCHANGED <<port, interrupts, fb, uart, made, accident, overlapped, drawn, written>>

(***************************************************************************)
(* The UART.  LCR is the set of its bits that are one; while bit 7 is one, *)
(* the address of the transmit register is that of the divisor.            *)
(***************************************************************************)
LCR_DLA_EN == 7

\* Mistake: the wrong bit of the status is tested.
NotEmpty(fifo) == fifo >= 0

NotFull(fifo) == fifo < TxDepth

\* The test spins, and the write follows it unguarded.
TestFifo ==
  /\ At("uart", "test") /\ NotFull(uart.tx) /\ Goto("put")
  /\ UNCHANGED <<port, interrupts, fb, log, uart, made, accident, overlapped, drawn, written>>

UartWrite ==
  /\ At("uart", "put") /\ Goto("next")
  /\ uart' = CASE LCR_DLA_EN \in uart.lcr -> [uart EXCEPT !.dll = Top.ch, !.lost = @ \cup {"divisor"}]
               [] LCR_DLA_EN \notin uart.lcr /\ uart.tx = TxDepth ->
                    [uart EXCEPT !.lost = @ \cup {"overrun"}]
               [] OTHER -> [uart EXCEPT !.tx = @ + 1]
  /\ UNCHANGED <<port, interrupts, fb, log, made, accident, overlapped, drawn, written>>

\* The other end: a character leaves, a character arrives.
Transmit ==
  /\ port = "uart" /\ uart.tx > 0
  /\ uart' = [uart EXCEPT !.tx = @ - 1]
  /\ UNCHANGED <<port, calls, interrupts, fb, log, made, accident, overlapped, drawn, written>>

Receive ==
  /\ port = "uart" /\ uart.rx < TxDepth
  /\ uart' = [uart EXCEPT !.rx = @ + 1]
  /\ UNCHANGED <<port, calls, interrupts, fb, log, made, accident, overlapped, drawn, written>>

\* SerialPortRead waits for every byte it was asked for, one here, without a bound.
SerialPortRead ==
  /\ port = "uart" /\ calls = << >> /\ MayCall(TRUE)
  /\ calls' = << Frame("read", "read", << >>, TRUE, << >>) >>
  /\ UNCHANGED <<port, interrupts, fb, log, uart, accident, drawn, written>>

UartRead ==
  /\ At("uart", "read") /\ uart.rx > 0 /\ Goto("next")
  /\ uart' = [uart EXCEPT !.rx = @ - 1]
  /\ UNCHANGED <<port, interrupts, fb, log, made, accident, overlapped, drawn, written>>

SerialPortSetAttributes(ask) ==
  /\ port = "uart" /\ calls = << >> /\ MayCall(TRUE)
  /\ calls' = << Frame("attributes", "reset", << >>, TRUE, ask) >>
  /\ UNCHANGED <<port, interrupts, fb, log, uart, accident, drawn, written>>

\* What SerialPortInitialize of the UART asks for.
Defaults == [bits |-> 8, parity |-> 0, stop |-> 1, baud |-> 115200]

WordLength(bits) == CASE bits = 5 -> {} [] bits = 6 -> {0} [] bits = 7 -> {1} [] bits = 8 -> {0, 1}

Valid(ask) == ask.bits \in 5 .. 8 /\ ask.parity \in {0, 1} /\ ask.stop \in {0, 1}

\* Mistake: the old word length is not cleared.
OrWithOld(lcr, ask) ==
  lcr \cup WordLength(ask.bits) \cup (IF ask.parity = 1 THEN {3} ELSE {})
      \cup (IF ask.stop = 1 THEN {2} ELSE {})

\* Only the word length is cleared: parity and stop bits are added to what was there.
LineControl(lcr, ask) ==
  (lcr \ {0, 1}) \cup WordLength(ask.bits) \cup (IF ask.parity = 1 THEN {3} ELSE {})
                 \cup (IF ask.stop = 1 THEN {2} ELSE {})

Rate(ask) == (UartClkInHz \div 16) \div ask.baud

\* The reset of the UART: what the FIFOs hold is gone.
FifosReset ==
  [uart EXCEPT !.tx = 0, !.rx = 0, !.lost = IF uart.tx > 0 THEN @ \cup {"reset"} ELSE @]

\* One access: the label it is at, the next one, and what becomes of the UART.
Access(label, next, u) == Top.pc = label /\ Goto(next) /\ uart' = u

UartInitializePort ==
  /\ port = "uart" /\ calls # << >> /\ Top.kind = "attributes"
  /\ \/ Access("reset", "lcr", FifosReset)
     \/ Access("reset", "lcr", [FifosReset EXCEPT !.lcr = {}, !.dll = 0, !.dlh = 0, !.set = << >>])
     \/ Access("putlcr", "dlab", [uart EXCEPT !.lcr = Top.lcr])
     \/ Access("dlab", "dll", [uart EXCEPT !.lcr = @ \cup {LCR_DLA_EN}])
     \/ Access("dll", "dlh", [uart EXCEPT !.dll = Rate(Top.ask) % 256])
     \/ Access("dlh", "undlab", [uart EXCEPT !.dlh = (Rate(Top.ask) \div 256) % 256])
     \/ Access("undlab", "next", [uart EXCEPT !.lcr = @ \ {LCR_DLA_EN}, !.set = <<Top.ask>>])
  /\ UNCHANGED <<port, interrupts, fb, log, made, accident, overlapped, drawn, written>>

\* RETURN_INVALID_PARAMETER leaves after the reset.
ReadLineControl ==
  /\ At("uart", "lcr")
  /\ IF Valid(Top.ask)
     THEN Become([Top EXCEPT !.pc = "putlcr", !.lcr = LineControl(uart.lcr, Top.ask)])
     ELSE Goto("next")
  /\ UNCHANGED <<port, interrupts, fb, log, uart, made, accident, overlapped, drawn, written>>

(***************************************************************************)
Idle == calls = << >> /\ made = MaxCalls /\ UNCHANGED vars

Calling ==
  \/ \E text \in Texts : SerialPortWrite(text, "write")
  \/ port = "framebuffer" /\ \E text \in Texts : SerialPortWrite(text, "critical")
  \/ SerialPortRead
  \/ \E ask \in Attributes \cup {Defaults} : SerialPortSetAttributes(ask)

Step ==
  \/ Return \/ NextCharacter
  \/ Paint \/ Draw \/ NewLine \/ FirstColumn \/ CheckPage \/ ResetFb
  \/ LoadOffset \/ mem_putchar \/ WrapOffset
  \/ TestFifo \/ UartWrite \/ UartRead \/ ReadLineControl \/ UartInitializePort

Next == Calling \/ SerialPortInitialize \/ Step \/ Transmit \/ Receive \/ Idle

Spec == Init /\ [][Next]_vars

\* The code that runs goes on, and the line takes what the UART sends.
FairSpec == Spec /\ WF_vars(Step) /\ WF_vars(Transmit)

(***************************************************************************)
(* Correctness.                                                            *)
(***************************************************************************)
AtRest == calls = << >>

\* Every glyph is drawn inside the frame buffer, also by a handler that interrupts
\* a newline between its assignments and the check of the page.
GlyphsOnScreen ==
  \A g \in fb.glyphs : GlyphRight(g[1]) <= gWidth /\ GlyphBottom(g[2]) <= gHeight

\* A call to the console leaves the interrupts as it found them, unless the
\* unassigned intstate has enabled them.
InterruptsRestored ==
  [][Len(calls') < Len(calls) /\ ~accident /\ port = "framebuffer" => interrupts' = Top.saved]_vars

\* Yellow is the colour of critical messages and of no other, and the console is
\* back to its own colour after them.
ColoursRight ==
  ~accident => /\ drawn.any => drawn.yellow = drawn.critical
               /\ AtRest => ~fb.yellow

\* The last character written is on the screen: the clearing of a full page never
\* leaves it out.  A newline or a space that ends the page leaves it blank.
LastGlyphShown ==
  AtRest /\ ~accident /\ drawn.any => <<drawn.x, drawn.y>> \in fb.glyphs

\* What a reader sees of the console: every glyph on the screen, the last one too, in
\* the colour of its message.
ConsoleRight == GlyphsOnScreen /\ ColoursRight /\ LastGlyphShown

\* Read on from the offset, the area holds the last characters written, unless a
\* call has interrupted another.
LogIsTail ==
  ~overlapped /\ AtRest =>
    LET n == Len(written)
    IN \A i \in 1 .. n : log.area[(log.offset + size - n + i - 1) % size] = written[i]

\* A character is lost to a full FIFO, or taken for a divisor, only if its writer
\* interrupted another call or was itself interrupted.
AloneNothingLost ==
  ~overlapped => uart.lost \subseteq {"reset"}

\* After SetAttributes the UART has the word length it was asked for and at least
\* its parity and stop bits, the divisor is the rounded quotient, and the data
\* registers are back; a later call that is refused leaves them so, or as the reset.
AttributesSet ==
  AtRest /\ ~overlapped =>
    /\ LCR_DLA_EN \notin uart.lcr
    /\ uart.set # << >> =>
         LET ask == uart.set[1]
             divisor == uart.dlh * 256 + uart.dll
         IN /\ uart.lcr \cap {0, 1} = WordLength(ask.bits)
            /\ ask.parity = 1 => 3 \in uart.lcr
            /\ ask.stop = 1 => 2 \in uart.lcr
            /\ divisor * 16 * ask.baud <= UartClkInHz
            /\ (divisor + 1) * 16 * ask.baud > UartClkInHz

\* Every call but a read returns, whatever interrupts it.
CallsReturn ==
  \A d \in 1 .. Depth :
    Len(calls) >= d /\ calls[d].kind # "read" ~> Len(calls) < d
=============================================================================
