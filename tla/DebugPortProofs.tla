-------------------------- MODULE DebugPortProofs --------------------------
(***************************************************************************)
(* The debug port, for any screen, log, FIFO and texts, and any number of  *)
(* calls interrupting each other: the console shows what was written, and  *)
(* leaves the interrupts as they were; the log is the tail of what was     *)
(* written; the UART has the settings it was asked for and loses nothing.  *)
(***************************************************************************)
EXTENDS DebugPort, SequenceTheorems, TLAPS

Settings == Attributes \cup {Defaults}

FrameBufferLabels == {"next", "paint", "draw", "newline", "column", "check", "top"}
MemoryLabels == {"next", "load", "store", "wrap"}
WriteLabels == {"next", "test", "put"}
DivisorLabels == {"dlab", "dll", "dlh", "undlab"}
AttributeLabels == {"reset", "lcr", "putlcr", "next"} \cup DivisorLabels

Labels == FrameBufferLabels \cup MemoryLabels \cup WriteLabels \cup AttributeLabels \cup {"read"}

Frames ==
  [kind : {"write", "critical", "read", "attributes"}, pc : Labels, text : Seq(Nat), ch : Nat,
   saved : BOOLEAN, yellow : BOOLEAN, intstate : BOOLEAN, local : Nat,
   lcr : SUBSET (0 .. 7), ask : Settings \cup {<< >>}]

\* The calls of a library and the places in them.
Fits(p, f) ==
  /\ p = "framebuffer" => f.kind \in {"write", "critical"} /\ f.pc \in FrameBufferLabels
  /\ p = "memory" => f.kind = "write" /\ f.pc \in MemoryLabels
  /\ p = "uart" =>
       \/ f.kind = "write" /\ f.pc \in WriteLabels
       \/ f.kind = "read" /\ f.pc \in {"read", "next"} /\ f.text = << >>
       \/ f.kind = "attributes" /\ f.pc \in AttributeLabels /\ f.text = << >> /\ f.ask \in Settings

PortFrames(p) == {f \in Frames : Fits(p, f)}

Consoles == [initialized : BOOLEAN, x : Nat, y : Nat, yellow : BOOLEAN, glyphs : SUBSET (Nat \X Nat)]
Logs == [area : [0 .. size - 1 -> Nat], offset : Nat]
Uarts == [lcr : SUBSET (0 .. 7), dll : Nat, dlh : Nat, tx : Nat, rx : Nat,
          lost : SUBSET {"divisor", "overrun", "reset"}, set : Seq(Settings)]
Glyphs == [x : Nat, y : Nat, critical : BOOLEAN, yellow : BOOLEAN, any : BOOLEAN]

TypeOK ==
  /\ port \in {"framebuffer", "memory", "uart"}
  /\ calls \in Seq(PortFrames(port))
  /\ interrupts \in BOOLEAN /\ accident \in BOOLEAN /\ overlapped \in BOOLEAN
  /\ fb \in Consoles /\ log \in Logs /\ uart \in Uarts
  /\ made \in Nat /\ drawn \in Glyphs /\ written \in Seq(Nat)

Doing(labels) == calls # << >> /\ Top.pc \in labels

(***************************************************************************)
(* The console.  As long as garbage has not enabled them, interrupts are   *)
(* disabled in a call, so there is one call at most.                       *)
(***************************************************************************)
Newlines == {"newline", "column", "check", "top"}

\* A character that a clearing of the page must not lose.
Inked(c) == Printable(c) /\ c # 32

ConsoleAlone ==
  /\ port # "framebuffer" => ~fb.yellow /\ ~drawn.any
  /\ drawn.any /\ ~accident => drawn.yellow = drawn.critical
  /\ port = "framebuffer" /\ ~accident =>
       /\ Len(calls) <= 1
       /\ calls = << >> => ~fb.yellow
       /\ calls # << >> => ~interrupts /\ ~Top.yellow /\ (fb.yellow <=> Top.kind = "critical")
       /\ Doing(Newlines) => /\ Top.ch # LF => ~Top.intstate
                             /\ drawn.any => Inked(Top.ch)
       /\ Doing({"draw"}) => Printable(Top.ch)
       /\ drawn.any => \/ <<drawn.x, drawn.y>> \in fb.glyphs
                       \/ Doing({"top", "paint", "draw"}) /\ Inked(Top.ch)

(***************************************************************************)
(* The cursor, whatever interrupts.  A line advances by two units; on the  *)
(* last line of the page is only a call whose newline is to be checked, or *)
(* one that interrupted it there and has not yet ended a line itself.      *)
(***************************************************************************)
Columns == MaxX \div SCALE_FACTOR
LastLine == SCALE_FACTOR * (gHeight \div (SCALE_FACTOR * FONT_HEIGHT) - 1)

Checks == {"column", "check", "top"}
LineEnds == {"newline", "column"}

CursorInv ==
  /\ GlyphsOnScreen
  /\ fb.x <= Columns
  /\ fb.x = Columns => Doing(LineEnds) /\ ~interrupts
  /\ fb.y % SCALE_FACTOR = 0
  /\ fb.y >= LastLine =>
       \/ fb.y = LastLine /\ Doing(Checks)
       \/ fb.y = LastLine + SCALE_FACTOR /\ Doing(Checks) /\ ~interrupts
       \/ /\ fb.y = LastLine /\ ~interrupts
          /\ Len(calls) > 1 /\ calls[Len(calls) - 1].pc \in Checks

(***************************************************************************)
(* Calls that do not interrupt each other: the log and the UART.           *)
(***************************************************************************)
Place(n, i) == (log.offset + size - n + i - 1) % size

LogInv ==
  ~overlapped =>
    /\ Doing({"store"}) => Top.local = log.offset
    /\ log.offset <= size /\ (log.offset = size => Doing({"wrap"}))
    /\ Len(written) <= size
    /\ \A i \in 1 .. Len(written) : log.area[Place(Len(written), i)] = written[i]

HasLine(lcr, ask) ==
  /\ lcr \cap {0, 1} = WordLength(ask.bits)
  /\ ask.parity = 1 => 3 \in lcr
  /\ ask.stop = 1 => 2 \in lcr

HasDivisor(u, ask) ==
  LET divisor == u.dlh * 256 + u.dll
  IN divisor * 16 * ask.baud <= UartClkInHz /\ (divisor + 1) * 16 * ask.baud > UartClkInHz

\* Between two writes of the divisor the line is new and the divisor is not.
UartInv ==
  ~overlapped =>
    /\ Len(calls) <= 1
    /\ uart.lost \subseteq {"reset"}
    /\ Doing({"put"}) => uart.tx < TxDepth
    /\ LCR_DLA_EN \in uart.lcr => Doing({"dll", "dlh", "undlab"})
    /\ Doing({"putlcr"}) =>
         Valid(Top.ask) /\ LCR_DLA_EN \notin Top.lcr /\ HasLine(Top.lcr, Top.ask)
    /\ Doing(DivisorLabels) => Valid(Top.ask) /\ HasLine(uart.lcr, Top.ask)
    /\ Doing({"dlh", "undlab"}) => uart.dll = Rate(Top.ask) % 256
    /\ Doing({"undlab"}) => uart.dlh = (Rate(Top.ask) \div 256) % 256
    /\ ~Doing(DivisorLabels) /\ uart.set # << >> =>
         HasLine(uart.lcr, uart.set[1]) /\ HasDivisor(uart, uart.set[1])

DebugInv == TypeOK /\ ConsoleAlone /\ CursorInv /\ LogInv /\ UartInv

(***************************************************************************)
(* The stack of calls.                                                     *)
(***************************************************************************)
\* What replacing the last call, adding one and returning from one do.
LEMMA Becoming ==
  ASSUME NEW S, calls \in Seq(S), calls # << >>, NEW frame \in S, Become(frame)
  PROVE  /\ calls' \in Seq(S) /\ calls' # << >> /\ Len(calls') = Len(calls) /\ Top' = frame
         /\ Len(calls) > 1 => calls'[Len(calls) - 1] = calls[Len(calls) - 1]
  BY DEF Become, Top

LEMMA Pushing ==
  ASSUME NEW S, calls \in Seq(S), NEW frame \in S, calls' = Append(calls, frame)
  PROVE  /\ calls' \in Seq(S) /\ calls' # << >> /\ Len(calls') = Len(calls) + 1 /\ Top' = frame
         /\ calls # << >> => calls'[Len(calls)] = Top
  BY DEF Top

LEMMA Beginning ==
  ASSUME NEW S, NEW s \in Seq(S), NEW n \in Nat, n <= Len(s)
  PROVE  /\ SubSeq(s, 1, n) \in Seq(S) /\ Len(SubSeq(s, 1, n)) = n
         /\ \A i \in 1 .. n : SubSeq(s, 1, n)[i] = s[i]
  <1>1. \A i \in 1 .. n : s[i] \in S
    OBVIOUS
  <1> QED BY <1>1, SubSeqProperties

LEMMA Returning ==
  ASSUME NEW S, calls \in Seq(S), calls # << >>, calls' = SubSeq(calls, 1, Len(calls) - 1)
  PROVE  /\ calls' \in Seq(S) /\ Len(calls') = Len(calls) - 1
         /\ calls' = << >> <=> Len(calls) = 1
         /\ Len(calls) > 1 => Top' = calls[Len(calls) - 1]
  <1> DEFINE n == Len(calls) - 1
  <1>1. n \in Nat /\ n <= Len(calls) /\ Len(calls) = n + 1
    OBVIOUS
  <1>2. /\ calls' \in Seq(S) /\ Len(calls') = n
        /\ \A i \in 1 .. n : calls'[i] = calls[i]
    <2> HIDE DEF n
    <2>1. calls' = SubSeq(calls, 1, n)
      BY DEF n
    <2> QED BY <1>1, <2>1, Beginning
  <1> QED BY <1>1, <1>2 DEF Top

LEMMA TopIn ==
  ASSUME NEW S, calls \in Seq(S), calls # << >>
  PROVE  Top \in S
  BY DEF Top

LEMMA TopTyped ==
  ASSUME TypeOK, calls # << >>
  PROVE  Top \in Frames /\ Fits(port, Top) /\ Top \in PortFrames(port)
  <1>1. Top \in PortFrames(port)
    BY TopIn DEF TypeOK
  <1> QED BY <1>1 DEF PortFrames

LEMMA NextTopTyped ==
  ASSUME TypeOK', calls' # << >>
  PROVE  Top' \in Frames /\ Fits(port', Top')
  <1>1. Top' \in PortFrames(port')
    BY DEF TypeOK, Top
  <1> QED BY <1>1 DEF PortFrames

LEMMA SizeTyped == size \in Nat /\ size > 0 /\ TxDepth \in Nat /\ TxDepth > 0
  BY LogAssumption, FifoAssumption

(***************************************************************************)
(* Types.                                                                  *)
(***************************************************************************)
\* A call that goes on is in its library.
LEMMA Onward ==
  ASSUME TypeOK, calls # << >>, NEW frame \in Frames, Become(frame), Fits(port, frame), port' = port
  PROVE  /\ calls' \in Seq(PortFrames(port')) /\ calls' # << >> /\ Len(calls') = Len(calls)
         /\ Top' = frame
         /\ Len(calls) > 1 => calls'[Len(calls) - 1] = calls[Len(calls) - 1]
  <1>1. frame \in PortFrames(port)
    BY DEF PortFrames
  <1>2. calls \in Seq(PortFrames(port))
    BY DEF TypeOK
  <1> QED BY <1>1, <1>2, Becoming

LEMMA Jump ==
  ASSUME TypeOK, calls # << >>, NEW label \in Labels, Goto(label), port' = port,
         Fits(port, [Top EXCEPT !.pc = label])
  PROVE  /\ calls' \in Seq(PortFrames(port')) /\ calls' # << >> /\ Len(calls') = Len(calls)
         /\ Top' = [Top EXCEPT !.pc = label]
         /\ Len(calls) > 1 => calls'[Len(calls) - 1] = calls[Len(calls) - 1]
  <1>1. [Top EXCEPT !.pc = label] \in Frames
    BY TopTyped DEF Frames
  <1> QED BY <1>1, Onward DEF Goto

LEMMA BecomeTop ==
  ASSUME TypeOK, calls # << >>, NEW frame, Become(frame)
  PROVE  Top' = frame
  <1>1. calls \in Seq(PortFrames(port))
    BY DEF TypeOK
  <1> QED BY <1>1 DEF Become, Top

\* A call is made where none is in progress, or where one may be interrupted.
LEMMA CallMade ==
  ASSUME TypeOK, NEW frame \in PortFrames(port), calls' = Append(calls, frame), port' = port
  PROVE  /\ calls' \in Seq(PortFrames(port')) /\ calls' # << >> /\ Len(calls') = Len(calls) + 1
         /\ Top' = frame /\ (calls # << >> => calls'[Len(calls)] = Top)
  <1>1. calls \in Seq(PortFrames(port))
    BY DEF TypeOK
  <1> QED BY <1>1, Pushing

LEMMA NewFrame ==
  ASSUME TypeOK, NEW kind \in {"write", "critical", "read", "attributes"}, NEW pc \in Labels,
         NEW text \in Seq(Nat), NEW saved \in BOOLEAN, NEW ask \in Settings \cup {<< >>}
  PROVE  Frame(kind, pc, text, saved, ask) \in Frames
  <1>1. fb.yellow \in BOOLEAN
    BY DEF TypeOK, Consoles
  <1>2. {} \in SUBSET (0 .. 7)
    OBVIOUS
  <1> QED BY <1>1, <1>2 DEF Frame, Frames

LEMMA Made ==
  ASSUME TypeOK, NEW enabled, MayCall(enabled)
  PROVE  /\ made' \in Nat /\ overlapped' \in BOOLEAN
         /\ ~overlapped' => ~overlapped /\ calls = << >>
         /\ overlapped => overlapped'
         /\ calls # << >> => interrupts
  <1>1. made' = made + 1
    BY Zenon DEF MayCall
  <1>2. calls # << >> => interrupts
    BY Zenon DEF MayCall
  <1>3. overlapped' = (overlapped \/ calls # << >>)
    BY DEF MayCall
  <1>4. /\ overlapped' \in BOOLEAN /\ (~overlapped' => ~overlapped /\ calls = << >>)
        /\ overlapped => overlapped'
    BY <1>3
  <1>5. made \in Nat
    BY DEF TypeOK
  <1> QED BY <1>1, <1>2, <1>4, <1>5

LEMMA TypeWrite ==
  ASSUME TypeOK, NEW text \in Texts, NEW kind \in {"write", "critical"},
         kind = "critical" => port = "framebuffer", SerialPortWrite(text, kind)
  PROVE  TypeOK'
  <1>1. PICK enabled \in BOOLEAN :
          /\ MayCall(enabled)
          /\ calls' = Append(calls, Frame(kind, "next", text, enabled, << >>))
          /\ interrupts' = (enabled /\ port # "framebuffer")
    BY DEF SerialPortWrite
  <1>2. Frame(kind, "next", text, enabled, << >>) \in Frames
    BY InputAssumption, NewFrame DEF Labels, WriteLabels
  <1>3. Fits(port, Frame(kind, "next", text, enabled, << >>))
    BY DEF Fits, Frame, FrameBufferLabels, MemoryLabels, WriteLabels, TypeOK
  <1>4. calls' \in Seq(PortFrames(port'))
    BY <1>1, <1>2, <1>3, CallMade DEF PortFrames, SerialPortWrite
  <1>5. interrupts' \in BOOLEAN
    BY <1>1
  <1>6. fb' \in Consoles
    BY DEF SerialPortWrite, TypeOK, Consoles
  <1> QED BY <1>1, <1>4, <1>5, <1>6, Made DEF TypeOK, SerialPortWrite

LEMMA TypeUartCall ==
  ASSUME TypeOK, SerialPortRead \/ \E ask \in Settings : SerialPortSetAttributes(ask)
  PROVE  TypeOK'
  <1>1. ASSUME port = "uart", calls = << >>, NEW f \in Frames, Fits(port, f), calls' = <<f>>,
               MayCall(TRUE), UNCHANGED <<port, interrupts, fb, log, uart, accident, drawn, written>>
        PROVE  TypeOK'
    <2>1. f \in PortFrames(port')
      BY <1>1 DEF PortFrames
    <2>2. calls' \in Seq(PortFrames(port'))
      BY <1>1, <2>1
    <2> QED BY <1>1, <2>2, Made DEF TypeOK
  <1>2. CASE SerialPortRead
    <2> DEFINE f == Frame("read", "read", << >>, TRUE, << >>)
    <2>1. f \in Frames
      <3>1. << >> \in Seq(Nat)
        OBVIOUS
      <3> QED BY <3>1, NewFrame DEF Labels
    <2>2. Fits(port, f)
      BY <1>2 DEF Fits, Frame, SerialPortRead
    <2> QED BY <1>1, <1>2, <2>1, <2>2 DEF SerialPortRead
  <1>3. ASSUME NEW ask \in Settings, SerialPortSetAttributes(ask) PROVE TypeOK'
    <2> DEFINE f == Frame("attributes", "reset", << >>, TRUE, ask)
    <2>1. f \in Frames
      <3>1. << >> \in Seq(Nat)
        OBVIOUS
      <3> QED BY <3>1, NewFrame DEF Labels, AttributeLabels
    <2>2. Fits(port, f)
      BY <1>3 DEF Fits, Frame, SerialPortSetAttributes, AttributeLabels
    <2> QED BY <1>1, <1>3, <2>1, <2>2 DEF SerialPortSetAttributes
  <1> QED BY <1>2, <1>3

LEMMA TypeNextCharacter ==
  ASSUME TypeOK, NextCharacter
  PROVE  TypeOK' /\ Len(calls') = Len(calls) /\ calls' # << >>
         /\ (Len(calls) > 1 => calls'[Len(calls) - 1] = calls[Len(calls) - 1])
         /\ Top'.pc \in {"next", "paint", "load", "test"} /\ (port # "uart" => Top'.pc # "test")
         /\ Top' = [Top EXCEPT !.ch = Head(Top.text), !.text = Tail(Top.text), !.pc = Top'.pc]
  <1> DEFINE label == CASE port = "framebuffer" -> IF fb.initialized THEN "paint" ELSE "next"
                        [] port = "memory" -> "load"
                        [] port = "uart" -> "test"
             f == [Top EXCEPT !.ch = Head(Top.text), !.text = Tail(Top.text), !.pc = label]
  <1>1. calls # << >> /\ Top.text # << >> /\ Become(f) /\ Top.kind \in {"write", "critical"}
    BY DEF NextCharacter
  <1>2. Top \in Frames /\ Fits(port, Top)
    BY <1>1, TopTyped
  <1>3. /\ label \in {"next", "paint", "load", "test"} /\ (port # "uart" => label # "test")
        /\ port = "framebuffer" => label \in FrameBufferLabels
        /\ port = "memory" => label \in MemoryLabels
        /\ port = "uart" => label = "test"
    BY DEF TypeOK, FrameBufferLabels, MemoryLabels
  <1> HIDE DEF label
  <1>4. Head(Top.text) \in Nat /\ Tail(Top.text) \in Seq(Nat)
    BY <1>1, <1>2 DEF Frames
  <1>5. f \in Frames /\ f.kind = Top.kind /\ f.pc = label
    BY <1>2, <1>3, <1>4 DEF Frames, Labels, FrameBufferLabels, MemoryLabels, WriteLabels
  <1>6. Fits(port, f)
    BY <1>1, <1>2, <1>3, <1>5 DEF Fits, WriteLabels
  <1>7. port' = port
    BY DEF NextCharacter
  <1>8. /\ calls' \in Seq(PortFrames(port')) /\ Len(calls') = Len(calls) /\ calls' # << >>
        /\ Len(calls) > 1 => calls'[Len(calls) - 1] = calls[Len(calls) - 1]
        /\ Top' = f
    BY <1>1, <1>5, <1>6, <1>7, Onward
  <1> QED BY <1>3, <1>5, <1>8 DEF TypeOK, NextCharacter

\* The steps of the console.
LEMMA TypeConsole ==
  ASSUME TypeOK, Paint \/ Draw \/ NewLine \/ FirstColumn \/ CheckPage \/ ResetFb
  PROVE  /\ TypeOK' /\ port = "framebuffer" /\ port' = port /\ calls # << >> /\ calls' # << >>
         /\ Len(calls') = Len(calls)
         /\ Len(calls) > 1 => calls'[Len(calls) - 1] = calls[Len(calls) - 1]
         /\ Top' = [Top EXCEPT !.pc = Top'.pc, !.intstate = Top'.intstate]
  <1>1. port = "framebuffer" /\ port' = port /\ calls # << >> /\ Top \in Frames /\ Fits(port, Top)
    BY TopTyped DEF Paint, Draw, NewLine, FirstColumn, CheckPage, ResetFb, At
  <1>2. ASSUME NEW label \in FrameBufferLabels, NEW state \in BOOLEAN,
               Become([Top EXCEPT !.pc = label, !.intstate = state])
        PROVE  /\ calls' \in Seq(PortFrames(port')) /\ calls' # << >> /\ Len(calls') = Len(calls)
               /\ Len(calls) > 1 => calls'[Len(calls) - 1] = calls[Len(calls) - 1]
               /\ Top' = [Top EXCEPT !.pc = label, !.intstate = state]
    <2> DEFINE f == [Top EXCEPT !.pc = label, !.intstate = state]
    <2>1. f \in Frames /\ f.kind = Top.kind /\ f.pc = label
      BY <1>1 DEF Frames, Labels
    <2>2. Fits(port, f)
      BY <1>1, <2>1 DEF Fits
    <2> QED BY <1>1, <1>2, <2>1, <2>2, Onward
  <1>3. ASSUME NEW label \in FrameBufferLabels, Goto(label)
        PROVE  Become([Top EXCEPT !.pc = label, !.intstate = Top.intstate])
    <2>1. [Top EXCEPT !.pc = label] = [Top EXCEPT !.pc = label, !.intstate = Top.intstate]
      BY <1>1 DEF Frames
    <2> QED BY <1>3, <2>1 DEF Goto
  <1>4. \E label \in FrameBufferLabels, state \in BOOLEAN :
          Become([Top EXCEPT !.pc = label, !.intstate = state])
    <2>1. Top.intstate \in BOOLEAN /\ interrupts \in BOOLEAN /\ Garbage \subseteq BOOLEAN
      BY <1>1, InputAssumption DEF Frames, TypeOK
    <2>2. CASE Paint
      BY <1>3, <2>1, <2>2 DEF Paint, FrameBufferLabels
    <2>3. CASE Draw
      BY <1>3, <2>1, <2>3 DEF Draw, FrameBufferLabels
    <2>4. CASE NewLine \/ FirstColumn
      BY <1>3, <2>1, <2>4 DEF NewLine, FirstColumn, FrameBufferLabels
    <2>5. CASE CheckPage
      BY <1>3, <2>1, <2>5 DEF CheckPage, FrameBufferLabels
    <2>6. CASE ResetFb
      BY <1>3, <2>1, <2>6 DEF ResetFb, FrameBufferLabels, PaintAgain
    <2> QED BY <2>2, <2>3, <2>4, <2>5, <2>6
  <1>5. /\ calls' \in Seq(PortFrames(port')) /\ calls' # << >> /\ Len(calls') = Len(calls)
        /\ Len(calls) > 1 => calls'[Len(calls) - 1] = calls[Len(calls) - 1]
        /\ Top' = [Top EXCEPT !.pc = Top'.pc, !.intstate = Top'.intstate]
    <2>1. PICK label \in FrameBufferLabels, state \in BOOLEAN :
            Become([Top EXCEPT !.pc = label, !.intstate = state])
      BY <1>4
    <2>2. /\ calls' \in Seq(PortFrames(port')) /\ calls' # << >> /\ Len(calls') = Len(calls)
          /\ Len(calls) > 1 => calls'[Len(calls) - 1] = calls[Len(calls) - 1]
          /\ Top' = [Top EXCEPT !.pc = label, !.intstate = state]
      BY <1>2, <2>1
    <2>3. label = Top'.pc /\ state = Top'.intstate
      BY <1>1, <2>2 DEF Frames
    <2> QED BY <2>2, <2>3
  <1>6. fb' \in Consoles /\ drawn' \in Glyphs /\ interrupts' \in BOOLEAN /\ accident' \in BOOLEAN
    <2>1. Top.intstate \in BOOLEAN /\ fb \in Consoles /\ drawn \in Glyphs
          /\ interrupts \in BOOLEAN /\ accident \in BOOLEAN
      BY <1>1 DEF Frames, TypeOK
    <2>2. NoGlyph \in Glyphs
      BY DEF NoGlyph, Glyphs
    <2>3. CASE Paint
      <3>1. [fb EXCEPT !.x = 0] \in Consoles
        BY <2>1 DEF Consoles
      <3>2. fb' \in {fb, [fb EXCEPT !.x = 0]} /\ drawn' \in {drawn, NoGlyph}
        BY <2>3 DEF Paint
      <3> QED BY <2>1, <2>2, <2>3, <3>1, <3>2 DEF Paint
    <2>4. CASE Draw
      <3>1. fb' \in Consoles
        <4> DEFINE g == fb.glyphs \cup {<<fb.x, fb.y>>}
        <4>1. g \in SUBSET (Nat \X Nat) /\ fb.x + 1 \in Nat
          BY <2>1 DEF Consoles
        <4>2. fb' = [fb EXCEPT !.glyphs = g, !.x = fb.x + 1]
          BY <2>4 DEF Draw
        <4> HIDE DEF g
        <4> QED BY <2>1, <4>1, <4>2 DEF Consoles
      <3>2. drawn' \in Glyphs
        BY <2>1, <2>2, <2>4 DEF Draw, Consoles, Glyphs
      <3> QED BY <2>1, <2>4, <3>1, <3>2 DEF Draw
    <2>5. CASE NewLine
      <3>1. fb.y + SCALE_FACTOR \in Nat
        BY <2>1 DEF Consoles, SCALE_FACTOR
      <3>2. fb' \in Consoles
        BY <2>1, <2>5, <3>1 DEF NewLine, Consoles
      <3> QED BY <2>1, <2>5, <3>2 DEF NewLine
    <2>6. CASE CheckPage
      BY <2>1, <2>6 DEF CheckPage, Consoles, Restore
    <2>7. CASE ResetFb
      BY <2>1, <2>7 DEF ResetFb, Consoles, Restore, TopLine
    <2>8. CASE FirstColumn
      BY <2>1, <2>8 DEF FirstColumn, Consoles
    <2> QED BY <2>3, <2>4, <2>5, <2>6, <2>7, <2>8
  <1> QED BY <1>1, <1>5, <1>6 DEF TypeOK, Paint, Draw, NewLine, FirstColumn, CheckPage, ResetFb

LEMMA SettingsTyped ==
  ASSUME NEW ask \in Settings
  PROVE  /\ ask.baud \in Nat /\ ask.baud >= 23 /\ Rate(ask) \in Nat
         /\ ask.bits \in Nat /\ ask.parity \in Nat /\ ask.stop \in Nat
  <1>1. /\ ask.baud \in Nat /\ ask.baud >= 23
        /\ ask.bits \in Nat /\ ask.parity \in Nat /\ ask.stop \in Nat
    BY RateAssumption DEF Settings, Defaults
  <1> QED BY <1>1 DEF Rate, UartClkInHz

LEMMA InitializedTyped ==
  ASSUME TypeOK, UartInitializePort
  PROVE  /\ uart' \in Uarts /\ Top.ask \in Settings
         /\ \E label \in AttributeLabels, next \in AttributeLabels :
              Access(label, next, uart')
  <1>1. uart \in Uarts
    BY DEF TypeOK
  <1>2. Top.lcr \in SUBSET (0 .. 7) /\ Top.ask \in Settings
    BY TopTyped DEF Frames, Fits, UartInitializePort
  <1> DEFINE low == Rate(Top.ask) % 256
             high == (Rate(Top.ask) \div 256) % 256
  <1>3. /\ << >> \in Seq(Settings) /\ <<Top.ask>> \in Seq(Settings) /\ {} \in SUBSET (0 .. 7)
        /\ uart.lcr \cup {LCR_DLA_EN} \in SUBSET (0 .. 7)
        /\ uart.lcr \ {LCR_DLA_EN} \in SUBSET (0 .. 7)
        /\ low \in Nat /\ high \in Nat
    <2>1. uart.lcr \subseteq 0 .. 7
      BY <1>1 DEF Uarts
    <2>2. Rate(Top.ask) \in Nat
      BY <1>2, SettingsTyped
    <2>3. low \in Nat /\ high \in Nat
      BY <2>2
    <2>4. << >> \in Seq(Settings) /\ <<Top.ask>> \in Seq(Settings)
      BY <1>2
    <2> HIDE DEF low, high
    <2> QED BY <2>1, <2>3, <2>4 DEF LCR_DLA_EN
  <1> HIDE DEF low, high
  <1>4. ASSUME NEW u \in Uarts
        PROVE  /\ \A lcr \in SUBSET (0 .. 7) : [u EXCEPT !.lcr = lcr] \in Uarts
               /\ \A dll \in Nat : [u EXCEPT !.dll = dll] \in Uarts
               /\ \A dlh \in Nat : [u EXCEPT !.dlh = dlh] \in Uarts
               /\ \A lcr \in SUBSET (0 .. 7), set \in Seq(Settings) :
                    /\ [u EXCEPT !.lcr = lcr, !.set = set] \in Uarts
                    /\ [u EXCEPT !.lcr = lcr, !.dll = 0, !.dlh = 0, !.set = set] \in Uarts
    BY <1>4 DEF Uarts
  <1>5. FifosReset \in Uarts
    <2> DEFINE lost == IF uart.tx > 0 THEN uart.lost \cup {"reset"} ELSE uart.lost
    <2>1. lost \in SUBSET {"divisor", "overrun", "reset"}
      BY <1>1 DEF Uarts
    <2>2. FifosReset = [uart EXCEPT !.tx = 0, !.rx = 0, !.lost = lost]
      BY DEF FifosReset
    <2> HIDE DEF lost
    <2> QED BY <1>1, <2>1, <2>2 DEF Uarts
  <1>6. [FifosReset EXCEPT !.lcr = {}, !.dll = 0, !.dlh = 0, !.set = << >>] \in Uarts
    BY <1>3, <1>4, <1>5
  <1>7. CASE Access("reset", "lcr", FifosReset)
    BY <1>2, <1>5, <1>7 DEF Access, AttributeLabels
  <1>8. CASE Access("reset", "lcr", [FifosReset EXCEPT !.lcr = {}, !.dll = 0, !.dlh = 0, !.set = << >>])
    BY <1>2, <1>6, <1>8 DEF Access, AttributeLabels
  <1>9. CASE Access("putlcr", "dlab", [uart EXCEPT !.lcr = Top.lcr])
    BY <1>1, <1>2, <1>4, <1>9 DEF Access, AttributeLabels, DivisorLabels, Uarts
  <1>10. CASE Access("dlab", "dll", [uart EXCEPT !.lcr = @ \cup {LCR_DLA_EN}])
    BY <1>1, <1>2, <1>3, <1>4, <1>10 DEF Access, AttributeLabels, DivisorLabels, Uarts
  <1>11. CASE Access("dll", "dlh", [uart EXCEPT !.dll = Rate(Top.ask) % 256])
    <2>1. Access("dll", "dlh", [uart EXCEPT !.dll = low])
      BY <1>11 DEF low
    <2> QED BY <1>1, <1>2, <1>3, <1>4, <2>1 DEF Access, AttributeLabels, DivisorLabels
  <1>12. CASE Access("dlh", "undlab", [uart EXCEPT !.dlh = (Rate(Top.ask) \div 256) % 256])
    <2>1. Access("dlh", "undlab", [uart EXCEPT !.dlh = high])
      BY <1>12 DEF high
    <2> QED BY <1>1, <1>2, <1>3, <1>4, <2>1 DEF Access, AttributeLabels, DivisorLabels
  <1>13. CASE Access("undlab", "next", [uart EXCEPT !.lcr = @ \ {LCR_DLA_EN}, !.set = <<Top.ask>>])
    BY <1>1, <1>2, <1>3, <1>4, <1>13 DEF Access, AttributeLabels, DivisorLabels, Uarts
  <1> QED BY <1>7, <1>8, <1>9, <1>10, <1>11, <1>12, <1>13 DEF UartInitializePort

\* The steps of the log and of the UART.
LEMMA TypeOthers ==
  ASSUME TypeOK, \/ LoadOffset \/ mem_putchar \/ WrapOffset \/ TestFifo \/ UartWrite
                 \/ UartRead \/ ReadLineControl \/ UartInitializePort
  PROVE  /\ TypeOK' /\ port # "framebuffer" /\ calls # << >> /\ calls' # << >>
         /\ Len(calls') = Len(calls)
         /\ UNCHANGED <<port, interrupts, fb, made, accident, overlapped, drawn>>
         /\ Top' = [Top EXCEPT !.pc = Top'.pc, !.local = Top'.local, !.lcr = Top'.lcr]
  <1>1. /\ port # "framebuffer" /\ calls # << >> /\ Top \in Frames /\ Fits(port, Top)
        /\ UNCHANGED <<port, interrupts, fb, made, accident, overlapped, drawn>>
    BY TopTyped DEF LoadOffset, mem_putchar, WrapOffset, TestFifo, UartWrite, UartRead, ReadLineControl,
                    UartInitializePort, At
  <1>2. ASSUME NEW label \in Labels, NEW l \in Nat, NEW bits \in SUBSET (0 .. 7),
               LET f == [Top EXCEPT !.pc = label, !.local = l, !.lcr = bits]
               IN Fits(port, f) /\ Become(f)
        PROVE  /\ calls' \in Seq(PortFrames(port')) /\ calls' # << >> /\ Len(calls') = Len(calls)
               /\ Top' = [Top EXCEPT !.pc = Top'.pc, !.local = Top'.local, !.lcr = Top'.lcr]
    <2> DEFINE f == [Top EXCEPT !.pc = label, !.local = l, !.lcr = bits]
    <2>1. f \in Frames /\ f.pc = label /\ f.local = l /\ f.lcr = bits
      BY <1>1 DEF Frames
    <2>2. calls' \in Seq(PortFrames(port')) /\ calls' # << >> /\ Len(calls') = Len(calls) /\ Top' = f
      BY <1>1, <1>2, <2>1, Onward
    <2> QED BY <2>1, <2>2
  <1>3. /\ \A label : [Top EXCEPT !.pc = label] =
                        [Top EXCEPT !.pc = label, !.local = Top.local, !.lcr = Top.lcr]
        /\ Top.local \in Nat /\ Top.lcr \in SUBSET (0 .. 7)
    BY <1>1 DEF Frames
  <1>4. ASSUME NEW label \in Labels, Goto(label), Fits(port, [Top EXCEPT !.pc = label])
        PROVE  /\ calls' \in Seq(PortFrames(port')) /\ calls' # << >> /\ Len(calls') = Len(calls)
               /\ Top' = [Top EXCEPT !.pc = Top'.pc, !.local = Top'.local, !.lcr = Top'.lcr]
    <2> DEFINE f == [Top EXCEPT !.pc = label]
    <2>1. f = [Top EXCEPT !.pc = label, !.local = Top.local, !.lcr = Top.lcr]
      BY <1>3
    <2>2. Fits(port, f) /\ Become(f)
      BY <1>4 DEF Goto
    <2> HIDE DEF f
    <2> QED BY <1>2, <1>3, <2>1, <2>2
  <1>5. CASE LoadOffset
    <2>1. log.offset \in Nat
      BY DEF TypeOK, Logs
    <2> DEFINE f == [Top EXCEPT !.pc = "store", !.local = log.offset]
    <2>2. f = [Top EXCEPT !.pc = "store", !.local = log.offset, !.lcr = Top.lcr]
      BY <1>1 DEF Frames
    <2>3. Fits(port, f)
      BY <1>1, <1>5 DEF LoadOffset, At, Fits, MemoryLabels, Frames
    <2>4. "store" \in Labels /\ Become(f)
      BY <1>5 DEF LoadOffset, Labels, MemoryLabels
    <2> HIDE DEF f
    <2>5. /\ calls' \in Seq(PortFrames(port')) /\ calls' # << >> /\ Len(calls') = Len(calls)
          /\ Top' = [Top EXCEPT !.pc = Top'.pc, !.local = Top'.local, !.lcr = Top'.lcr]
      BY <1>2, <1>3, <2>1, <2>2, <2>3, <2>4
    <2> QED BY <1>1, <1>5, <2>5 DEF LoadOffset, TypeOK
  <1>6. CASE mem_putchar
    <2>1. Fits(port, [Top EXCEPT !.pc = "wrap"])
      BY <1>1, <1>6 DEF mem_putchar, At, Fits, MemoryLabels, Frames
    <2>2. log' \in Logs
      <3>1. Top.local \in Nat /\ Top.ch \in Nat
        BY <1>1 DEF Frames
      <3>2. log.area \in [0 .. size - 1 -> Nat]
        BY DEF TypeOK, Logs
      <3>3. [i \in DOMAIN log.area |-> IF i = Top.local THEN Top.ch ELSE log.area[i]]
              \in [0 .. size - 1 -> Nat]
        BY <3>1, <3>2
      <3> QED BY <1>6, <3>1, <3>3 DEF mem_putchar, Logs
    <2>3. written' \in Seq(Nat)
      <3> DEFINE s == Append(written, Top.ch)
      <3>1. s \in Seq(Nat) /\ size \in Nat
        <4>1. Top.ch \in Nat
          BY <1>1 DEF Frames
        <4>2. written \in Seq(Nat)
          BY DEF TypeOK
        <4> QED BY <4>1, <4>2, SizeTyped
      <3> HIDE DEF s
      <3>2. LastOf(s, size) \in Seq(Nat)
        <4>1. CASE Len(s) > size
          <5> DEFINE m == Len(s) - size + 1
                     n == Len(s)
          <5>1. m \in Int /\ n \in Int /\ \A i \in m .. n : s[i] \in Nat
            BY <3>1, <4>1
          <5> HIDE DEF m, n
          <5>2. SubSeq(s, m, n) \in Seq(Nat)
            BY <5>1, SubSeqProperties
          <5> QED BY <4>1, <5>2 DEF LastOf, m, n
        <4> QED BY <3>1, <4>1 DEF LastOf
      <3> QED BY <1>6, <3>2 DEF mem_putchar, s
    <2> QED BY <1>1, <1>4, <1>6, <2>1, <2>2, <2>3 DEF mem_putchar, Labels, MemoryLabels, TypeOK
  <1>7. CASE TestFifo
    <2>1. Fits(port, [Top EXCEPT !.pc = "put"])
      BY <1>1, <1>7 DEF TestFifo, At, Fits, WriteLabels, AttributeLabels, DivisorLabels, Frames
    <2> QED BY <1>1, <1>4, <1>7, <2>1 DEF TestFifo, Labels, WriteLabels, TypeOK
  <1>8. CASE UartWrite
    <2>1. Fits(port, [Top EXCEPT !.pc = "next"])
      BY <1>1, <1>8 DEF UartWrite, At, Fits, WriteLabels, AttributeLabels, DivisorLabels, Frames
    <2>2. uart' \in Uarts
      <3>1. uart \in Uarts /\ Top.ch \in Nat
        BY <1>1 DEF TypeOK, Frames
      <3>2. \/ uart' = [uart EXCEPT !.dll = Top.ch, !.lost = uart.lost \cup {"divisor"}]
            \/ uart' = [uart EXCEPT !.lost = uart.lost \cup {"overrun"}]
            \/ uart' = [uart EXCEPT !.tx = uart.tx + 1]
        BY <1>8 DEF UartWrite
      <3>3. uart.lost \cup {"divisor"} \in SUBSET {"divisor", "overrun", "reset"}
            /\ uart.lost \cup {"overrun"} \in SUBSET {"divisor", "overrun", "reset"}
        BY <3>1 DEF Uarts
      <3>4. \A lost \in SUBSET {"divisor", "overrun", "reset"} :
              /\ [uart EXCEPT !.dll = Top.ch, !.lost = lost] \in Uarts
              /\ [uart EXCEPT !.lost = lost] \in Uarts
        BY <3>1 DEF Uarts
      <3>5. [uart EXCEPT !.tx = uart.tx + 1] \in Uarts
        <4>1. uart.tx + 1 \in Nat
          BY <3>1 DEF Uarts
        <4>2. \A tx \in Nat : [uart EXCEPT !.tx = tx] \in Uarts
          BY <3>1 DEF Uarts
        <4> QED BY <4>1, <4>2
      <3> QED BY <3>2, <3>3, <3>4, <3>5
    <2> QED BY <1>1, <1>4, <1>8, <2>1, <2>2 DEF UartWrite, Labels, WriteLabels, TypeOK
  <1>9. CASE UartRead
    <2>1. Fits(port, [Top EXCEPT !.pc = "next"])
      BY <1>1, <1>9 DEF UartRead, At, Fits, WriteLabels, AttributeLabels, DivisorLabels, Frames
    <2>2. uart' \in Uarts
      <3>1. uart \in Uarts
        BY DEF TypeOK
      <3> QED BY <1>9, <3>1 DEF UartRead, Uarts
    <2> QED BY <1>1, <1>4, <1>9, <2>1, <2>2 DEF UartRead, Labels, WriteLabels, TypeOK
  <1>10. CASE ReadLineControl
    <2>1. ASSUME Valid(Top.ask) PROVE LineControl(uart.lcr, Top.ask) \in SUBSET (0 .. 7)
      <3>1. WordLength(Top.ask.bits) \subseteq 0 .. 7
        BY <2>1 DEF Valid, WordLength
      <3>2. uart.lcr \subseteq 0 .. 7
        BY DEF TypeOK, Uarts
      <3> QED BY <3>1, <3>2 DEF LineControl
    <2> DEFINE bits == LineControl(uart.lcr, Top.ask)
               f == [Top EXCEPT !.pc = "putlcr", !.lcr = bits]
    <2>2. CASE Valid(Top.ask)
      <3>1. f = [Top EXCEPT !.pc = "putlcr", !.local = Top.local, !.lcr = bits]
        BY <1>1 DEF Frames
      <3>2. Fits(port, f)
        BY <1>1, <1>10 DEF ReadLineControl, At, Fits, WriteLabels, AttributeLabels, Frames
      <3>3. "putlcr" \in Labels /\ Become(f)
        BY <1>10, <2>2 DEF ReadLineControl, Labels, AttributeLabels
      <3>4. bits \in SUBSET (0 .. 7)
        BY <2>1, <2>2
      <3> HIDE DEF f, bits
      <3>5. /\ calls' \in Seq(PortFrames(port')) /\ calls' # << >> /\ Len(calls') = Len(calls)
            /\ Top' = [Top EXCEPT !.pc = Top'.pc, !.local = Top'.local, !.lcr = Top'.lcr]
        BY <1>2, <1>3, <3>1, <3>2, <3>3, <3>4
      <3> QED BY <1>1, <1>10, <3>5 DEF ReadLineControl, TypeOK
    <2>3. CASE ~Valid(Top.ask)
      <3>1. Fits(port, [Top EXCEPT !.pc = "next"])
        BY <1>1, <1>10 DEF ReadLineControl, At, Fits, WriteLabels, AttributeLabels, Frames
      <3> QED BY <1>1, <1>4, <1>10, <2>3, <3>1 DEF ReadLineControl, Labels, AttributeLabels, TypeOK
    <2> QED BY <2>2, <2>3
  <1>11. CASE UartInitializePort
    <2>1. PICK next \in AttributeLabels : Goto(next)
      BY <1>11, InitializedTyped DEF Access
    <2>2. Fits(port, [Top EXCEPT !.pc = next])
      BY <1>1, <1>11, <2>1 DEF Fits, Frames, UartInitializePort
    <2>3. next \in Labels
      BY DEF Labels
    <2> QED BY <1>1, <1>4, <1>11, <2>1, <2>2, <2>3, InitializedTyped DEF UartInitializePort, TypeOK
  <1>12. CASE WrapOffset
    <2>1. Fits(port, [Top EXCEPT !.pc = "next"])
      BY <1>1, <1>12 DEF WrapOffset, At, Fits, MemoryLabels, Frames
    <2>2. log' \in Logs
      BY <1>12, SizeTyped DEF WrapOffset, Wrapped, TypeOK, Logs
    <2> QED BY <1>1, <1>4, <1>12, <2>1, <2>2 DEF WrapOffset, Labels, MemoryLabels, TypeOK
  <1> QED BY <1>5, <1>6, <1>7, <1>8, <1>9, <1>10, <1>11, <1>12

LEMMA TypeReturn ==
  ASSUME TypeOK, Return
  PROVE  /\ TypeOK' /\ port' = port /\ calls # << >> /\ Len(calls') = Len(calls) - 1
         /\ calls' = << >> <=> Len(calls) = 1
         /\ Len(calls) > 1 => Top' = calls[Len(calls) - 1]
  <1>1. /\ calls # << >> /\ port' = port /\ calls \in Seq(PortFrames(port))
        /\ calls' = SubSeq(calls, 1, Len(calls) - 1)
    BY DEF Return, TypeOK
  <1>2. /\ calls' \in Seq(PortFrames(port')) /\ Len(calls') = Len(calls) - 1
        /\ calls' = << >> <=> Len(calls) = 1
        /\ Len(calls) > 1 => Top' = calls[Len(calls) - 1]
    BY <1>1, Returning
  <1>3. Top \in Frames /\ interrupts \in BOOLEAN /\ fb \in Consoles
    BY <1>1, TopTyped DEF TypeOK
  <1>4. interrupts' \in BOOLEAN
    BY <1>3 DEF Return, EnabledAfter
  <1>5. ColourAfter(Top) \in BOOLEAN
    BY <1>3 DEF ColourAfter, Frames, Consoles
  <1>6. fb' \in Consoles
    BY <1>3, <1>5 DEF Return, Consoles
  <1> QED BY <1>1, <1>2, <1>4, <1>6 DEF TypeOK, Return

LEMMA TypeEnvironment ==
  ASSUME TypeOK, SerialPortInitialize \/ Transmit \/ Receive
  PROVE  TypeOK'
  <1>1. CASE SerialPortInitialize
    <2>1. fb \in Consoles
      BY DEF TypeOK
    <2>2. fb' \in Consoles
      BY <1>1, <2>1 DEF SerialPortInitialize, Consoles
    <2> QED BY <1>1, <2>2 DEF SerialPortInitialize, TypeOK
  <1>2. CASE Transmit \/ Receive
    <2>1. uart \in Uarts
      BY DEF TypeOK
    <2>2. uart' \in Uarts
      BY <1>2, <2>1 DEF Transmit, Receive, Uarts
    <2> QED BY <1>2, <2>2 DEF Transmit, Receive, TypeOK
  <1> QED BY <1>1, <1>2

LEMMA TypeStep ==
  ASSUME TypeOK, [Next]_vars
  PROVE  TypeOK'
  <1>1. CASE \E text \in Texts : SerialPortWrite(text, "write")
    BY <1>1, TypeWrite
  <1>2. CASE port = "framebuffer" /\ \E text \in Texts : SerialPortWrite(text, "critical")
    BY <1>2, TypeWrite
  <1>3. CASE SerialPortRead \/ \E ask \in Settings : SerialPortSetAttributes(ask)
    BY <1>3, TypeUartCall
  <1>4. CASE Step
    BY <1>4, TypeReturn, TypeNextCharacter, TypeConsole, TypeOthers DEF Step
  <1>5. CASE SerialPortInitialize \/ Transmit \/ Receive
    BY <1>5, TypeEnvironment
  <1>6. CASE UNCHANGED vars
    BY <1>6 DEF vars, TypeOK
  <1> QED BY <1>1, <1>2, <1>3, <1>4, <1>5, <1>6 DEF Next, Calling, Settings, Idle

LEMMA InitTyped ==
  ASSUME Init
  PROVE  TypeOK
  <1>1. [i \in 0 .. size - 1 |-> 0] \in [0 .. size - 1 -> Nat]
    OBVIOUS
  <1>2. log \in Logs
    BY <1>1 DEF Init, Logs
  <1>3. << >> \in Seq(PortFrames(port)) /\ << >> \in Seq(Nat) /\ << >> \in Seq(Settings)
    OBVIOUS
  <1>4. uart \in Uarts /\ fb \in Consoles /\ drawn \in Glyphs
    BY <1>3 DEF Init, Uarts, Consoles, Glyphs, NoGlyph
  <1> QED BY <1>2, <1>3, <1>4, PortAssumption DEF Init, TypeOK

(***************************************************************************)
(* The console: colours, the last glyph and interrupts.                    *)
(***************************************************************************)
LEMMA ConsoleElsewhere ==
  ASSUME TypeOK, ConsoleAlone, [Next]_vars, port # "framebuffer"
  PROVE  ConsoleAlone'
  <1>1. fb \in Consoles /\ ~fb.yellow /\ ~drawn.any
    BY DEF TypeOK, ConsoleAlone
  <1>2. SUFFICES port' = port /\ drawn' = drawn /\ fb'.yellow = fb.yellow
    BY <1>1 DEF ConsoleAlone
  <1>3. ASSUME NEW text \in Texts, SerialPortWrite(text, "write")
        PROVE  port' = port /\ drawn' = drawn /\ fb'.yellow = fb.yellow
    <2>1. fb' = [fb EXCEPT !.yellow = (fb.yellow \/ "write" = "critical")]
      BY <1>3 DEF SerialPortWrite
    <2> QED BY <1>1, <1>3, <2>1 DEF SerialPortWrite, Consoles
  <1>4. CASE Return
    <2>1. calls # << >> /\ Top.kind # "critical"
      BY <1>4, TopTyped DEF Return, TypeOK, Fits
    <2> QED BY <1>1, <1>4, <2>1 DEF Return, ColourAfter, Consoles
  <1>5. CASE SerialPortRead \/ \E ask \in Settings : SerialPortSetAttributes(ask)
    BY <1>5 DEF SerialPortRead, SerialPortSetAttributes
  <1>6. CASE NextCharacter \/ Transmit \/ Receive \/ UNCHANGED vars
    BY <1>6 DEF NextCharacter, Transmit, Receive, vars
  <1>7. CASE LoadOffset \/ mem_putchar \/ WrapOffset \/ TestFifo \/ UartWrite \/ UartRead \/ ReadLineControl
             \/ UartInitializePort
    BY <1>7, TypeOthers
  <1> QED BY <1>3, <1>4, <1>5, <1>6, <1>7, TypeConsole
          DEF Next, Calling, Settings, Idle, Step, SerialPortInitialize

\* The library stays, and an accident is never forgotten.
LEMMA Kept ==
  ASSUME TypeOK, [Next]_vars
  PROVE  port' = port /\ (accident => accident') /\ (overlapped => overlapped')
  <1>0. accident \in BOOLEAN /\ overlapped \in BOOLEAN
    BY DEF TypeOK
  <1>1. CASE Calling
    <2>1. PICK enabled : UNCHANGED <<port, accident>> /\ MayCall(enabled)
      BY <1>1 DEF Calling, SerialPortWrite, SerialPortRead, SerialPortSetAttributes
    <2> QED BY <1>0, <2>1, Made
  <1>2. CASE Return \/ NextCharacter \/ Paint \/ Draw \/ NewLine \/ FirstColumn
    <2>1. UNCHANGED <<port, accident, overlapped>>
      BY <1>2 DEF Return, NextCharacter, Paint, Draw, NewLine, FirstColumn
    <2> QED BY <1>0, <2>1
  <1>3. CASE CheckPage \/ ResetFb
    <2>1. UNCHANGED <<port, overlapped>>
      BY <1>3 DEF CheckPage, ResetFb
    <2>2. accident' = accident \/ Restore(Top.intstate)
      BY <1>3 DEF CheckPage, ResetFb
    <2> QED BY <1>0, <2>1, <2>2 DEF Restore
  <1>4. CASE LoadOffset \/ mem_putchar \/ WrapOffset \/ TestFifo \/ UartWrite \/ UartRead \/ ReadLineControl
             \/ UartInitializePort
    BY <1>4, TypeOthers
  <1>5. CASE SerialPortInitialize \/ Transmit \/ Receive \/ UNCHANGED vars
    BY <1>5 DEF SerialPortInitialize, Transmit, Receive, vars
  <1> QED BY <1>1, <1>2, <1>3, <1>4, <1>5 DEF Next, Step, Idle

LEMMA ConsoleStep ==
  ASSUME TypeOK, ConsoleAlone, [Next]_vars, port = "framebuffer"
  PROVE  ConsoleAlone'
  <1>1. /\ fb \in Consoles /\ drawn \in Glyphs /\ interrupts \in BOOLEAN /\ accident \in BOOLEAN
        /\ calls \in Seq(PortFrames(port))
    BY DEF TypeOK
  <1>2. TypeOK' /\ port' = port /\ (accident => accident')
    BY TypeStep, Kept
  <1>3. SUFFICES ASSUME ~accident' PROVE ConsoleAlone'
    BY <1>2 DEF ConsoleAlone
  <1>4. /\ ~accident /\ Len(calls) <= 1
        /\ calls = << >> => ~fb.yellow
        /\ calls # << >> => ~interrupts /\ ~Top.yellow /\ (fb.yellow <=> Top.kind = "critical")
        /\ drawn.any => drawn.yellow = drawn.critical
        /\ drawn.any => \/ <<drawn.x, drawn.y>> \in fb.glyphs
                        \/ Doing({"top", "paint", "draw"}) /\ Inked(Top.ch)
    BY <1>2, <1>3 DEF ConsoleAlone
  \* Where a call goes on, its frame is the last one and keeps its kind.
  <1>5. ASSUME calls # << >>, calls' # << >>, Len(calls') = Len(calls), Top'.yellow = Top.yellow,
               Top'.kind = Top.kind, fb'.yellow = fb.yellow, ~interrupts',
               drawn'.any => drawn'.yellow = drawn'.critical,
               Top'.pc \in Newlines => (Top'.ch # LF => ~Top'.intstate) /\ (drawn'.any => Inked(Top'.ch)),
               Top'.pc = "draw" => Printable(Top'.ch),
               drawn'.any => \/ <<drawn'.x, drawn'.y>> \in fb'.glyphs
                             \/ Top'.pc \in {"top", "paint", "draw"} /\ Inked(Top'.ch)
        PROVE  ConsoleAlone'
    BY <1>2, <1>4, <1>5 DEF ConsoleAlone, Doing
  <1>6. ASSUME NEW text \in Texts, NEW kind \in {"write", "critical"}, SerialPortWrite(text, kind)
        PROVE  ConsoleAlone'
    <2>1. PICK enabled \in BOOLEAN :
            /\ MayCall(enabled)
            /\ calls' = Append(calls, Frame(kind, "next", text, enabled, << >>))
            /\ interrupts' = (enabled /\ port # "framebuffer")
            /\ fb' = [fb EXCEPT !.yellow = (fb.yellow \/ kind = "critical")]
            /\ drawn' = drawn
      BY <1>6 DEF SerialPortWrite
    <2> DEFINE f == Frame(kind, "next", text, enabled, << >>)
    <2>2. calls = << >> /\ ~fb.yellow
      BY <1>4, <2>1, Made
    <2>3. calls' = <<f>> /\ Len(calls') = 1 /\ calls' # << >> /\ Top' = f
      <3>1. calls' = Append(<< >>, f)
        BY <2>1, <2>2
      <3> HIDE DEF f
      <3> QED BY <3>1 DEF Top
    <2>4. f.kind = kind /\ f.pc = "next" /\ ~f.yellow
      BY <2>2 DEF Frame
    <2>5. (fb'.yellow <=> kind = "critical") /\ fb'.glyphs = fb.glyphs /\ ~interrupts'
      BY <1>1, <2>1, <2>2 DEF Consoles
    <2>6. drawn.any => <<drawn.x, drawn.y>> \in fb.glyphs
      BY <1>4, <2>2 DEF Doing
    <2> HIDE DEF f
    <2> QED BY <1>2, <1>4, <2>1, <2>3, <2>4, <2>5, <2>6 DEF ConsoleAlone, Doing, Newlines
  <1>7. CASE SerialPortInitialize
    <2>1. /\ calls = << >> /\ calls' = << >> /\ ~fb'.yellow /\ drawn' = drawn /\ fb'.glyphs = fb.glyphs
      BY <1>1, <1>7 DEF SerialPortInitialize, Consoles
    <2> QED BY <1>2, <1>4, <2>1 DEF ConsoleAlone, Doing
  <1>8. CASE Return
    <2>1. calls # << >> /\ Top.pc = "next" /\ Top \in Frames
      BY <1>8, TopTyped DEF Return
    <2>2. calls' = << >> /\ Len(calls') = 0
      BY <1>1, <1>4, <1>8, <2>1, TypeReturn
    <2>3. fb'.glyphs = fb.glyphs /\ fb'.yellow = ColourAfter(Top) /\ drawn' = drawn
      BY <1>1, <1>8 DEF Return, Consoles
    <2>4. ~fb'.yellow
      BY <1>1, <1>4, <2>1, <2>3 DEF ColourAfter, Frames, Consoles
    <2> QED BY <1>2, <1>4, <2>1, <2>2, <2>3, <2>4 DEF ConsoleAlone, Doing
  <1>9. CASE NextCharacter
    <2>1. /\ calls # << >> /\ calls' # << >> /\ Len(calls') = Len(calls)
          /\ Top'.pc \in {"next", "paint", "load", "test"} /\ Top.pc = "next"
          /\ Top'.kind = Top.kind /\ Top'.yellow = Top.yellow
          /\ UNCHANGED <<fb, drawn, interrupts>>
      BY <1>9, TypeNextCharacter, TopTyped DEF NextCharacter, Frames
    <2> QED BY <1>4, <1>5, <2>1 DEF Newlines, Doing
  <1>10. CASE Paint \/ Draw \/ NewLine \/ FirstColumn \/ CheckPage \/ ResetFb
    <2>1. /\ calls # << >> /\ calls' # << >> /\ Len(calls') = Len(calls)
          /\ Top' = [Top EXCEPT !.pc = Top'.pc, !.intstate = Top'.intstate] /\ Top \in Frames
      BY <1>10, TypeConsole, TopTyped
    <2>2. /\ Top'.kind = Top.kind /\ Top'.yellow = Top.yellow /\ Top'.ch = Top.ch
          /\ ~interrupts /\ (fb.yellow <=> Top.kind = "critical")
      BY <1>4, <2>1 DEF Frames
    <2>3. ASSUME NEW label \in FrameBufferLabels, Goto(label)
          PROVE  Top'.pc = label /\ Top'.intstate = Top.intstate
      <3>1. Top' = [Top EXCEPT !.pc = label] /\ Top \in Frames
        BY <2>1, <2>3, BecomeTop DEF Goto
      <3> QED BY <3>1 DEF Frames
    <2>4. Doing(Newlines) => (Top.ch # LF => ~Top.intstate) /\ (drawn.any => Inked(Top.ch))
      BY <1>2, <1>3 DEF ConsoleAlone
    <2>5. CASE Paint
      <3>1. Top.pc = "paint"
        BY <2>5 DEF Paint, At
      <3>2. CASE Top.ch = LF
        <4>0. Top.ch # CR /\ Top.ch \in {LF, CR}
          BY <3>2 DEF LF, CR
        <4>1. PICK value \in Garbage : Become([Top EXCEPT !.pc = "newline", !.intstate = value])
          BY Zenon, <2>5, <4>0 DEF Paint
        <4>2. Top' = [Top EXCEPT !.pc = "newline", !.intstate = value]
          BY <2>1, <4>1, BecomeTop
        <4>3. Top'.pc = "newline" /\ ~drawn'.any /\ fb' = fb /\ interrupts' = interrupts
          <5>1. drawn' = NoGlyph /\ fb' = fb /\ interrupts' = interrupts
            BY Zenon, <2>5, <4>0 DEF Paint
          <5>2. Top'.pc = "newline"
            BY <2>1, <4>2 DEF Frames
          <5> QED BY <5>1, <5>2 DEF NoGlyph
        <4> QED BY <1>5, <2>1, <2>2, <3>2, <4>3
      <3>3. CASE Top.ch = CR
        <4>1. Goto("next") /\ fb' = [fb EXCEPT !.x = 0] /\ drawn' = drawn /\ interrupts' = interrupts
          BY <2>5, <3>3 DEF Paint, LF, CR
        <4>2. Top'.pc = "next"
          BY <2>3, <4>1 DEF FrameBufferLabels
        <4>3. fb'.yellow = fb.yellow /\ fb'.glyphs = fb.glyphs
          BY <1>1, <4>1 DEF Consoles
        <4>4. ~Inked(Top.ch)
          BY <3>3 DEF Inked, Printable, CR
        <4> QED BY <1>4, <1>5, <2>1, <2>2, <4>1, <4>2, <4>3, <4>4 DEF Newlines
      <3>4. CASE Top.ch \notin {LF, CR}
        <4>1. /\ Goto(IF Dropped(Top.ch) THEN "next" ELSE "draw")
              /\ UNCHANGED <<fb, drawn, interrupts>>
          BY <2>5, <3>4 DEF Paint
        <4>2. CASE Dropped(Top.ch)
          <5>1. Top'.pc = "next" /\ ~Inked(Top.ch)
            BY <2>3, <4>1, <4>2 DEF FrameBufferLabels, Dropped, Inked
          <5> QED BY <1>4, <1>5, <2>1, <2>2, <4>1, <5>1 DEF Newlines
        <4>3. CASE ~Dropped(Top.ch)
          <5>1. Top'.pc = "draw" /\ Printable(Top.ch)
            BY <2>3, <4>1, <4>3 DEF FrameBufferLabels, Dropped
          <5> QED BY <1>4, <1>5, <2>1, <2>2, <4>1, <5>1 DEF Newlines, Doing
        <4> QED BY <4>2, <4>3
      <3> QED BY <3>2, <3>3, <3>4
    <2>6. CASE Draw
      <3>1. Top.pc = "draw" /\ Printable(Top.ch) /\ Top.ch # LF
        <4>1. Top.pc = "draw" /\ Doing({"draw"})
          BY <2>6 DEF Draw, At, Doing
        <4>2. Printable(Top.ch)
          BY <1>2, <1>3, <4>1 DEF ConsoleAlone
        <4> QED BY <4>1, <4>2 DEF Printable, LF
      <3>2. /\ fb'.yellow = fb.yellow
            /\ fb'.glyphs = fb.glyphs \cup {<<fb.x, fb.y>>}
            /\ ~interrupts'
        BY <1>1, <2>2, <2>6 DEF Draw, Consoles
      <3>3. Top'.pc \in {"newline", "next"} /\ (Top'.pc = "newline" => ~Top'.intstate /\ LineFull(fb.x + 1))
        <4>1. CASE LineFull(fb.x + 1)
          <5>1. Top' = [Top EXCEPT !.pc = "newline", !.intstate = interrupts]
            BY <2>1, <2>6, <4>1, BecomeTop DEF Draw
          <5> QED BY <2>1, <2>2, <4>1, <5>1 DEF Frames
        <4>2. CASE ~LineFull(fb.x + 1)
          BY <2>3, <2>6, <4>2 DEF Draw, FrameBufferLabels
        <4> QED BY <4>1, <4>2
      <3>4. CASE Top.ch = 32
        <4>1. drawn' = IF LineFull(fb.x + 1) THEN NoGlyph ELSE drawn
          BY <2>6, <3>4 DEF Draw
        <4>2. ~Inked(Top.ch)
          BY <3>4 DEF Inked
        <4> QED BY <1>4, <1>5, <2>1, <2>2, <3>1, <3>2, <3>3, <4>1, <4>2 DEF Newlines, NoGlyph
      <3>5. CASE Top.ch # 32
        <4>1. drawn' = [x |-> fb.x, y |-> fb.y, critical |-> Top.kind = "critical",
                        yellow |-> fb.yellow, any |-> TRUE]
          BY <2>6, <3>5 DEF Draw
        <4>2. /\ drawn'.x = fb.x /\ drawn'.y = fb.y /\ drawn'.yellow = fb.yellow
              /\ drawn'.critical = (Top.kind = "critical")
          BY <4>1
        <4>3. drawn'.yellow = drawn'.critical
          BY <1>1, <2>2, <4>2 DEF Consoles
        <4>4. <<drawn'.x, drawn'.y>> \in fb'.glyphs /\ Inked(Top.ch)
          BY <3>1, <3>2, <3>5, <4>2 DEF Inked
        <4> QED BY <1>5, <2>1, <2>2, <3>1, <3>2, <3>3, <4>3, <4>4 DEF Newlines
      <3> QED BY <3>4, <3>5
    <2>7. CASE NewLine \/ FirstColumn
      <3>1. /\ Top'.pc \in {"column", "check"} /\ Top.pc \in {"newline", "column"}
            /\ Top'.intstate = Top.intstate
        BY <2>3, <2>7 DEF NewLine, FirstColumn, At, FrameBufferLabels
      <3>2. fb'.yellow = fb.yellow /\ fb'.glyphs = fb.glyphs /\ UNCHANGED <<drawn, interrupts>>
        BY <1>1, <2>7 DEF NewLine, FirstColumn, Consoles
      <3> QED BY <1>4, <1>5, <2>1, <2>2, <2>4, <3>1, <3>2 DEF Newlines, Doing
    <2>8. CASE CheckPage
      <3>1. Top.pc = "check" /\ drawn' = drawn
        BY <2>8 DEF CheckPage, At
      <3>2. CASE PageFull(fb.y)
        <4>1. Top'.pc = "top" /\ Top'.intstate = Top.intstate
          BY <2>3, <2>8, <3>2 DEF CheckPage, FrameBufferLabels
        <4>2. fb'.yellow = fb.yellow /\ interrupts' = interrupts
          BY <1>1, <2>8, <3>2 DEF CheckPage, Consoles
        <4> QED BY <1>4, <1>5, <2>1, <2>2, <2>4, <3>1, <4>1, <4>2 DEF Newlines, Doing
      <3>3. CASE ~PageFull(fb.y)
        <4>1. Top'.pc = "next" /\ fb' = fb /\ Restore(Top.intstate)
          BY <2>3, <2>8, <3>3 DEF CheckPage, FrameBufferLabels
        <4>2. ~interrupts'
          BY <1>3, <2>1, <2>2, <2>4, <3>1, <4>1 DEF Restore, Doing, Newlines
        <4> QED BY <1>4, <1>5, <2>1, <2>2, <3>1, <4>1, <4>2 DEF Newlines, Doing
      <3> QED BY <3>2, <3>3
    <2>9. CASE ResetFb
      <3>1. Top.pc = "top" /\ Top'.pc = "paint" /\ drawn' = drawn /\ Restore(Top.intstate)
        BY <2>3, <2>9 DEF ResetFb, At, FrameBufferLabels, PaintAgain
      <3>2. fb'.yellow = fb.yellow /\ fb'.glyphs = fb.glyphs
        BY <1>1, <2>9 DEF ResetFb, Consoles
      <3>3. ~interrupts'
        BY <1>3, <2>1, <2>2, <2>4, <3>1 DEF Restore, Doing, Newlines
      <3> QED BY <1>4, <1>5, <2>1, <2>2, <2>4, <3>1, <3>2, <3>3 DEF Newlines, Doing
    <2> QED BY <1>10, <2>5, <2>6, <2>7, <2>8, <2>9
  <1>11. CASE UNCHANGED vars
    BY <1>11 DEF vars, ConsoleAlone, Doing, Top
  <1>12. ~(\/ SerialPortRead \/ \E ask \in Settings : SerialPortSetAttributes(ask)
           \/ LoadOffset \/ mem_putchar \/ WrapOffset \/ TestFifo \/ UartWrite \/ UartRead \/ ReadLineControl
           \/ UartInitializePort \/ Transmit \/ Receive)
    BY TypeOthers DEF SerialPortRead, SerialPortSetAttributes, Transmit, Receive
  <1> QED BY <1>6, <1>7, <1>8, <1>9, <1>10, <1>11, <1>12 DEF Next, Calling, Settings, Idle, Step

(***************************************************************************)
(* The cursor.                                                             *)
(***************************************************************************)
\* The dimensions of the screen, in glyphs.
LEMMA Screen ==
  /\ Columns \in Nat /\ Columns >= 2
  /\ \A x \in Nat : x < Columns => GlyphRight(x) <= gWidth
  /\ \A x \in Nat : LineFull(x) <=> x >= Columns
  <1>1. gWidth \in Nat /\ gWidth >= 24
    BY ScreenAssumption DEF SCALE_FACTOR, FONT_WIDTH
  <1>2. Columns = (gWidth \div 6) \div 2
    BY DEF Columns, MaxX, SCALE_FACTOR, FONT_WIDTH
  <1>3. Columns \in Nat /\ Columns >= 2 /\ 12 * Columns <= gWidth
    BY <1>1, <1>2
  <1>4. \A x \in Nat : GlyphRight(x) = 12 * x + 10
    BY DEF GlyphRight, SCALE_FACTOR, FONT_WIDTH
  <1> QED BY <1>1, <1>3, <1>4 DEF LineFull, Columns

\* With half a line left at the bottom at most, a page is full on its last line.
LEMMA Pages ==
  /\ LastLine \in Nat /\ LastLine > 0 /\ LastLine % SCALE_FACTOR = 0
  /\ \A y \in Nat : y <= LastLine => GlyphBottom(y) <= gHeight
  /\ \A y \in Nat : y % SCALE_FACTOR = 0 => (PageFull(y) <=> y >= LastLine)
  <1>1. gHeight \in Nat /\ gHeight > 60 /\ gHeight % 24 <= 12
    BY ScreenAssumption DEF SCALE_FACTOR, FONT_HEIGHT
  <1> DEFINE rows == gHeight \div 24
  <1>2. rows \in Nat /\ rows >= 2 /\ 24 * rows <= gHeight /\ gHeight <= 24 * rows + 12
    BY <1>1
  <1>3. LastLine = 2 * (rows - 1)
    BY DEF LastLine, SCALE_FACTOR, FONT_HEIGHT
  <1>4. MaxY = (gHeight - 1) \div 12
    BY DEF MaxY, FONT_HEIGHT
  <1> HIDE DEF rows
  <1>5. MaxY \in {2 * rows - 1, 2 * rows}
    BY <1>1, <1>2, <1>4
  <1>6. \A y \in Nat : GlyphBottom(y) = 12 * y + 24
    BY DEF GlyphBottom, SCALE_FACTOR, FONT_HEIGHT
  <1>7. \A y \in Nat : y % 2 = 0 => (y >= MaxY - 2 <=> y >= LastLine)
    BY <1>2, <1>3, <1>5
  <1>8. LastLine % 2 = 0
    BY <1>2, <1>3
  <1>9. \A y \in Nat : y <= LastLine => 12 * y + 24 <= gHeight
    BY <1>1, <1>2, <1>3
  <1>10. LastLine \in Nat /\ LastLine > 0
    BY <1>2, <1>3
  <1>11. \A y : PageFull(y) <=> y >= MaxY - 2
    BY DEF PageFull, SCALE_FACTOR
  <1> QED BY <1>6, <1>7, <1>8, <1>9, <1>10, <1>11 DEF SCALE_FACTOR

\* Only the console moves the cursor.
LEMMA CursorElsewhere ==
  ASSUME TypeOK, CursorInv, [Next]_vars, port # "framebuffer"
  PROVE  CursorInv'
  <1>1. fb \in Consoles /\ calls \in Seq(PortFrames(port)) /\ fb.x \in Nat /\ fb.y \in Nat
    BY DEF TypeOK, Consoles
  <1>2. \A i \in 1 .. Len(calls) : calls[i].pc \notin Checks \cup LineEnds
    BY <1>1 DEF PortFrames, TypeOK, Fits, MemoryLabels, WriteLabels, AttributeLabels, DivisorLabels,
                 Checks, LineEnds
  <1>3. ~Doing(LineEnds) /\ ~Doing(Checks)
    BY <1>1, <1>2 DEF Doing, Top
  <1>4. ~(Len(calls) > 1 /\ calls[Len(calls) - 1].pc \in Checks)
    BY <1>1, <1>2
  <1>5. /\ GlyphsOnScreen /\ fb.x < Columns /\ fb.y < LastLine /\ fb.y % SCALE_FACTOR = 0
    BY <1>1, <1>3, <1>4, Screen, Pages DEF CursorInv
  <1>6. SUFFICES fb'.x = fb.x /\ fb'.y = fb.y /\ fb'.glyphs = fb.glyphs
    BY <1>1, <1>5, Screen, Pages DEF CursorInv, GlyphsOnScreen
  <1>7. ASSUME NEW text \in Texts, SerialPortWrite(text, "write")
        PROVE  fb'.x = fb.x /\ fb'.y = fb.y /\ fb'.glyphs = fb.glyphs
    BY <1>1, <1>7 DEF SerialPortWrite, Consoles
  <1>8. CASE Return
    BY <1>1, <1>8 DEF Return, Consoles
  <1>9. CASE SerialPortRead \/ \E ask \in Settings : SerialPortSetAttributes(ask)
    BY <1>9 DEF SerialPortRead, SerialPortSetAttributes
  <1>10. CASE NextCharacter \/ Transmit \/ Receive \/ UNCHANGED vars
    BY <1>10 DEF NextCharacter, Transmit, Receive, vars
  <1>11. CASE LoadOffset \/ mem_putchar \/ WrapOffset \/ TestFifo \/ UartWrite \/ UartRead \/ ReadLineControl
             \/ UartInitializePort
    BY <1>11, TypeOthers
  <1> QED BY <1>7, <1>8, <1>9, <1>10, <1>11, TypeConsole
          DEF Next, Calling, Settings, Idle, Step, SerialPortInitialize

LEMMA CursorStep ==
  ASSUME TypeOK, CursorInv, [Next]_vars, port = "framebuffer"
  PROVE  CursorInv'
  <1>1. /\ fb \in Consoles /\ interrupts \in BOOLEAN /\ calls \in Seq(PortFrames(port))
        /\ fb.x \in Nat /\ fb.y \in Nat /\ Len(calls) \in Nat
    BY DEF TypeOK, Consoles
  <1>2. /\ GlyphsOnScreen /\ fb.x <= Columns /\ fb.y % SCALE_FACTOR = 0
        /\ fb.x = Columns => Doing(LineEnds) /\ ~interrupts
    BY DEF CursorInv
  \* On the last line a newline is to be checked, or the call before is checking one.
  <1> DEFINE Interrupting == /\ fb.y = LastLine /\ ~interrupts
                             /\ Len(calls) > 1 /\ calls[Len(calls) - 1].pc \in Checks
  <1>3. fb.y >= LastLine => \/ fb.y = LastLine /\ Doing(Checks)
                            \/ fb.y = LastLine + SCALE_FACTOR /\ Doing(Checks) /\ ~interrupts
                            \/ Interrupting
    BY DEF CursorInv
  <1>4. ~Doing(Checks) => (fb.y >= LastLine => Interrupting)
    BY <1>3
  <1> HIDE DEF Interrupting
  <1>5. ~Doing(LineEnds) => fb.x < Columns
    BY <1>1, <1>2, Screen
  <1>6. ASSUME NEW text \in Texts, NEW kind \in {"write", "critical"}, SerialPortWrite(text, kind)
        PROVE  CursorInv'
    <2>1. PICK enabled \in BOOLEAN :
            /\ MayCall(enabled)
            /\ calls' = Append(calls, Frame(kind, "next", text, enabled, << >>))
            /\ interrupts' = (enabled /\ port # "framebuffer")
            /\ fb' = [fb EXCEPT !.yellow = (fb.yellow \/ kind = "critical")]
      BY <1>6 DEF SerialPortWrite
    <2>2. fb'.x = fb.x /\ fb'.y = fb.y /\ fb'.glyphs = fb.glyphs /\ ~interrupts'
      BY <1>1, <2>1 DEF Consoles
    <2>3. calls = << >> \/ interrupts
      BY <2>1, Made
    <2>4. fb.x < Columns /\ (fb.y >= LastLine => fb.y = LastLine /\ Doing(Checks))
      <3>1. CASE calls = << >>
        <4>1. Len(calls) = 0 /\ ~Doing(Checks) /\ ~Doing(LineEnds)
          BY <3>1 DEF Doing
        <4> QED BY <1>3, <1>5, <4>1 DEF Interrupting
      <3>2. CASE interrupts
        BY <1>1, <1>2, <1>3, <3>2, Screen DEF Interrupting
      <3> QED BY <2>3, <3>1, <3>2
    <2>5. /\ Len(calls') = Len(calls) + 1
          /\ calls # << >> => calls'[Len(calls)] = Top
      BY <1>1, <2>1 DEF Top
    <2>6. Doing(Checks) => Len(calls') > 1 /\ calls'[Len(calls') - 1].pc \in Checks
      BY <1>1, <2>5 DEF Doing
    <2> QED BY <1>1, <1>2, <2>2, <2>4, <2>6, Screen DEF CursorInv, GlyphsOnScreen
  <1>7. CASE SerialPortInitialize
    <2>1. fb'.x = 0 /\ fb'.y = 0 /\ fb'.glyphs = fb.glyphs
      BY <1>1, <1>7 DEF SerialPortInitialize, Consoles
    <2> QED BY <1>2, <2>1, Screen, Pages DEF CursorInv, GlyphsOnScreen, SCALE_FACTOR
  <1>8. CASE Return
    <2>1. Top.pc = "next" /\ fb'.x = fb.x /\ fb'.y = fb.y /\ fb'.glyphs = fb.glyphs
      BY <1>1, <1>8 DEF Return, Consoles
    <2>2. ~Doing(Checks) /\ ~Doing(LineEnds)
      BY <2>1 DEF Doing, Checks, LineEnds
    <2>3. Interrupting => fb'.y = LastLine /\ (Doing(Checks))'
      BY <1>1, <1>8, <2>1, TypeReturn DEF Doing, Interrupting, Checks
    <2> QED BY <1>1, <1>2, <1>4, <1>5, <2>1, <2>2, <2>3, Screen DEF CursorInv, GlyphsOnScreen
  \* A call goes on.
  <1>9. ASSUME calls' # << >>, Len(calls') = Len(calls),
               Len(calls) > 1 => calls'[Len(calls) - 1] = calls[Len(calls) - 1],
               ~interrupts => ~interrupts',
               fb'.x < Columns, fb'.y = fb.y, ~Doing(Checks), GlyphsOnScreen'
        PROVE  CursorInv'
    <2>1. fb'.x # Columns
      BY <1>9, Screen, TypeStep DEF TypeOK, Consoles
    <2>2. fb'.x <= Columns /\ fb'.x \in Nat
      BY <1>9, Screen, TypeStep DEF TypeOK, Consoles
    <2>3. Interrupting => fb'.y = LastLine /\ ~interrupts' /\ Len(calls') > 1
                          /\ calls'[Len(calls') - 1].pc \in Checks
      BY <1>9 DEF Interrupting
    <2> QED BY <1>1, <1>2, <1>4, <1>9, <2>1, <2>2, <2>3 DEF CursorInv
  <1>10. CASE NextCharacter
    <2>1. ~Doing(Checks) /\ ~Doing(LineEnds) /\ UNCHANGED <<fb, interrupts>>
      BY <1>10 DEF NextCharacter, Doing, Checks, LineEnds
    <2> QED BY <1>2, <1>5, <1>9, <1>10, <2>1, TypeNextCharacter DEF GlyphsOnScreen
  <1>11. CASE Paint
    <2>1. ~Doing(Checks) /\ ~Doing(LineEnds) /\ interrupts' = interrupts
      BY <1>11 DEF Paint, At, Doing, Checks, LineEnds
    <2>2. fb' \in {fb, [fb EXCEPT !.x = 0]}
      BY <1>11 DEF Paint
    <2>3. fb'.x \in {fb.x, 0} /\ fb'.y = fb.y /\ fb'.glyphs = fb.glyphs
      BY <1>1, <2>2 DEF Consoles
    <2> QED BY <1>2, <1>5, <1>9, <1>11, <2>1, <2>3, Screen, TypeConsole DEF GlyphsOnScreen
  <1>12. CASE Draw
    <2>1. ~Doing(Checks) /\ ~Doing(LineEnds)
      BY <1>12 DEF Draw, At, Doing, Checks, LineEnds
    <2>2. /\ fb'.x = fb.x + 1 /\ fb'.y = fb.y
          /\ fb'.glyphs = fb.glyphs \cup {<<fb.x, fb.y>>}
      BY <1>1, <1>12 DEF Draw, Consoles
    <2>3. fb.x < Columns /\ fb.y <= LastLine
      BY <1>1, <1>4, <1>5, <2>1, Pages DEF Interrupting
    <2>4. GlyphsOnScreen'
      BY <1>1, <1>2, <2>2, <2>3, Screen, Pages DEF GlyphsOnScreen
    <2>5. /\ calls' # << >> /\ Len(calls') = Len(calls)
          /\ Len(calls) > 1 => calls'[Len(calls) - 1] = calls[Len(calls) - 1]
      BY <1>12, TypeConsole
    <2>6. CASE LineFull(fb.x + 1)
      <3>1. ~interrupts' /\ Become([Top EXCEPT !.pc = "newline", !.intstate = interrupts])
        BY <1>12, <2>6 DEF Draw
      <3>2. Top' = [Top EXCEPT !.pc = "newline", !.intstate = interrupts] /\ Top \in Frames
        BY <1>12, <3>1, TypeConsole, TopTyped, BecomeTop
      <3>3. Doing(LineEnds)'
        BY <2>5, <3>2 DEF Doing, Frames, LineEnds
      <3>4. fb'.x = Columns
        BY <1>1, <2>2, <2>3, <2>6, Screen
      <3>5. Interrupting => fb'.y = LastLine /\ Len(calls') > 1 /\ calls'[Len(calls') - 1].pc \in Checks
        BY <2>2, <2>5 DEF Interrupting
      <3> QED BY <1>1, <1>2, <1>4, <2>1, <2>2, <2>4, <3>1, <3>3, <3>4, <3>5, Screen DEF CursorInv
    <2>7. CASE ~LineFull(fb.x + 1)
      <3>1. interrupts' = interrupts /\ fb'.x < Columns
        BY <1>1, <1>12, <2>2, <2>7, Screen DEF Draw
      <3> QED BY <1>9, <2>1, <2>2, <2>4, <2>5, <3>1
    <2> QED BY <2>6, <2>7
  <1>13. CASE NewLine
    <2>1. /\ Doing(LineEnds) /\ ~Doing(Checks) /\ interrupts' = interrupts /\ Goto("column")
          /\ calls # << >>
      BY <1>13 DEF NewLine, At, Doing, Checks, LineEnds
    <2>2. fb'.x = fb.x /\ fb'.y = fb.y + SCALE_FACTOR /\ fb'.glyphs = fb.glyphs
      BY <1>1, <1>13 DEF NewLine, Consoles
    <2>3. (Doing(Checks))' /\ (Doing(LineEnds))'
      <3>1. Top' = [Top EXCEPT !.pc = "column"] /\ Top \in Frames /\ calls' # << >>
        BY <1>13, <2>1, BecomeTop, TopTyped, TypeConsole DEF Goto
      <3> QED BY <3>1 DEF Doing, Checks, LineEnds, Frames
    <2>4. fb.y <= LastLine /\ (fb.y = LastLine => ~interrupts)
      BY <1>1, <1>4, <2>1, Pages DEF Interrupting
    <2>5. fb'.y % SCALE_FACTOR = 0 /\ (fb'.y >= LastLine => fb'.y \in {LastLine, LastLine + SCALE_FACTOR})
          /\ (fb'.y > LastLine => fb.y = LastLine)
      <3>1. \A y, l \in Nat : y % 2 = 0 /\ l % 2 = 0 /\ y <= l =>
              y = l \/ y + 2 = l \/ y + 2 < l
        OBVIOUS
      <3>2. (fb.y + 2) % 2 = 0
        BY <1>1, <1>2 DEF SCALE_FACTOR
      <3>3. fb.y % 2 = 0 /\ LastLine % 2 = 0 /\ fb'.y = fb.y + 2 /\ LastLine \in Nat
        BY <1>2, <2>2, Pages DEF SCALE_FACTOR
      <3>4. fb.y = LastLine \/ fb.y + 2 = LastLine \/ fb.y + 2 < LastLine
        BY <1>1, <2>4, <3>1, <3>3
      <3> QED BY <1>1, <3>2, <3>3, <3>4 DEF SCALE_FACTOR
    <2> QED BY <1>1, <1>2, <2>1, <2>2, <2>3, <2>4, <2>5, Screen, Pages
            DEF CursorInv, GlyphsOnScreen, SCALE_FACTOR
  <1>14. CASE CheckPage
    <2>1. Doing({"check"}) /\ ~Doing(LineEnds)
      BY <1>14 DEF CheckPage, At, Doing, LineEnds
    <2>2. CASE PageFull(fb.y)
      <3>1. /\ Goto("top") /\ interrupts' = interrupts /\ fb'.x = fb.x /\ fb'.y = fb.y
            /\ fb'.glyphs = {}
        BY <1>1, <1>14, <2>2 DEF CheckPage, Consoles
      <3>2. (Doing(Checks))'
        <4>1. Top' = [Top EXCEPT !.pc = "top"] /\ Top \in Frames /\ calls' # << >>
          BY <1>14, <3>1, BecomeTop, TopTyped, TypeConsole DEF Goto
        <4> QED BY <4>1 DEF Doing, Checks, Frames
      <3> QED BY <1>1, <1>2, <1>3, <1>5, <2>1, <3>1, <3>2, Screen
              DEF CursorInv, GlyphsOnScreen, Interrupting
    <2>3. CASE ~PageFull(fb.y)
      <3>1. fb' = fb /\ fb.y < LastLine
        BY <1>1, <1>2, <1>14, <2>3, Pages DEF CheckPage
      <3> QED BY <1>1, <1>2, <1>5, <2>1, <3>1, Screen, Pages DEF CursorInv, GlyphsOnScreen
    <2> QED BY <2>2, <2>3
  <1>15. CASE ResetFb
    <2>1. ~Doing(LineEnds) /\ fb'.x = fb.x /\ fb'.y = 0 /\ fb'.glyphs = fb.glyphs
      BY <1>1, <1>15 DEF ResetFb, At, Doing, LineEnds, Consoles, TopLine
    <2> QED BY <1>1, <1>2, <1>5, <2>1, Screen, Pages DEF CursorInv, GlyphsOnScreen, SCALE_FACTOR
  <1>16. CASE UNCHANGED vars
    BY <1>16 DEF vars, CursorInv, GlyphsOnScreen, Doing, Top
  <1>17. ~(\/ SerialPortRead \/ \E ask \in Settings : SerialPortSetAttributes(ask)
           \/ LoadOffset \/ mem_putchar \/ WrapOffset \/ TestFifo \/ UartWrite \/ UartRead \/ ReadLineControl
           \/ UartInitializePort \/ Transmit \/ Receive)
    BY TypeOthers DEF SerialPortRead, SerialPortSetAttributes, Transmit, Receive
  <1>18. CASE FirstColumn
    <2>1. /\ interrupts' = interrupts /\ Goto("check")
          /\ fb'.x = 0 /\ fb'.y = fb.y /\ fb'.glyphs = fb.glyphs
      BY <1>1, <1>18 DEF FirstColumn, Consoles
    <2>2. (Doing(Checks))'
      <3>1. Top' = [Top EXCEPT !.pc = "check"] /\ Top \in Frames /\ calls' # << >>
        BY <1>18, <2>1, BecomeTop, TopTyped, TypeConsole DEF Goto
      <3> QED BY <3>1 DEF Doing, Checks, Frames
    <2> QED BY <1>1, <1>2, <1>3, <2>1, <2>2, Screen DEF CursorInv, GlyphsOnScreen, Interrupting
  <1> QED BY <1>6, <1>7, <1>8, <1>10, <1>11, <1>12, <1>13, <1>14, <1>15, <1>16, <1>17, <1>18
          DEF Next, Calling, Settings, Idle, Step

(***************************************************************************)
(* The log.                                                                *)
(***************************************************************************)
\* An index in the area, counted from a place, wraps at most once.
LEMMA Wrapping ==
  ASSUME NEW a \in Nat, a < 2 * size
  PROVE  a % size = IF a < size THEN a ELSE a - size
  <1> DEFINE q == a \div size
             r == a % size
  <1>1. a = size * q + r /\ q \in Nat /\ r \in 0 .. size - 1
    BY SizeTyped
  <1> HIDE DEF q, r
  <1>2. CASE q = 0
    BY <1>1, <1>2, SizeTyped DEF r
  <1>3. CASE q = 1
    BY <1>1, <1>3, SizeTyped DEF r
  <1>4. ASSUME q >= 2 PROVE FALSE
    <2>1. size * q = size * (q - 2) + 2 * size /\ size * (q - 2) \in Nat
      BY <1>1, <1>4, SizeTyped
    <2> QED BY <1>1, <2>1, SizeTyped
  <1> QED BY <1>1, <1>2, <1>3, <1>4

\* The places of the tail as offsets before the next place, n of them.
LEMMA Places ==
  ASSUME NEW offset \in 0 .. size, NEW n \in 0 .. size, NEW i \in 1 .. n
  PROVE  LET place == (offset + size - n + i - 1) % size
         IN /\ place \in 0 .. size - 1
            /\ (n < size \/ i > 1) => place # offset
            /\ place = LET back == offset - n + i - 1 IN IF back < 0 THEN back + size ELSE back
  <1> DEFINE a == offset + size - n + i - 1
  <1>1. a \in Nat /\ a < 2 * size
    BY SizeTyped
  <1>2. a % size = IF a < size THEN a ELSE a - size
    BY <1>1, Wrapping
  <1> QED BY <1>1, <1>2, SizeTyped

LEMMA LogWritten ==
  ASSUME TypeOK, LogInv, mem_putchar, ~overlapped
  PROVE  LogInv'
  <1> DEFINE n == Len(written)
             c == Top.ch
             offset == log.offset
             next == offset + 1
             s == Append(written, c)
             Spot(m, i) == (next + size - m + i - 1) % size
  <1>1. /\ calls # << >> /\ Top \in Frames /\ c \in Nat /\ written \in Seq(Nat) /\ n \in 0 .. size
        /\ log.area \in [0 .. size - 1 -> Nat] /\ offset \in 0 .. size - 1 /\ Top.local = offset
    <2>1. calls # << >> /\ Doing({"store"})
      BY DEF mem_putchar, At, Doing
    <2>2. Top \in Frames
      BY <2>1, TopTyped
    <2>3. ~Doing({"wrap"})
      BY DEF mem_putchar, At, Doing
    <2> QED BY <2>1, <2>2, <2>3, SizeTyped DEF TypeOK, Logs, LogInv, Frames
  <1>2. /\ log'.area = [log.area EXCEPT ![offset] = c] /\ log'.offset = next
        /\ written' = LastOf(s, size)
    BY <1>1 DEF mem_putchar
  <1>3. next \in 0 .. size /\ next = offset + 1
    BY <1>1, SizeTyped
  <1>4. /\ s \in Seq(Nat) /\ Len(s) = n + 1 /\ s[n + 1] = c
        /\ \A i \in 1 .. n : s[i] = written[i]
    BY <1>1
  <1>5. \A i \in 1 .. n : log.area[Place(n, i)] = written[i]
    BY DEF LogInv
  <1> HIDE DEF n, c, next, s, Spot
  \* The area from the new offset on holds the characters of s from k + 1 on.
  <1>6. ASSUME NEW k \in {0, 1}, NEW m \in 0 .. size, m + k = n + 1, k = 1 => n = size,
               NEW i \in 1 .. m
        PROVE  log'.area[Spot(m, i)] = s[i + k]
    <2> DEFINE place == Spot(m, i)
    <2>1. place = LET back == next - m + i - 1 IN IF back < 0 THEN back + size ELSE back
      BY <1>1, <1>3, <1>6, Places DEF Spot
    <2>2. place = IF next - m + i - 1 < 0 THEN next - m + i - 1 + size ELSE next - m + i - 1
      BY <2>1
    <2> HIDE DEF place
    <2>3. /\ size \in Nat /\ size > 0 /\ n \in Nat /\ n <= size /\ k \in Int /\ i \in Int
          /\ offset \in Nat /\ offset < size /\ (k = 0 \/ (k = 1 /\ n = size))
      BY <1>1, <1>6, SizeTyped
    <2>4. CASE i + k = n + 1
      <3>1. place = offset
        BY <1>3, <1>6, <2>2, <2>3, <2>4
      <3> QED BY <1>1, <1>2, <1>4, <2>4, <3>1 DEF place
    <2>5. CASE i + k <= n
      <3>1. i + k \in 1 .. n /\ (n < size \/ i + k > 1)
        BY <1>6, <2>3, <2>5
      <3>2. /\ Place(n, i + k) \in 0 .. size - 1 /\ Place(n, i + k) # offset
            /\ Place(n, i + k) = LET back == offset - n + (i + k) - 1
                                 IN IF back < 0 THEN back + size ELSE back
        <4>1. offset \in 0 .. size
          BY <2>3
        <4> QED BY <1>1, <3>1, <4>1, Places DEF Place
      <3>3. place = Place(n, i + k)
        BY <1>3, <1>6, <2>2, <2>3, <2>5, <3>2
      <3>4. log'.area[place] = log.area[place]
        BY <1>1, <1>2, <3>2, <3>3
      <3> QED BY <1>4, <1>5, <3>1, <3>3, <3>4 DEF place
    <2> QED BY <1>6, <2>3, <2>4, <2>5
  <1>7. ~(Doing({"store"}))' /\ (Doing({"wrap"}))'
    <2>1. Goto("wrap") /\ Become([Top EXCEPT !.pc = "wrap"])
      BY DEF mem_putchar, Goto
    <2>2. Top' = [Top EXCEPT !.pc = "wrap"] /\ calls' # << >>
      BY <1>1, <2>1, BecomeTop, TypeOthers
    <2> QED BY <1>1, <2>2 DEF Doing, Frames
  <1>8. CASE n < size
    <2>1. written' = s /\ Len(written') = n + 1
      BY <1>1, <1>2, <1>4, <1>8, SizeTyped DEF LastOf
    <2>2. \A i \in 1 .. n + 1 : log'.area[Spot(n + 1, i)] = s[i]
      <3>1. n + 1 \in 0 .. size /\ n + 1 + 0 = n + 1
        BY <1>1, <1>8, SizeTyped
      <3>2. \A i \in 1 .. n + 1 : i + 0 = i
        OBVIOUS
      <3> QED BY <1>6, <3>1, <3>2
    <2> QED BY <1>1, <1>2, <1>7, <1>8, <2>1, <2>2, <1>3, SizeTyped DEF LogInv, Place, Spot
  <1>9. CASE n = size
    <2>1. written' = SubSeq(s, 2, n + 1)
      BY <1>1, <1>2, <1>4, <1>9, SizeTyped DEF LastOf
    <2>2. Len(written') = n /\ \A i \in 1 .. n : written'[i] = s[i + 1]
      <3>1. \A i \in 2 .. n + 1 : s[i] \in Nat
        BY <1>1, <1>4
      <3> QED BY <1>1, <2>1, <3>1, SubSeqProperties
    <2>3. \A i \in 1 .. n : log'.area[Spot(n, i)] = s[i + 1]
      <3>1. n \in 0 .. size
        BY <1>1
      <3> QED BY <1>6, <1>9, <3>1
    <2>4. \A m, i : (Place(m, i))' = Spot(m, i)
      BY <1>2 DEF Place, Spot
    <2>5. Len(written') = n /\ n <= size
      BY <1>1, <2>2
    <2>6. \A i \in 1 .. Len(written') : log'.area[Spot(Len(written'), i)] = written'[i]
      BY <2>2, <2>3, <2>5
    <2>7. \A i \in 1 .. Len(written') : log'.area[(Place(Len(written), i))'] = written'[i]
      BY <2>4, <2>6
    <2> QED BY <1>2, <1>3, <1>7, <2>5, <2>7 DEF LogInv
  <1> QED BY <1>1, <1>8, <1>9, SizeTyped

\* The wrap: the places before the end of the area are those before its beginning.
LEMMA LogWrapped ==
  ASSUME TypeOK, LogInv, WrapOffset, ~overlapped
  PROVE  LogInv'
  <1> DEFINE n == Len(written)
             offset == log.offset
             next == Wrapped(offset)
             Spot(o, i) == (o + size - n + i - 1) % size
  <1>1. /\ calls # << >> /\ Top \in Frames /\ n \in 0 .. size /\ offset \in 0 .. size
        /\ \A i \in 1 .. n : log.area[Spot(offset, i)] = written[i]
    <2>1. calls # << >>
      BY DEF WrapOffset, At
    <2>2. n \in Nat /\ offset \in Nat
      BY DEF TypeOK, Logs
    <2> QED BY <2>1, <2>2, TopTyped, SizeTyped DEF LogInv, Place
  <1>2. log'.area = log.area /\ log'.offset = next /\ written' = written
    BY DEF WrapOffset, TypeOK, Logs
  <1>3. next \in 0 .. size - 1 /\ next = IF offset = size THEN 0 ELSE offset
    BY <1>1, SizeTyped DEF Wrapped
  <1> HIDE DEF n, offset, next
  <1>4. ASSUME NEW i \in 1 .. n PROVE Spot(next, i) = Spot(offset, i)
    <2>1. CASE offset = size
      <3>1. 0 \in 0 .. size /\ size \in 0 .. size /\ size \in Nat
        BY SizeTyped
      <3>2. Spot(0, i) = LET back == 0 - n + i - 1 IN IF back < 0 THEN back + size ELSE back
        BY <1>1, <3>1, Places
      <3>3. Spot(size, i) = LET back == size - n + i - 1 IN IF back < 0 THEN back + size ELSE back
        BY <1>1, <3>1, Places
      <3> HIDE DEF Spot
      <3>4. n \in Nat /\ n <= size /\ i \in Nat /\ i >= 1 /\ i <= n
        BY <1>1, <3>1
      <3>5. Spot(0, i) = Spot(size, i)
        BY <3>1, <3>2, <3>3, <3>4
      <3> QED BY <1>3, <2>1, <3>5
    <2> QED BY <1>3, <2>1
  <1>5. ~(Doing({"store"}))'
    <2>1. Goto("next") /\ Become([Top EXCEPT !.pc = "next"])
      BY DEF WrapOffset, Goto
    <2>2. Top' = [Top EXCEPT !.pc = "next"]
      BY <1>1, <2>1, BecomeTop
    <2> QED BY <1>1, <2>2 DEF Doing, Frames
  <1>6. \A i \in 1 .. n : (Place(n, i))' = Spot(next, i)
    BY <1>2 DEF Place, n
  <1>7. \A i \in 1 .. n : log'.area[(Place(n, i))'] = written'[i]
    BY <1>1, <1>2, <1>4, <1>6
  <1>8. Len(written') = n /\ n <= size /\ log'.offset <= size /\ log'.offset # size
    BY <1>1, <1>2, <1>3, SizeTyped DEF n
  <1>9. \A i \in 1 .. Len(written') : log'.area[(Place(Len(written), i))'] = written'[i]
    BY <1>2, <1>7, <1>8 DEF n
  <1> QED BY <1>5, <1>8, <1>9 DEF LogInv

LEMMA LogStep ==
  ASSUME TypeOK, LogInv, UartInv, [Next]_vars
  PROVE  LogInv'
  <1>1. CASE overlapped'
    BY <1>1 DEF LogInv
  <1>2. ASSUME ~overlapped', UNCHANGED <<log, written>>, ~(Doing({"store"}))', ~Doing({"wrap"})
        PROVE  LogInv'
    BY <1>2, Kept DEF LogInv, Place
  <1>3. ASSUME NEW text, NEW kind, SerialPortWrite(text, kind), ~overlapped'
        PROVE  LogInv'
    <2>1. PICK enabled \in BOOLEAN :
            /\ MayCall(enabled)
            /\ calls' = Append(calls, Frame(kind, "next", text, enabled, << >>))
      BY <1>3 DEF SerialPortWrite
    <2>2. calls = << >>
      BY <1>3, <2>1, Made
    <2>3. Top' = Frame(kind, "next", text, enabled, << >>)
      BY <2>1, <2>2 DEF Top
    <2> QED BY <1>2, <1>3, <2>2, <2>3 DEF SerialPortWrite, Doing, Frame
  <1>4. CASE SerialPortRead \/ \E ask \in Settings : SerialPortSetAttributes(ask)
    <2>1. UNCHANGED <<log, written>> /\ Len(calls') = 1 /\ calls'[1].pc \in {"read", "reset"}
      <3>1. CASE SerialPortRead
        BY <3>1 DEF SerialPortRead, Frame
      <3>2. ASSUME NEW ask, SerialPortSetAttributes(ask)
            PROVE  UNCHANGED <<log, written>> /\ Len(calls') = 1 /\ calls'[1].pc \in {"read", "reset"}
        BY <3>2 DEF SerialPortSetAttributes, Frame
      <3> QED BY <1>4, <3>1, <3>2
    <2>2. calls = << >>
      BY <1>4 DEF SerialPortRead, SerialPortSetAttributes
    <2> QED BY <1>1, <1>2, <2>1, <2>2 DEF Doing, Top
  <1>5. CASE Return
    <2>1. ~overlapped' => calls' = << >>
      <3>1. ~overlapped' => Len(calls) <= 1
        BY Kept DEF UartInv
      <3> QED BY <1>5, <3>1, TypeReturn DEF TypeOK
    <2> QED BY <1>1, <1>2, <1>5, <2>1 DEF Return, Doing
  <1>6. CASE NextCharacter
    <2>1. Top'.pc # "store"
      BY <1>6, TypeNextCharacter
    <2> QED BY <1>1, <1>2, <1>6, <2>1 DEF NextCharacter, Doing
  <1>7. CASE Paint \/ Draw \/ NewLine \/ FirstColumn \/ CheckPage \/ ResetFb
    <2>1. Top'.pc # "store" /\ Top.pc # "wrap"
      BY <1>7, TypeConsole, TopTyped, NextTopTyped DEF Fits, FrameBufferLabels
    <2> QED BY <1>1, <1>2, <1>7, <2>1 DEF Paint, Draw, NewLine, FirstColumn, CheckPage, ResetFb, Doing
  <1>8. CASE LoadOffset
    <2>1. /\ Become([Top EXCEPT !.pc = "store", !.local = log.offset]) /\ UNCHANGED <<log, written, overlapped>>
          /\ calls # << >> /\ Top \in Frames
      BY <1>8, TopTyped DEF LoadOffset, At
    <2>2. Top' = [Top EXCEPT !.pc = "store", !.local = log.offset]
      BY <2>1, BecomeTop
    <2>3. Top'.local = log'.offset
      BY <2>1, <2>2 DEF Frames
    <2>4. ~Doing({"wrap"})
      BY <1>8 DEF LoadOffset, At, Doing
    <2> QED BY <2>1, <2>3, <2>4 DEF LogInv, Place
  <1>9. CASE mem_putchar
    BY <1>1, <1>9, Kept, LogWritten
  <1>10. CASE TestFifo \/ UartWrite \/ UartRead \/ ReadLineControl \/ UartInitializePort
    <2>1. UNCHANGED <<log, written>> /\ port = "uart" /\ port' = port /\ TypeOK' /\ calls' # << >>
      BY <1>10, TypeOthers DEF TestFifo, UartWrite, UartRead, ReadLineControl, UartInitializePort, At
    <2>2. Top'.pc # "store" /\ ~Doing({"wrap"})
      <3>1. (Fits(port, Top))' /\ (calls # << >> => Fits(port, Top))
        BY <2>1, NextTopTyped, TopTyped
      <3> QED BY <2>1, <3>1 DEF Fits, WriteLabels, AttributeLabels, DivisorLabels, Doing
    <2> QED BY <1>1, <1>2, <2>1, <2>2 DEF Doing
  <1>11. CASE SerialPortInitialize \/ Transmit \/ Receive \/ UNCHANGED vars
    <2>1. UNCHANGED <<log, written, calls, overlapped>>
      BY <1>11 DEF SerialPortInitialize, Transmit, Receive, vars
    <2> QED BY <2>1 DEF LogInv, Place, Doing, Top
  <1>12. CASE WrapOffset
    BY <1>1, <1>12, Kept, LogWrapped
  <1> QED BY <1>1, <1>3, <1>4, <1>5, <1>6, <1>7, <1>8, <1>9, <1>10, <1>11, <1>12
          DEF Next, Calling, Settings, Idle, Step

(***************************************************************************)
(* The UART.                                                               *)
(***************************************************************************)
\* The two bytes of the divisor are the rounded quotient of the clock and the rate.
LEMMA Divisor ==
  ASSUME NEW ask \in Settings, NEW u,
         u.dll = Rate(ask) % 256, u.dlh = (Rate(ask) \div 256) % 256
  PROVE  HasDivisor(u, ask)
  <1> DEFINE r == Rate(ask)
             b == ask.baud
  <1>1. b \in Nat /\ b >= 23 /\ r = 1500000 \div b /\ r \in Nat
    BY SettingsTyped DEF Rate, UartClkInHz
  <1> HIDE DEF r, b
  <1>2. b * r <= 1500000 /\ 1500000 < b * r + b
    BY <1>1
  <1>3. b * r >= 23 * r
    <2>1. b * r = 23 * r + (b - 23) * r /\ (b - 23) * r \in Nat
      BY <1>1
    <2> QED BY <1>1, <2>1
  <1>4. r < 65536
    BY <1>1, <1>2, <1>3
  <1>5. ((r \div 256) % 256) * 256 + (r % 256) = r
    BY <1>1, <1>4
  <1>6. r * 16 * b = 16 * (b * r) /\ (r + 1) * 16 * b = 16 * (b * r + b)
    BY <1>1
  <1>7. r * 16 * b <= 24000000 /\ (r + 1) * 16 * b > 24000000
    BY <1>1, <1>2, <1>6
  <1> QED BY <1>5, <1>7 DEF HasDivisor, UartClkInHz, r, b

\* The value for LCR has the word length asked for, and at least the parity and stop bits.
LEMMA Line ==
  ASSUME NEW lcr, NEW ask, Valid(ask), LCR_DLA_EN \notin lcr
  PROVE  LCR_DLA_EN \notin LineControl(lcr, ask) /\ HasLine(LineControl(lcr, ask), ask)
  <1>1. WordLength(ask.bits) \subseteq {0, 1}
    BY DEF Valid, WordLength
  <1> QED BY <1>1 DEF LineControl, HasLine, LCR_DLA_EN

\* The latch bit is no part of the line.
LEMMA Latch ==
  ASSUME NEW lcr, NEW ask
  PROVE  /\ HasLine(lcr \cup {LCR_DLA_EN}, ask) <=> HasLine(lcr, ask)
         /\ HasLine(lcr \ {LCR_DLA_EN}, ask) <=> HasLine(lcr, ask)
  BY DEF HasLine, LCR_DLA_EN

\* The steps of UartInitializePort, uninterrupted.
LEMMA UartInitialized ==
  ASSUME TypeOK, UartInv, UartInitializePort, ~overlapped
  PROVE  UartInv'
  <1>1. /\ uart \in Uarts /\ uart' \in Uarts /\ calls # << >> /\ Top \in Frames /\ Top.ask \in Settings
        /\ calls' # << >> /\ Len(calls') = Len(calls) /\ overlapped' = overlapped
    BY TopTyped, InitializedTyped, TypeOthers DEF TypeOK, UartInitializePort
  <1>2. /\ Len(calls) <= 1 /\ uart.lost \subseteq {"reset"}
        /\ LCR_DLA_EN \in uart.lcr => Doing({"dll", "dlh", "undlab"})
        /\ Doing({"putlcr"}) =>
             Valid(Top.ask) /\ LCR_DLA_EN \notin Top.lcr /\ HasLine(Top.lcr, Top.ask)
        /\ Doing(DivisorLabels) => Valid(Top.ask) /\ HasLine(uart.lcr, Top.ask)
        /\ Doing({"dlh", "undlab"}) => uart.dll = Rate(Top.ask) % 256
        /\ Doing({"undlab"}) => uart.dlh = (Rate(Top.ask) \div 256) % 256
        /\ ~Doing(DivisorLabels) /\ uart.set # << >> =>
             HasLine(uart.lcr, uart.set[1]) /\ HasDivisor(uart, uart.set[1])
    BY DEF UartInv
  <1>3. ASSUME NEW label, NEW next, NEW u, Access(label, next, u)
        PROVE  /\ uart' = u /\ Top.pc = label /\ Top'.pc = next
               /\ Top'.ask = Top.ask /\ Top'.lcr = Top.lcr
               /\ \A labels : /\ Doing(labels) <=> label \in labels
                              /\ (Doing(labels))' <=> next \in labels
    <2>1. Top' = [Top EXCEPT !.pc = next]
      BY <1>1, <1>3, BecomeTop DEF Access, Goto
    <2>2. Top'.pc = next /\ Top'.ask = Top.ask /\ Top'.lcr = Top.lcr
      BY <1>1, <2>1 DEF Frames
    <2> QED BY <1>1, <1>3, <2>2 DEF Access, Doing
  <1>4. /\ FifosReset.lcr = uart.lcr /\ FifosReset.lost \subseteq {"reset"}
         /\ FifosReset.dll = uart.dll /\ FifosReset.dlh = uart.dlh /\ FifosReset.set = uart.set
         /\ LET u == [FifosReset EXCEPT !.lcr = {}, !.dll = 0, !.dlh = 0, !.set = << >>]
            IN u.lcr = {} /\ u.lost \subseteq {"reset"} /\ u.set = << >>
    <2> DEFINE lost == IF uart.tx > 0 THEN uart.lost \cup {"reset"} ELSE uart.lost
    <2>1. lost \subseteq {"reset"}
      BY <1>2
    <2>2. FifosReset = [uart EXCEPT !.tx = 0, !.rx = 0, !.lost = lost]
      BY DEF FifosReset
    <2> HIDE DEF lost
    <2> QED BY <1>1, <2>1, <2>2 DEF Uarts
  <1>5. CASE Access("reset", "lcr", FifosReset)
    <2>1. /\ uart'.lcr = uart.lcr /\ uart'.lost \subseteq {"reset"} /\ uart'.dll = uart.dll
          /\ uart'.dlh = uart.dlh /\ uart'.set = uart.set
      <3>1. uart' = FifosReset
        BY <1>3, <1>5
      <3> QED BY <1>4, <3>1
    <2>2. \A labels : /\ Doing(labels) <=> "reset" \in labels
                      /\ (Doing(labels))' <=> "lcr" \in labels
      BY <1>3, <1>5
    <2> QED BY <1>1, <1>2, <2>1, <2>2 DEF UartInv, DivisorLabels, HasDivisor
  <1>6. CASE Access("reset", "lcr", [FifosReset EXCEPT !.lcr = {}, !.dll = 0, !.dlh = 0, !.set = << >>])
    <2>1. uart'.lcr = {} /\ uart'.lost \subseteq {"reset"} /\ uart'.set = << >>
      BY <1>3, <1>6, <1>4
    <2>2. \A labels : (Doing(labels))' <=> "lcr" \in labels
      BY <1>3, <1>6
    <2> QED BY <1>1, <1>2, <2>1, <2>2 DEF UartInv, DivisorLabels
  <1>7. CASE Access("putlcr", "dlab", [uart EXCEPT !.lcr = Top.lcr])
    <2>1. uart'.lcr = Top.lcr /\ uart'.lost = uart.lost /\ Top'.ask = Top.ask
      BY <1>1, <1>3, <1>7 DEF Uarts
    <2>2. \A labels : /\ Doing(labels) <=> "putlcr" \in labels
                      /\ (Doing(labels))' <=> "dlab" \in labels
      BY <1>3, <1>7
    <2> QED BY <1>1, <1>2, <2>1, <2>2 DEF UartInv, DivisorLabels
  <1>8. CASE Access("dlab", "dll", [uart EXCEPT !.lcr = @ \cup {LCR_DLA_EN}])
    <2>1. /\ uart'.lcr = uart.lcr \cup {LCR_DLA_EN} /\ uart'.lost = uart.lost /\ Top'.ask = Top.ask
      BY <1>1, <1>3, <1>8 DEF Uarts
    <2>2. \A labels : /\ Doing(labels) <=> "dlab" \in labels
                      /\ (Doing(labels))' <=> "dll" \in labels
      BY <1>3, <1>8
    <2> QED BY <1>1, <1>2, <2>1, <2>2, Latch DEF UartInv, DivisorLabels
  <1>9. CASE Access("dll", "dlh", [uart EXCEPT !.dll = Rate(Top.ask) % 256])
    <2> DEFINE low == Rate(Top.ask) % 256
    <2> HIDE DEF low
    <2>1. Access("dll", "dlh", [uart EXCEPT !.dll = low])
      BY <1>9 DEF low
    <2>2. uart'.dll = low /\ uart'.lcr = uart.lcr /\ uart'.lost = uart.lost /\ Top'.ask = Top.ask
      BY <1>1, <1>3, <2>1 DEF Uarts
    <2>3. \A labels : /\ Doing(labels) <=> "dll" \in labels
                      /\ (Doing(labels))' <=> "dlh" \in labels
      BY <1>3, <2>1
    <2>4. uart'.dll = Rate(Top'.ask) % 256
      BY <2>2 DEF low
    <2> QED BY <1>1, <1>2, <2>2, <2>3, <2>4 DEF UartInv, DivisorLabels
  <1>10. CASE Access("dlh", "undlab", [uart EXCEPT !.dlh = (Rate(Top.ask) \div 256) % 256])
    <2> DEFINE high == (Rate(Top.ask) \div 256) % 256
    <2> HIDE DEF high
    <2>1. Access("dlh", "undlab", [uart EXCEPT !.dlh = high])
      BY <1>10 DEF high
    <2>2. /\ uart'.dlh = high /\ uart'.dll = uart.dll /\ uart'.lcr = uart.lcr /\ uart'.lost = uart.lost
          /\ Top'.ask = Top.ask
      BY <1>1, <1>3, <2>1 DEF Uarts
    <2>3. \A labels : /\ Doing(labels) <=> "dlh" \in labels
                      /\ (Doing(labels))' <=> "undlab" \in labels
      BY <1>3, <2>1
    <2>4. uart'.dlh = (Rate(Top'.ask) \div 256) % 256 /\ uart'.dll = Rate(Top'.ask) % 256
      BY <1>2, <2>2, <2>3 DEF high
    <2> QED BY <1>1, <1>2, <2>2, <2>3, <2>4 DEF UartInv, DivisorLabels
  <1>11. CASE Access("undlab", "next", [uart EXCEPT !.lcr = @ \ {LCR_DLA_EN}, !.set = <<Top.ask>>])
    <2>1. /\ uart'.lcr = uart.lcr \ {LCR_DLA_EN} /\ uart'.set = <<Top.ask>> /\ uart'.lost = uart.lost
          /\ uart'.dll = uart.dll /\ uart'.dlh = uart.dlh
      <3> DEFINE lcr == uart.lcr \ {LCR_DLA_EN}
                 set == <<Top.ask>>
      <3>1. uart' = [uart EXCEPT !.lcr = lcr, !.set = set]
        BY <1>3, <1>11
      <3> HIDE DEF lcr, set
      <3>2. /\ uart'.lcr = lcr /\ uart'.set = set /\ uart'.lost = uart.lost
            /\ uart'.dll = uart.dll /\ uart'.dlh = uart.dlh
        BY <1>1, <3>1 DEF Uarts
      <3> QED BY <3>2 DEF lcr, set
    <2>2. \A labels : /\ Doing(labels) <=> "undlab" \in labels
                      /\ (Doing(labels))' <=> "next" \in labels
      BY <1>3, <1>11
    <2>3. HasLine(uart'.lcr, Top.ask)
      <3>1. HasLine(uart.lcr, Top.ask)
        BY <1>2, <2>2 DEF DivisorLabels
      <3> QED BY <2>1, <3>1, Latch
    <2>4. HasDivisor(uart', Top.ask)
      BY <1>1, <1>2, <2>1, <2>2, Divisor
    <2>5. uart'.set[1] = Top.ask /\ LCR_DLA_EN \notin uart'.lcr
      BY <2>1
    <2> QED BY <1>1, <1>2, <2>1, <2>2, <2>3, <2>4, <2>5 DEF UartInv, DivisorLabels
  <1> QED BY <1>5, <1>6, <1>7, <1>8, <1>9, <1>10, <1>11 DEF UartInitializePort

LEMMA UartStep ==
  ASSUME TypeOK, UartInv, [Next]_vars
  PROVE  UartInv'
  <1>1. CASE overlapped'
    BY <1>1 DEF UartInv
  <1>2. SUFFICES ASSUME ~overlapped', ~overlapped PROVE UartInv'
    BY <1>1, Kept
  <1>3. /\ calls \in Seq(PortFrames(port)) /\ uart \in Uarts /\ Len(calls) <= 1
        /\ uart.lost \subseteq {"reset"}
        /\ Doing({"put"}) => uart.tx < TxDepth
        /\ LCR_DLA_EN \in uart.lcr => Doing({"dll", "dlh", "undlab"})
        /\ ~Doing(DivisorLabels) /\ uart.set # << >> =>
             HasLine(uart.lcr, uart.set[1]) /\ HasDivisor(uart, uart.set[1])
    BY <1>2 DEF TypeOK, UartInv
  \* Outside UartInitializePort the settings stay.
  <1>4. ASSUME ~Doing(DivisorLabels), (~Doing(DivisorLabels \cup {"putlcr"}))', Len(calls') <= 1,
               uart'.lcr = uart.lcr, uart'.dll = uart.dll, uart'.dlh = uart.dlh, uart'.set = uart.set,
               uart'.lost \subseteq {"reset"}, (Doing({"put"}))' => uart'.tx < TxDepth
        PROVE  UartInv'
    BY <1>3, <1>4 DEF UartInv, Doing, DivisorLabels, HasDivisor
  <1>5. ASSUME NEW frame, calls' = Append(calls, frame), calls = << >>, uart' = uart,
               frame.pc \in {"next", "read", "reset"}
        PROVE  UartInv'
    <2>1. Top' = frame /\ Len(calls') = 1 /\ calls' # << >>
      BY <1>5 DEF Top
    <2>2. (~Doing(DivisorLabels \cup {"putlcr"}))' /\ (~Doing({"put"}))' /\ ~Doing(DivisorLabels)
      BY <1>5, <2>1 DEF Doing, DivisorLabels
    <2> QED BY <1>3, <1>4, <1>5, <2>1, <2>2
  <1>6. ASSUME NEW text, NEW kind, SerialPortWrite(text, kind)
        PROVE  UartInv'
    <2>1. PICK enabled \in BOOLEAN :
            /\ MayCall(enabled)
            /\ calls' = Append(calls, Frame(kind, "next", text, enabled, << >>))
            /\ uart' = uart
      BY <1>6 DEF SerialPortWrite
    <2>2. calls = << >>
      BY <1>2, <2>1, Made
    <2> QED BY <1>5, <2>1, <2>2 DEF Frame
  <1>7. CASE SerialPortRead
    BY <1>5, <1>7 DEF SerialPortRead, Frame
  <1>8. ASSUME NEW ask, SerialPortSetAttributes(ask) PROVE UartInv'
    BY <1>5, <1>8 DEF SerialPortSetAttributes, Frame
  \* Nothing but UartInitializePort and ReadLineControl comes to a place that matters.
  <1>9. ASSUME calls' # << >>, Len(calls') = Len(calls), UNCHANGED uart, ~Doing(DivisorLabels),
               Top'.pc \notin DivisorLabels \cup {"put", "putlcr"}
        PROVE  UartInv'
    BY <1>3, <1>4, <1>9 DEF Doing
  <1>10. CASE Return
    <2>1. calls' = << >> /\ Len(calls') = 0 /\ ~Doing(DivisorLabels) /\ uart' = uart
      BY <1>3, <1>10, TypeReturn DEF Return, Doing, DivisorLabels
    <2> QED BY <1>3, <1>4, <2>1 DEF Doing
  <1>11. CASE NextCharacter
    <2>1. Top'.pc \notin DivisorLabels \cup {"put", "putlcr"} /\ ~Doing(DivisorLabels) /\ uart' = uart
      BY <1>11, TypeNextCharacter DEF NextCharacter, Doing, DivisorLabels
    <2> QED BY <1>9, <1>11, <2>1, TypeNextCharacter
  <1>12. CASE Paint \/ Draw \/ NewLine \/ FirstColumn \/ CheckPage \/ ResetFb
    <2>1. Top'.pc \in FrameBufferLabels /\ Top.pc \in FrameBufferLabels
      BY <1>12, TypeConsole, NextTopTyped, TopTyped DEF Fits
    <2>2. Top'.pc \notin DivisorLabels \cup {"put", "putlcr"} /\ ~Doing(DivisorLabels)
      BY <2>1 DEF FrameBufferLabels, DivisorLabels, Doing
    <2>3. uart' = uart
      BY <1>12 DEF Paint, Draw, NewLine, FirstColumn, CheckPage, ResetFb
    <2> QED BY <1>9, <1>12, <2>2, <2>3, TypeConsole
  <1>13. CASE LoadOffset \/ mem_putchar \/ WrapOffset
    <2>1. uart' = uart /\ port = "memory" /\ port' = port /\ calls # << >> /\ calls' # << >> /\ TypeOK'
          /\ Len(calls') = Len(calls)
      BY <1>13, TypeOthers DEF LoadOffset, mem_putchar, WrapOffset, At
    <2>2. Top'.pc \in MemoryLabels /\ Top.pc \in MemoryLabels
      BY <2>1, NextTopTyped, TopTyped DEF Fits
    <2>3. Top'.pc \notin DivisorLabels \cup {"put", "putlcr"} /\ ~Doing(DivisorLabels)
      BY <2>2 DEF MemoryLabels, DivisorLabels, Doing
    <2> QED BY <1>9, <2>1, <2>3
  <1>14. CASE TestFifo \/ UartWrite \/ UartRead \/ ReadLineControl
    <2>1. calls # << >> /\ Top \in Frames /\ calls' # << >> /\ Len(calls') = Len(calls)
      BY <1>14, TypeOthers, TopTyped
    <2>2. ASSUME NEW label, Goto(label) PROVE Top'.pc = label
      <3>1. Top' = [Top EXCEPT !.pc = label]
        BY <2>1, <2>2, BecomeTop DEF Goto
      <3> QED BY <2>1, <3>1 DEF Frames
    <2>3. CASE TestFifo
      <3>1. Top'.pc = "put" /\ Top.pc = "test" /\ uart' = uart /\ uart.tx < TxDepth
        BY <2>2, <2>3 DEF TestFifo, At, NotFull
      <3>2. ~Doing(DivisorLabels) /\ (~Doing(DivisorLabels \cup {"putlcr"}))'
        BY <3>1 DEF Doing, DivisorLabels
      <3> QED BY <1>3, <1>4, <2>1, <3>1, <3>2
    <2>4. CASE UartWrite
      <3>1. Top'.pc = "next" /\ Top.pc = "put"
        BY <2>2, <2>4 DEF UartWrite, At
      <3>2. /\ ~Doing(DivisorLabels) /\ (~Doing(DivisorLabels \cup {"putlcr"}))' /\ (~Doing({"put"}))'
            /\ Doing({"put"}) /\ ~Doing({"dll", "dlh", "undlab"})
        BY <2>1, <3>1 DEF Doing, DivisorLabels
      <3>3. LCR_DLA_EN \notin uart.lcr /\ uart.tx < TxDepth /\ uart.tx # TxDepth
        BY <1>3, <3>2, SizeTyped DEF Uarts
      <3>4. uart' = [uart EXCEPT !.tx = uart.tx + 1]
        BY <2>4, <3>3 DEF UartWrite
      <3>5. /\ uart'.lcr = uart.lcr /\ uart'.dll = uart.dll /\ uart'.dlh = uart.dlh
            /\ uart'.set = uart.set /\ uart'.lost = uart.lost
        BY <1>3, <3>4 DEF Uarts
      <3> QED BY <1>3, <1>4, <2>1, <3>2, <3>5
    <2>5. CASE UartRead
      <3>1. Top'.pc = "next" /\ Top.pc = "read" /\ uart' = [uart EXCEPT !.rx = uart.rx - 1]
        BY <2>2, <2>5 DEF UartRead, At
      <3>2. ~Doing(DivisorLabels) /\ (~Doing(DivisorLabels \cup {"putlcr"}))' /\ (~Doing({"put"}))'
        BY <2>1, <3>1 DEF Doing, DivisorLabels
      <3>3. /\ uart'.lcr = uart.lcr /\ uart'.dll = uart.dll /\ uart'.dlh = uart.dlh
            /\ uart'.set = uart.set /\ uart'.lost = uart.lost
        BY <1>3, <3>1 DEF Uarts
      <3> QED BY <1>3, <1>4, <2>1, <3>2, <3>3
    <2>6. CASE ReadLineControl
      <3>1. Top.pc = "lcr" /\ uart' = uart
        BY <2>6 DEF ReadLineControl, At
      <3>2. ~Doing(DivisorLabels) /\ LCR_DLA_EN \notin uart.lcr
        BY <1>3, <3>1 DEF Doing, DivisorLabels
      <3>3. CASE ~Valid(Top.ask)
        <4>1. Top'.pc = "next"
          BY <2>2, <2>6, <3>3 DEF ReadLineControl
        <4> QED BY <1>9, <2>1, <3>1, <3>2, <4>1 DEF DivisorLabels
      <3>4. CASE Valid(Top.ask)
        <4> DEFINE bits == LineControl(uart.lcr, Top.ask)
        <4>1. LCR_DLA_EN \notin bits /\ HasLine(bits, Top.ask)
          BY <3>2, <3>4, Line
        <4> HIDE DEF bits
        <4>2. Become([Top EXCEPT !.pc = "putlcr", !.lcr = bits])
          BY <2>6, <3>4 DEF ReadLineControl, bits
        <4>3. Top' = [Top EXCEPT !.pc = "putlcr", !.lcr = bits]
          BY <2>1, <4>2, BecomeTop
        <4>4. Top'.pc = "putlcr" /\ Top'.lcr = bits /\ Top'.ask = Top.ask
          BY <2>1, <4>3 DEF Frames
        <4> QED BY <1>3, <2>1, <3>1, <3>2, <3>4, <4>1, <4>4 DEF UartInv, Doing, DivisorLabels
      <3> QED BY <3>3, <3>4
    <2> QED BY <1>14, <2>3, <2>4, <2>5, <2>6
  <1>15. CASE UartInitializePort
    BY <1>2, <1>15, UartInitialized
  \* A character leaves or comes: the FIFO of the other way is as it was.
  <1>16. CASE Transmit \/ Receive
    <2>1. /\ uart'.lcr = uart.lcr /\ uart'.dll = uart.dll /\ uart'.dlh = uart.dlh
          /\ uart'.set = uart.set /\ uart'.lost = uart.lost /\ uart'.tx <= uart.tx
          /\ uart.tx \in Nat /\ uart'.tx \in Nat /\ calls' = calls /\ overlapped' = overlapped
      BY <1>3, <1>16 DEF Transmit, Receive, Uarts
    <2> QED BY <2>1, SizeTyped DEF UartInv, Doing, Top, HasDivisor
  <1>17. CASE SerialPortInitialize \/ UNCHANGED vars
    <2>1. UNCHANGED <<calls, uart, overlapped>>
      BY <1>17 DEF SerialPortInitialize, vars
    <2> QED BY <2>1 DEF UartInv, Doing, Top
  <1> QED BY <1>6, <1>7, <1>8, <1>10, <1>11, <1>12, <1>13, <1>14, <1>15, <1>16, <1>17
          DEF Next, Calling, Settings, Idle, Step

(***************************************************************************)
(* Theorems.                                                               *)
(***************************************************************************)
LEMMA InitDebugInv ==
  ASSUME Init
  PROVE  DebugInv
  <1>1. TypeOK
    BY InitTyped
  <1>2. /\ calls = << >> /\ Len(calls) = 0 /\ ~Doing(LineEnds) /\ ~overlapped
        /\ \A labels : ~Doing(labels)
    BY DEF Init, Doing
  <1>3. fb.x = 0 /\ fb.y = 0 /\ fb.glyphs = {} /\ ~fb.yellow /\ ~drawn.any
    BY DEF Init, NoGlyph
  <1>4. ConsoleAlone
    BY <1>2, <1>3 DEF ConsoleAlone
  <1>5. CursorInv
    BY <1>2, <1>3, Screen, Pages DEF CursorInv, GlyphsOnScreen, SCALE_FACTOR
  <1>6. LogInv
    BY <1>2, SizeTyped DEF LogInv, Init
  <1>7. uart.lost = {} /\ uart.lcr = {} /\ uart.set = << >>
    BY DEF Init
  <1>8. UartInv
    BY <1>2, <1>7 DEF UartInv
  <1> QED BY <1>1, <1>4, <1>5, <1>6, <1>8 DEF DebugInv

LEMMA DebugInvStep ==
  ASSUME DebugInv, [Next]_vars
  PROVE  DebugInv'
  BY TypeStep, ConsoleElsewhere, ConsoleStep, CursorElsewhere, CursorStep, LogStep, UartStep
     DEF DebugInv

LEMMA DebugInvariance == Spec => []DebugInv
  BY InitDebugInv, DebugInvStep, PTL DEF Spec

\* The console, on every screen of these dimensions and however often a handler
\* interrupts a newline: every glyph is on the screen, the last one is there once the
\* call has returned, and yellow is the colour of critical messages only.
THEOREM ConsoleShown == Spec => []ConsoleRight
  <1>1. DebugInv => ConsoleRight
    BY DEF DebugInv, ConsoleRight, CursorInv, ConsoleAlone, ColoursRight, LastGlyphShown, AtRest,
           Doing
  <1> QED BY <1>1, DebugInvariance, PTL

\* SerialPortWrite and SerialPortWriteCritical give interrupts back as they were, unless
\* the unassigned intstate of a newline has enabled them.
THEOREM InterruptsGivenBack == Spec => InterruptsRestored
  <1>1. DebugInv /\ [Next]_vars =>
          [Len(calls') < Len(calls) /\ ~accident /\ port = "framebuffer" => interrupts' = Top.saved]_vars
    <2> SUFFICES ASSUME DebugInv, [Next]_vars, Len(calls') < Len(calls), ~accident,
                        port = "framebuffer"
                 PROVE  interrupts' = Top.saved
      OBVIOUS
    <2>1. TypeOK /\ ConsoleAlone /\ calls \in Seq(PortFrames(port)) /\ Len(calls) \in Nat
      BY DEF DebugInv, TypeOK
    <2>2. Return
      <3>1. calls' # calls /\ ~ UNCHANGED vars
        BY <2>1 DEF vars
      <3>2. ~ \E text \in Texts : SerialPortWrite(text, "write") \/ SerialPortWrite(text, "critical")
        <4> SUFFICES ASSUME NEW text \in Texts, NEW kind \in {"write", "critical"},
                            SerialPortWrite(text, kind)
                     PROVE  FALSE
          OBVIOUS
        <4>1. PICK enabled \in BOOLEAN :
                calls' = Append(calls, Frame(kind, "next", text, enabled, << >>))
          BY DEF SerialPortWrite
        <4>2. Len(calls') = Len(calls) + 1
          <5> DEFINE f == Frame(kind, "next", text, enabled, << >>)
          <5>1. calls \in Seq(PortFrames(port) \cup {f})
            BY <2>1
          <5> HIDE DEF f
          <5>2. Len(Append(calls, f)) = Len(calls) + 1
            BY <5>1
          <5> QED BY <4>1, <5>2 DEF f
        <4> QED BY <2>1, <4>2
      <3>3. ~(SerialPortRead \/ \E ask \in Settings : SerialPortSetAttributes(ask))
        BY DEF SerialPortRead, SerialPortSetAttributes
      <3>4. ~(SerialPortInitialize \/ Transmit \/ Receive \/ Idle)
        BY <3>1 DEF SerialPortInitialize, Transmit, Receive, Idle
      <3>5. ~(NextCharacter \/ Paint \/ Draw \/ NewLine \/ FirstColumn \/ CheckPage \/ ResetFb)
        BY <2>1, TypeNextCharacter, TypeConsole
      <3>6. ~ \/ LoadOffset \/ mem_putchar \/ WrapOffset \/ TestFifo \/ UartWrite
              \/ UartRead \/ ReadLineControl \/ UartInitializePort
        BY <2>1, TypeOthers
      <3> QED BY <3>1, <3>2, <3>3, <3>4, <3>5, <3>6 DEF Next, Calling, Step, Settings
    <2>3. calls # << >> /\ Top \in Frames
      BY <2>1, <2>2, TopTyped DEF Return
    <2>4. ~interrupts
      BY <2>1, <2>3 DEF ConsoleAlone
    <2>5. interrupts \in BOOLEAN /\ Top.saved \in BOOLEAN
      BY <2>1, <2>3 DEF TypeOK, Frames
    <2> QED BY <2>2, <2>4, <2>5 DEF Return, EnabledAfter
  <1> QED BY <1>1, DebugInvariance, PTL DEF Spec, InterruptsRestored

\* With no call interrupting another, the area of the memory log, read on from the
\* offset mem_putchar left, is the tail of what was written, for every size.
THEOREM LogKeepsTail == Spec => []LogIsTail
  <1>1. DebugInv => LogIsTail
    BY DEF DebugInv, LogIsTail, LogInv, Place
  <1> QED BY <1>1, DebugInvariance, PTL

\* The poll of UartWrite is enough for a writer that is alone: no overrun, and no
\* character in the divisor, which only UartInitializePort has mapped.
THEOREM UartLosesNothing == Spec => []AloneNothingLost
  <1>1. DebugInv => AloneNothingLost
    BY DEF DebugInv, AloneNothingLost, UartInv
  <1> QED BY <1>1, DebugInvariance, PTL

\* At rest the UART has the word length, parity and stop bits of its last settings and
\* the divisor of their rate, for every rate the divisor can express.
THEOREM UartSettings == Spec => []AttributesSet
  <1>1. DebugInv => AttributesSet
    BY DEF DebugInv, AttributesSet, UartInv, AtRest, Doing, HasLine, HasDivisor
  <1> QED BY <1>1, DebugInvariance, PTL
=============================================================================
