---------------------------- MODULE MCDebugPort -----------------------------
(* Letters, spaces, newlines, returns and a character that is ignored; a    *)
(* screen of two lines of two characters, as tight as 1080 pixels are for   *)
(* 44 lines; two more settings of the UART, one of them refused.            *)
EXTENDS DebugPort

MCTexts == { <<97, 97>>, <<97, 98, 32>>, <<32, 97>>, <<97, LF>>, <<LF, LF>>, <<7, 97, CR>> }

MCAttributes == { [bits |-> 6, parity |-> 1, stop |-> 0, baud |-> 300],
                  [bits |-> 8, parity |-> 2, stop |-> 0, baud |-> 115200] }
=============================================================================
