------------------------------ MODULE MCParsers ------------------------------
(* Instances of Parsers for TLC.                                           *)
EXTENDS Parsers

(* Single, plain, and with borders that a mismatch falls back to.          *)
MCDelimiters == {<<1>>, <<1, 2>>, <<1, 1, 2>>, <<1, 2, 1, 2>>}

(* The defaults scaled down, a delimiter of two bytes that overlaps itself *)
(* before a length, two length bytes, and a length within the delimiter.  *)
MCFormats ==
  {[delimiters |-> {<<2>>}, delimiterBytes |-> 1, lengthOffset |-> 1,
    lengthBytes |-> 1, packetOverhead |-> 2, maxLen |-> 1],
   [delimiters |-> {<<2, 2>>, <<2, 1>>}, delimiterBytes |-> 2,
    lengthOffset |-> 2, lengthBytes |-> 1, packetOverhead |-> 3, maxLen |-> 9],
   [delimiters |-> {<<1>>, <<2>>}, delimiterBytes |-> 1, lengthOffset |-> 1,
    lengthBytes |-> 2, packetOverhead |-> 0, maxLen |-> 300],
   [delimiters |-> {<<1>>, <<2>>}, delimiterBytes |-> 1, lengthOffset |-> 0,
    lengthBytes |-> 1, packetOverhead |-> 1, maxLen |-> 2]}

(* Without START; with an escaped START; with one that is not escaped; and *)
(* with a START that is also the code of an escape, or that is END.        *)
Coding(START, ESC_START, quirk) ==
  [START |-> START, ESC |-> 2, END |-> 1, ESC_START |-> ESC_START,
   ESC_END |-> 3, ESC_ESC |-> 4, bluetoothQuirk |-> quirk]

MCCodings ==
  {Coding(Undefined, Undefined, FALSE), Coding(5, 6, TRUE),
   Coding(5, Undefined, FALSE), Coding(3, 6, TRUE), Coding(1, 6, FALSE)}
=============================================================================
