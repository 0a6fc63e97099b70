------------------------------- MODULE Parsers -------------------------------
(***************************************************************************)
(* The parsers that keep an incomplete frame between chunks, each over any *)
(* input in any division into chunks.  Each of them is made for itself:    *)
(* kind says which one a behavior is about, and the variables that only    *)
(* the others have keep a fixed value.                                     *)
(***************************************************************************)
EXTENDS Integers, Sequences

CONSTANTS
  Delimiters, DelimiterLimits,        \* of the delimiter parser
  Formats,                            \* of the packet length parser
  Codings, SlipLimits, Undefined,     \* of SLIP
  Letters, LengthBytes, SlipBytes,    \* their alphabets
  MaxChunk,                           \* bound: the bytes of a chunk
  MaxText, MaxPackets, MaxWire        \* bounds: the bytes of their inputs

ASSUME ParserAssumption ==
  /\ Delimiters \subseteq Seq(Letters) \ {<<>>}
  /\ DelimiterLimits \subseteq Nat /\ SlipLimits \subseteq Nat
  /\ LengthBytes \subseteq 0 .. 255 /\ Undefined \notin SlipBytes
  /\ \A f \in Formats :
       /\ f.delimiters # {} /\ f.delimiterBytes \in 1 .. 6
       /\ f.delimiters \subseteq [1 .. f.delimiterBytes -> LengthBytes]
       /\ f.lengthBytes \in 1 .. 6
       /\ {f.lengthOffset, f.packetOverhead, f.maxLen} \subseteq Nat
  /\ \A c \in Codings :
       /\ {c.ESC, c.END, c.ESC_END, c.ESC_ESC} \subseteq SlipBytes
       /\ {c.START, c.ESC_START} \subseteq SlipBytes \cup {Undefined}

VARIABLES
  kind,
  bytes, output, status, busy, input, started, maxFrameLength, chunk,
  delimiter, includeDelimiter, matched, offset,
  format, length,
  coding, escaped, decoded

delimiterVars == <<delimiter, includeDelimiter, matched, offset>>
packetVars == <<format, length>>
slipVars == <<coding, escaped, decoded>>
vars == <<kind, bytes, output, status, busy, input, started, maxFrameLength,
          chunk, delimiterVars, packetVars, slipVars>>

Delimited == INSTANCE DelimiterParser
  WITH Alphabet <- Letters, Limits <- DelimiterLimits, MaxInput <- MaxText
Packets == INSTANCE PacketLengthParser
  WITH Alphabet <- LengthBytes, MaxInput <- MaxPackets
Slip == INSTANCE SlipParser
  WITH Alphabet <- SlipBytes, Limits <- SlipLimits, MaxInput <- MaxWire

NoDelimiter ==
  /\ delimiter = <<>> /\ includeDelimiter = FALSE /\ matched = 0 /\ offset = 0
NoPackets == format = Undefined /\ length = 0
NoSlip == coding = Undefined /\ escaped = FALSE /\ decoded = <<>>

Init ==
  \/ kind = "delimiter" /\ Delimited!Init /\ started = FALSE /\ NoPackets /\ NoSlip
  \/ /\ kind = "packets" /\ Packets!Init /\ maxFrameLength = 0 /\ chunk = <<>>
     /\ NoDelimiter /\ NoSlip
  \/ kind = "slip" /\ Slip!Init /\ NoDelimiter /\ NoPackets

Delimit ==
  /\ kind = "delimiter" /\ Delimited!Next
  /\ UNCHANGED <<kind, started, packetVars, slipVars>>

Packetize ==
  /\ kind = "packets" /\ Packets!Next
  /\ UNCHANGED <<kind, maxFrameLength, chunk, delimiterVars, slipVars>>

Decode ==
  /\ kind = "slip" /\ Slip!Next
  /\ UNCHANGED <<kind, delimiterVars, packetVars>>

(* The stream has ended or failed.                                         *)
Stopped == status # "open" /\ UNCHANGED vars

Next == Delimit \/ Packetize \/ Decode \/ Stopped

Spec == Init /\ [][Next]_vars

-----------------------------------------------------------------------------
(* Whatever the chunks, a parser emits the frames that its whole input has *)
(* by a definition that knows of no chunks, and the rest at the end; and   *)
(* whether maxFrameLength rejects an input depends on the input only.      *)
FramesExact ==
  CASE kind = "delimiter" -> Delimited!FramesExact /\ Delimited!LimitExact
    [] kind = "packets" -> Packets!FramesExact
    [] kind = "slip" -> Slip!FramesExact /\ Slip!LimitExact

(* A message that SlipEncoder may encode comes back from its encoding as   *)
(* one frame with nothing left over.                                       *)
RoundTrip == kind = "slip" => Slip!RoundTrip
=============================================================================
