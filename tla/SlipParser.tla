------------------------------ MODULE SlipParser ------------------------------
(***************************************************************************)
(* SlipEncoder and SlipDecoder of parsers/slip.ts.  The decoder takes a    *)
(* chunk by Transform, and each byte is a step; its search in large plain  *)
(* chunks (slip.ts:94-104) has the same effect as the byte loop and is not *)
(* distinguished.                                                          *)
(***************************************************************************)
EXTENDS Integers, Sequences, FiniteSets, SequencesExt, FiniteSetsExt

CONSTANTS
  Alphabet,  \* the bytes
  Codings,   \* the settings: START, ESC, END, ESC_START, ESC_END, ESC_ESC,
             \* bluetoothQuirk
  Limits,    \* the values of maxFrameLength, one of them out of reach
  Undefined, \* the absence of START or ESC_START, or of a code
  MaxChunk,  \* bound: the bytes of a chunk
  MaxInput   \* bound: the bytes of the input

VARIABLES
  coding, maxFrameLength,
  started,  \* within a frame, where frames have a START
  escaped,  \* the byte before was an ESC
  decoded,  \* of this chunk, since the last frame
  bytes,    \* the content of the ByteQueue: decoded in earlier chunks
  output,   \* the buffers pushed; Node drops empty ones
  status,   \* open, ended or failed
  chunk,    \* the bytes of the chunk in progress that are left
  busy,     \* within _transform
  input     \* history: the bytes processed

settings == <<coding, maxFrameLength>>
vars == <<settings, started, escaped, decoded, bytes, output, status, chunk,
          busy, input>>

Init ==
  /\ coding \in Codings /\ maxFrameLength \in Limits
  /\ started = FALSE /\ escaped = FALSE /\ decoded = <<>> /\ bytes = <<>>
  /\ output = <<>> /\ status = "open" /\ chunk = <<>> /\ busy = FALSE
  /\ input = <<>>

-----------------------------------------------------------------------------
(***************************************************************************)
(* The tables of codes, where a later entry replaces an earlier one, and   *)
(* the encoder.                                                            *)
(***************************************************************************)
StartCoded == Undefined \notin {coding.START, coding.ESC_START}

Code(byte) ==
  CASE StartCoded /\ byte = coding.START -> coding.ESC_START
    [] byte = coding.END -> coding.ESC_END
    [] byte = coding.ESC -> coding.ESC_ESC
    [] OTHER -> Undefined

Meaning(byte) ==
  CASE StartCoded /\ byte = coding.ESC_START -> coding.START
    [] byte = coding.ESC_ESC -> coding.ESC
    [] byte = coding.ESC_END -> coding.END
    [] OTHER -> Undefined

Unescaped(byte) == <<byte>>

Escape(byte) ==
  IF Code(byte) = Undefined THEN <<byte>> ELSE <<coding.ESC, Code(byte)>>

Encoded(message) ==
  IF coding.bluetoothQuirk /\ message = <<>> THEN <<>>
  ELSE (IF coding.bluetoothQuirk THEN <<coding.END>> ELSE <<>>)
       \o (IF coding.START # Undefined THEN <<coding.START>> ELSE <<>>)
       \o FlattenSeq([i \in DOMAIN message |-> Escape(message[i])])
       \o <<coding.END>>

-----------------------------------------------------------------------------
(***************************************************************************)
(* The decoder.                                                            *)
(***************************************************************************)
Transform(c) ==
  /\ status = "open" /\ ~busy
  /\ busy' = TRUE /\ chunk' = c /\ decoded' = <<>>
  /\ UNCHANGED <<settings, started, escaped, bytes, output, status, input>>

FitsAlone == Len(decoded) <= maxFrameLength

Fits == Len(bytes) + Len(decoded) <= maxFrameLength

(* The error destroys the stream.                                          *)
Overflow ==
  /\ ~Fits
  /\ status' = "failed" /\ bytes' = <<>> /\ decoded' = <<>> /\ chunk' = <<>>
  /\ busy' = FALSE /\ started' = FALSE /\ escaped' = FALSE
  /\ UNCHANGED <<settings, output>>

Pushed(frame) == IF frame = <<>> THEN output ELSE Append(output, frame)

EmitAnd(next) ==
  /\ Fits
  /\ output' = Pushed(bytes \o decoded) /\ bytes' = <<>> /\ decoded' = next
  /\ UNCHANGED <<settings, status, busy>>

InFrame == started \/ coding.START = Undefined

Kept(byte) == IF InFrame THEN Append(decoded, byte) ELSE decoded

Read(byte) ==
  /\ busy /\ chunk # <<>> /\ byte = Head(chunk)
  /\ input' = Append(input, byte)

Keep ==
  /\ chunk' = Tail(chunk) /\ UNCHANGED <<settings, bytes, output, status, busy>>

Unescape(byte) ==
  /\ Read(byte) /\ escaped /\ Meaning(byte) # Undefined
  /\ Keep /\ escaped' = FALSE /\ started' = InFrame
  /\ decoded' = Kept(Meaning(byte))

(* An escape without a meaning ends the frame before its byte.             *)
BadEscape(byte) ==
  /\ Read(byte) /\ escaped /\ Meaning(byte) = Undefined
  /\ \/ Overflow
     \/ /\ EmitAnd(IF InFrame THEN <<byte>> ELSE <<>>)
        /\ chunk' = Tail(chunk) /\ escaped' = FALSE /\ started' = InFrame

Start(byte) ==
  /\ Read(byte) /\ ~escaped /\ byte = coding.START
  /\ Keep /\ started' = TRUE /\ UNCHANGED <<escaped, decoded>>

(* START is looked for first, then ESC, then END.                          *)
IsEsc(byte) == byte = coding.ESC /\ byte # coding.START

IsEnd(byte) == byte = coding.END /\ byte \notin {coding.START, coding.ESC}

Esc(byte) ==
  /\ Read(byte) /\ ~escaped /\ IsEsc(byte)
  /\ Keep /\ escaped' = TRUE /\ started' = InFrame /\ UNCHANGED decoded

End(byte) ==
  /\ Read(byte) /\ ~escaped /\ IsEnd(byte)
  /\ \/ Overflow
     \/ /\ EmitAnd(<<>>)
        /\ chunk' = Tail(chunk) /\ started' = FALSE /\ UNCHANGED escaped

Data(byte) ==
  /\ Read(byte) /\ ~escaped
  /\ byte \notin {coding.START, coding.ESC, coding.END}
  /\ Keep /\ decoded' = Kept(byte) /\ started' = InFrame /\ UNCHANGED escaped

(* The chunk is decoded: what it leaves of a frame is appended.            *)
Return ==
  /\ busy /\ chunk = <<>> /\ UNCHANGED input
  /\ \/ Overflow
     \/ /\ Fits /\ bytes' = bytes \o decoded /\ decoded' = <<>> /\ busy' = FALSE
        /\ UNCHANGED <<settings, started, escaped, output, status, chunk>>

Flush ==
  /\ status = "open" /\ ~busy
  /\ output' = Pushed(bytes) /\ bytes' = <<>> /\ status' = "ended"
  /\ UNCHANGED <<settings, started, escaped, decoded, chunk, busy, input>>

Next ==
  \/ \E n \in 0 .. MaxChunk : \E c \in [1 .. n -> Alphabet] :
       Len(input) + n <= MaxInput /\ Transform(c)
  \/ \E byte \in Alphabet :
       \/ Unescape(byte) \/ BadEscape(byte) \/ Start(byte) \/ Esc(byte)
       \/ End(byte) \/ Data(byte)
  \/ Return \/ Flush

Spec == Init /\ [][Next]_vars

-----------------------------------------------------------------------------
(* The reference, which knows of no chunks, by positions of the wire: what *)
(* is escaped, where frames end, what lies in a frame.                     *)
EscapedAt(wire) ==
  LET e[i \in DOMAIN wire] == i > 1 /\ IsEsc(wire[i - 1]) /\ ~e[i - 1]
  IN  e

EndsAt(wire) == {i \in DOMAIN wire : IsEnd(wire[i]) /\ ~EscapedAt(wire)[i]}

BadAt(wire) ==
  {i \in DOMAIN wire : EscapedAt(wire)[i] /\ Meaning(wire[i]) = Undefined}

Within(wire, i) ==
  \/ coding.START = Undefined
  \/ \E s \in 1 .. i - 1 : /\ wire[s] = coding.START /\ ~EscapedAt(wire)[s]
                           /\ EndsAt(wire) \cap s .. i - 1 = {}

IsData(wire, i) ==
  /\ Within(wire, i)
  /\ EscapedAt(wire)[i] \/ wire[i] \notin {coding.START, coding.ESC, coding.END}

Value(wire, i) ==
  IF EscapedAt(wire)[i] /\ i \notin BadAt(wire) THEN Meaning(wire[i]) ELSE wire[i]

(* The number of frames that are complete before a position.               *)
FrameOf(wire, i) ==
  Cardinality(EndsAt(wire) \cap 1 .. i - 1) + Cardinality(BadAt(wire) \cap 1 .. i)

FrameAt(wire, n) ==
  FlattenSeq([i \in DOMAIN wire |->
                IF IsData(wire, i) /\ FrameOf(wire, i) = n
                THEN <<Value(wire, i)>> ELSE <<>>])

Complete(wire) == Cardinality(EndsAt(wire)) + Cardinality(BadAt(wire))

OneOrNone(frame) == IF frame = <<>> THEN <<>> ELSE <<frame>>

FramesOf(wire) ==
  FlattenSeq([n \in 1 .. Complete(wire) |-> OneOrNone(FrameAt(wire, n - 1))])

RestOf(wire) == FrameAt(wire, Complete(wire))

(* Whatever the chunks, the decoder emits the frames of the whole input,   *)
(* retains the frame that is not complete, and emits that at the end.      *)
FramesExact ==
  CASE busy \/ status = "failed" -> IsPrefix(output, FramesOf(input))
    [] status = "open" /\ ~busy ->
         output = FramesOf(input) /\ bytes = RestOf(input)
    [] OTHER -> output = FramesOf(input) \o OneOrNone(RestOf(input))

(* It fails exactly when a frame is longer than the limit, complete or     *)
(* not, however it is divided into chunks.                                 *)
TooLong(frame) == Len(frame) > maxFrameLength

LimitExact ==
  LET tooLong == \/ TooLong(RestOf(input))
                 \/ \E i \in DOMAIN FramesOf(input) : TooLong(FramesOf(input)[i])
  IN  CASE busy -> TRUE
        [] status = "failed" -> tooLong
        [] OTHER -> ~tooLong

(* What the encoder writes, the decoder reads as the same message, if the  *)
(* codes differ and the message has no START or START is escaped.          *)
Unambiguous ==
  /\ coding.END # coding.ESC /\ coding.START \notin {coding.ESC, coding.END}
  /\ coding.ESC_END # coding.ESC_ESC
  /\ StartCoded => coding.ESC_START \notin {coding.ESC_END, coding.ESC_ESC}

Encodable(message) ==
  /\ Unambiguous
  /\ StartCoded \/ \A i \in DOMAIN message : message[i] # coding.START

RoundTrip ==
  Encodable(input) =>
    /\ FramesOf(Encoded(input)) = (IF input = <<>> THEN <<>> ELSE <<input>>)
    /\ RestOf(Encoded(input)) = <<>>
=============================================================================
