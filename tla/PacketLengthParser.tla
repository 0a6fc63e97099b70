-------------------------- MODULE PacketLengthParser --------------------------
(***************************************************************************)
(* PacketLengthParser of parsers/packet-length.ts over a chunked input.    *)
(* The steps of the loop of _transform are actions; a chunk is taken by    *)
(* Transform and finished by Return.                                       *)
(***************************************************************************)
EXTENDS Integers, Sequences, FiniteSets, SequencesExt, FiniteSetsExt

CONSTANTS
  Alphabet,  \* the bytes
  Formats,   \* the formats: delimiters (sequences of delimiterBytes bytes),
             \* lengthOffset, lengthBytes, packetOverhead, maxLen
  MaxChunk,  \* bound: the bytes of a chunk
  MaxInput   \* bound: the bytes of the input

VARIABLES
  format,
  started,  \* a delimiter is at the head of bytes
  length,   \* of the packet at the head, 0 while unknown
  bytes,    \* the content of the ByteQueue
  output,   \* the packets pushed
  status,   \* open or ended
  busy,     \* within _transform
  input     \* history: the bytes of all chunks

vars == <<format, started, length, bytes, output, status, busy, input>>

Init ==
  /\ format \in Formats /\ started = FALSE /\ length = 0 /\ bytes = <<>>
  /\ output = <<>> /\ status = "open" /\ busy = FALSE /\ input = <<>>

-----------------------------------------------------------------------------
LittleEndian(word) ==
  LET value[n \in 0 .. Len(word)] ==     \* of the last n bytes
        IF n = 0 THEN 0 ELSE word[Len(word) - n + 1] + 256 * value[n - 1]
  IN  value[Len(word)]

HeaderLength ==
  Max({format.delimiterBytes + 1, format.lengthOffset + format.lengthBytes})

(* The length of a packet by its header: one with an invalid length is     *)
(* emitted as its header alone.                                            *)
Announced(header) ==
  LET payload == LittleEndian(SubSeq(header, format.lengthOffset + 1,
                                format.lengthOffset + format.lengthBytes))
  IN  IF payload > format.maxLen THEN HeaderLength
      ELSE Max({HeaderLength, payload + format.packetOverhead})

Measured == Announced(SubSeq(bytes, 1, HeaderLength))

Without(n) == SubSeq(bytes, n + 1, Len(bytes))

(* What is left when no delimiter is at the head.                          *)
WholeDelimiter == Without(format.delimiterBytes)

Discarded == Without(1)

Transform(c) ==
  /\ status = "open" /\ ~busy
  /\ busy' = TRUE /\ bytes' = bytes \o c /\ input' = input \o c
  /\ UNCHANGED <<format, started, length, output, status>>

Seek ==
  /\ busy /\ ~started /\ Len(bytes) >= format.delimiterBytes
  /\ \/ /\ SubSeq(bytes, 1, format.delimiterBytes) \in format.delimiters
        /\ started' = TRUE /\ UNCHANGED bytes
     \/ /\ SubSeq(bytes, 1, format.delimiterBytes) \notin format.delimiters
        /\ bytes' = Discarded /\ UNCHANGED started
  /\ UNCHANGED <<format, length, output, status, busy, input>>

Measure ==
  /\ busy /\ started /\ length = 0 /\ Len(bytes) >= HeaderLength
  /\ length' = Measured
  /\ UNCHANGED <<format, started, bytes, output, status, busy, input>>

Emit ==
  /\ busy /\ length # 0 /\ Len(bytes) >= length
  /\ output' = Append(output, SubSeq(bytes, 1, length))
  /\ bytes' = Without(length)
  /\ length' = 0 /\ started' = FALSE
  /\ UNCHANGED <<format, status, busy, input>>

(* The loop ends when bytes are missing.                                   *)
Needed ==
  CASE ~started -> format.delimiterBytes
    [] started /\ length = 0 -> HeaderLength
    [] OTHER -> length

Return ==
  /\ busy /\ Len(bytes) < Needed
  /\ busy' = FALSE
  /\ UNCHANGED <<format, started, length, bytes, output, status, input>>

Flush ==
  /\ status = "open" /\ ~busy
  /\ output' = IF bytes = <<>> THEN output ELSE Append(output, bytes)
  /\ bytes' = <<>> /\ status' = "ended"
  /\ UNCHANGED <<format, started, length, busy, input>>

Next ==
  \/ \E n \in 0 .. MaxChunk : \E c \in [1 .. n -> Alphabet] :
       Len(input) + n <= MaxInput /\ Transform(c)
  \/ Seek \/ Measure \/ Emit \/ Return \/ Flush

Spec == Init /\ [][Next]_vars

-----------------------------------------------------------------------------
(* The reference, which knows of no chunks: the packets from a position of *)
(* the wire on, and what remains after the last one.                       *)
DelimitersFrom(wire, p) ==
  {i \in p .. Len(wire) - format.delimiterBytes :
     SubSeq(wire, i + 1, i + format.delimiterBytes) \in format.delimiters}

EndOf(wire, i) ==
  IF i + HeaderLength > Len(wire) THEN Len(wire) + 1
  ELSE i + Announced(SubSeq(wire, i + 1, i + HeaderLength))

Parsed(wire) ==
  LET parsed[p \in 0 .. Len(wire)] ==
        LET i == Min(DelimitersFrom(wire, p))
            end == EndOf(wire, i)
        IN  IF DelimitersFrom(wire, p) = {}
            THEN [packets |-> <<>>,
                  rest |-> Max({p, Len(wire) - format.delimiterBytes + 1})]
            ELSE IF end > Len(wire)
            THEN [packets |-> <<>>, rest |-> i]
            ELSE [packets |-> <<SubSeq(wire, i + 1, end)>> \o parsed[end].packets,
                  rest |-> parsed[end].rest]
  IN  parsed

(* Whatever the chunks, the parser emits the packets of the whole input,   *)
(* retains what may still become one, and emits that at the end.           *)
FramesExact ==
  LET packets == Parsed(input)[0].packets
      rest == SubSeq(input, Parsed(input)[0].rest + 1, Len(input))
  IN  CASE busy -> IsPrefix(output, packets)
        [] status = "open" /\ ~busy -> output = packets /\ bytes = rest
        [] OTHER -> output = IF rest = <<>> THEN packets
                             ELSE Append(packets, rest)
=============================================================================
