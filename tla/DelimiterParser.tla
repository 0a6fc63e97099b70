--------------------------- MODULE DelimiterParser ---------------------------
(***************************************************************************)
(* DelimiterParser of parsers/delimiter.ts with the DelimiterMatcher and   *)
(* the ByteQueue of parsers/bytes.ts.  A chunk is taken by Transform; each *)
(* round of the loop of _transform is a step.                              *)
(***************************************************************************)
EXTENDS Integers, Sequences, FiniteSets, SequencesExt, FiniteSetsExt

CONSTANTS
  Alphabet,    \* the bytes
  Delimiters,  \* the delimiters a parser may be made with
  Limits,      \* the values of maxFrameLength, one of them out of reach
  MaxChunk,    \* bound: the bytes of a chunk
  MaxInput     \* bound: the bytes of the input

VARIABLES
  delimiter, includeDelimiter, maxFrameLength,
  matched,   \* bytes of the delimiter that end what was searched
  bytes,     \* the content of the ByteQueue
  output,    \* the buffers pushed; Node drops empty ones
  status,    \* open, ended, or failed in a _transform or in the _flush
  chunk,     \* the chunk in progress
  offset, busy,
  input      \* history: the bytes of finished rounds

settings == <<delimiter, includeDelimiter, maxFrameLength>>
vars == <<settings, matched, bytes, output, status, chunk, offset, busy, input>>

Init ==
  /\ delimiter \in Delimiters /\ includeDelimiter \in BOOLEAN
  /\ maxFrameLength \in Limits
  /\ matched = 0 /\ bytes = <<>> /\ output = <<>> /\ status = "open"
  /\ chunk = <<>> /\ offset = 0 /\ busy = FALSE /\ input = <<>>

-----------------------------------------------------------------------------
(***************************************************************************)
(* DelimiterMatcher.                                                       *)
(***************************************************************************)
Size == Len(delimiter)

(* Both loops over bytes: as long as the byte does not continue the match, *)
(* fall back to what prefix says of it; then add the byte.                 *)
Match(prefix, m, byte) ==
  LET fall[k \in 0 .. m] ==
        IF k = 0 \/ byte = delimiter[k + 1] THEN k ELSE fall[prefix[k]]
  IN  IF byte = delimiter[fall[m] + 1] THEN fall[m] + 1 ELSE 0

(* #prefix: the longest border of each prefix of the delimiter.            *)
Prefix ==
  LET upTo[n \in 1 .. Size] ==
        IF n = 1 THEN <<0>>
        ELSE Append(upTo[n - 1],
                    Match(upTo[n - 1], upTo[n - 1][n - 1], delimiter[n]))
  IN  upTo[Size]

(* #advance: the number of matched bytes after one more.                   *)
StartOver(m, byte) == IF byte = delimiter[m + 1] THEN m + 1 ELSE 0

Advance(m, byte) == Match(Prefix, m, byte)

(* What is matched after each byte of the chunk from a place; Size when    *)
(* that completes the delimiter, after which #advance begins anew.         *)
Run(from, m) ==
  LET run[n \in 0 .. Len(chunk) - from] ==
        IF n = 0 THEN m
        ELSE Advance(IF run[n - 1] = Size THEN 0 ELSE run[n - 1], chunk[from + n])
  IN  run

(* A match that began in an earlier chunk is followed byte by byte.        *)
Resumed ==
  LET run == Run(offset, matched)
      n == Min({k \in DOMAIN run :
                  k = Len(chunk) - offset \/ run[k] \in {0, Size}})
  IN  [from |-> offset + n, matched |-> run[n]]

(* Then the rest of the chunk is searched, and its last bytes advance.     *)
EndsIn(from) ==
  {e \in from + Size .. Len(chunk) : SubSeq(chunk, e - Size + 1, e) = delimiter}

Suffix(from) ==
  LET first == Max({from, Len(chunk) - Size + 1})
  IN  Run(first, 0)[Len(chunk) - first]

(* The end of the next delimiter in the chunk, or -1, and what is matched. *)
Find ==
  LET from == Resumed.from
      m == Resumed.matched
  IN  CASE m = Size -> [end |-> from, matched |-> 0]
        [] m # Size /\ from = Len(chunk) -> [end |-> -1, matched |-> m]
        [] m # Size /\ from < Len(chunk) /\ EndsIn(from) # {} ->
             [end |-> Min(EndsIn(from)), matched |-> 0]
        [] OTHER -> [end |-> -1, matched |-> Suffix(from)]

-----------------------------------------------------------------------------
(***************************************************************************)
(* _transform and _flush.                                                  *)
(***************************************************************************)
Pushed(frame) == IF frame = <<>> THEN output ELSE Append(output, frame)

Transform(c) ==
  /\ status = "open" /\ ~busy
  /\ busy' = TRUE /\ chunk' = c /\ offset' = 0
  /\ UNCHANGED <<settings, matched, bytes, output, status, input>>

Overflow(where, upTo) ==
  /\ status' = where /\ bytes' = <<>>
  /\ busy' = FALSE /\ chunk' = <<>> /\ offset' = 0
  /\ input' = input \o SubSeq(chunk, offset + 1, upTo)
  /\ UNCHANGED <<settings, output>>

(* A frame that is complete.                                               *)
Excluded == IF includeDelimiter THEN 0 ELSE Size

Frame ==
  LET found == Find
      length == Len(bytes) + found.end - offset
      upToEnd == SubSeq(chunk, offset + 1, found.end)
  IN  /\ busy /\ found.end # -1
      /\ matched' = found.matched
      /\ \/ /\ length - Size > maxFrameLength
            /\ Overflow("failed", found.end)
         \/ /\ length - Size <= maxFrameLength
            /\ output' = Pushed(SubSeq(bytes \o upToEnd, 1, length - Excluded))
            /\ bytes' = <<>> /\ offset' = found.end
            /\ input' = input \o upToEnd
            /\ UNCHANGED <<settings, status, chunk, busy>>

(* The rest of the chunk is kept; what may be the head of a delimiter does *)
(* not count yet.                                                          *)
AllPayload(m) == 0

PendingBytes(m) == m

Retain ==
  LET found == Find
      length == Len(bytes) + Len(chunk) - offset
      counted == length - PendingBytes(found.matched)
      rest == SubSeq(chunk, offset + 1, Len(chunk))
  IN  /\ busy /\ found.end = -1
      /\ matched' = found.matched
      /\ \/ counted > maxFrameLength /\ Overflow("failed", Len(chunk))
         \/ /\ counted <= maxFrameLength
            /\ bytes' = bytes \o rest
            /\ input' = input \o rest
            /\ busy' = FALSE /\ chunk' = <<>> /\ offset' = 0
            /\ UNCHANGED <<settings, output, status>>

Flush ==
  /\ status = "open" /\ ~busy /\ matched' = matched
  /\ \/ Len(bytes) > maxFrameLength /\ Overflow("flushFailed", 0)
     \/ /\ Len(bytes) <= maxFrameLength
        /\ output' = Pushed(bytes) /\ bytes' = <<>> /\ status' = "ended"
        /\ UNCHANGED <<settings, chunk, offset, busy, input>>

Next ==
  \/ \E n \in 0 .. MaxChunk : \E c \in [1 .. n -> Alphabet] :
       Len(input) + n <= MaxInput /\ Transform(c)
  \/ Frame \/ Retain \/ Flush

Spec == Init /\ [][Next]_vars

-----------------------------------------------------------------------------
(* The reference, which knows of no chunks: a delimiter ends a frame if it *)
(* begins after the end of the frame before.                               *)
LastEnd(wire) ==
  LET last[n \in 0 .. Len(wire)] ==
        IF n = 0 THEN 0
        ELSE IF /\ n - Size >= last[n - 1]
                /\ SubSeq(wire, n - Size + 1, n) = delimiter
             THEN n ELSE last[n - 1]
  IN  last

Ends(wire) == {n \in DOMAIN wire : LastEnd(wire)[n] = n}

OneOrNone(frame) == IF frame = <<>> THEN <<>> ELSE <<frame>>

FrameAt(wire, n) == SubSeq(wire, LastEnd(wire)[n - 1] + 1, n - Excluded)

FramesOf(wire) ==
  FlattenSeq([n \in DOMAIN wire |->
                IF n \in Ends(wire) THEN OneOrNone(FrameAt(wire, n)) ELSE <<>>])

RestOf(wire) == SubSeq(wire, LastEnd(wire)[Len(wire)] + 1, Len(wire))

(* What the delimiter may begin with at the end of the rest.               *)
Partial(rest) ==
  Max({n \in 0 .. Size - 1 :
         /\ n <= Len(rest)
         /\ SubSeq(rest, Len(rest) - n + 1, Len(rest)) = SubSeq(delimiter, 1, n)})

(* Whatever the chunks, the parser emits the frames of the whole input and *)
(* at the end the rest; a failed one emits no other frame than these.      *)
FramesExact ==
  CASE status = "open" -> output = FramesOf(input)
    [] status = "ended" -> output = FramesOf(input) \o OneOrNone(RestOf(input))
    [] OTHER -> IsPrefix(output, FramesOf(input))

(* It fails exactly when a payload is longer than the limit, where a tail  *)
(* that may still become a delimiter counts only at the end of the input:  *)
(* whether the input is accepted depends on no chunk boundary.             *)
LimitExact ==
  LET rest == RestOf(input)
      tooLong == \E n \in Ends(input) :
                   n - Size - LastEnd(input)[n - 1] > maxFrameLength
      restTooLong == Len(rest) - Partial(rest) > maxFrameLength
  IN  CASE status = "open" /\ ~busy -> ~tooLong /\ ~restTooLong
        [] status = "failed" -> tooLong \/ restTooLong
        [] status = "ended" -> ~tooLong /\ Len(rest) <= maxFrameLength
        [] status = "flushFailed" -> Len(rest) > maxFrameLength
        [] OTHER -> ~tooLong
=============================================================================
