---------------------------- MODULE ParserProofs ----------------------------
(***************************************************************************)
(* The parsers emit the frames of their whole input, for any input in any  *)
(* division into chunks, any delimiters, formats and codes and any limit,  *)
(* and what SlipEncoder encodes is read back.                              *)
(*                                                                         *)
(* The invariant of a parser relates its state to a reference that is read *)
(* up to the place the parser has reached; the lemmas say what one more    *)
(* byte, or one more delimiter, adds to the reference.  The packets come   *)
(* first, then SLIP, then the delimiter, for which the table of the        *)
(* matcher has to hold the longest borders of the delimiter.               *)
(***************************************************************************)
EXTENDS Parsers, SequenceLemmas, FiniteSetTheorems
-----------------------------------------------------------------------------
(* Sequences.                                                              *)
LEMMA SliceIs ==
  ASSUME NEW S, NEW t \in Seq(S), NEW k \in Nat, NEW n \in Nat,
         k + n <= Len(t)
  PROVE  /\ SubSeq(t, k + 1, k + n) \in Seq(S)
         /\ Len(SubSeq(t, k + 1, k + n)) = n
         /\ \A i \in 1 .. n : SubSeq(t, k + 1, k + n)[i] = t[k + i]
OBVIOUS

LEMMA ConcatOne ==
  ASSUME NEW S, NEW s \in Seq(S), NEW x \in S, NEW t \in Seq(S)
  PROVE  s \o (<<x>> \o t) = Append(s, x) \o t
<1>1. <<x>> \in Seq(S)
  OBVIOUS
<1> DEFINE u == <<x>>
<1>2. u \in Seq(S)
  BY <1>1
<1>3. Append(s, x) = s \o u
  BY AppendIsConcat
<1> HIDE DEF u
<1>4. (s \o u) \o t = s \o (u \o t)
  BY <1>2, ConcatAssociative
<1> QED
  BY <1>3, <1>4, Zenon DEF u

LEMMA ConcatIs ==
  ASSUME NEW S, NEW s \in Seq(S), NEW t \in Seq(S)
  PROVE  /\ s \o t \in Seq(S) /\ Len(s \o t) = Len(s) + Len(t)
         /\ \A i \in 1 .. Len(s) : (s \o t)[i] = s[i]
         /\ \A j \in 1 .. Len(t) : (s \o t)[Len(s) + j] = t[j]
<1>1. ASSUME NEW j \in 1 .. Len(t) PROVE (s \o t)[Len(s) + j] = t[j]
  <2>1. Len(s) + j \in 1 .. Len(s) + Len(t) /\ Len(s) + j > Len(s)
        /\ (Len(s) + j) - Len(s) = j
    OBVIOUS
  <2> QED
    BY <2>1
<1> QED
  BY <1>1

LEMMA PrefixConcat ==
  ASSUME NEW S, NEW s \in Seq(S), NEW t \in Seq(S)
  PROVE  IsPrefix(s, s \o t)
<1> DEFINE u == s \o t
           n == Len(s)
           a == SubSeq(s, 0 + 1, 0 + n)
           b == SubSeq(u, 0 + 1, 0 + n)
<1>1. u \in Seq(S) /\ Len(u) = n + Len(t) /\ n \in Nat /\ Len(t) \in Nat
      /\ \A i \in 1 .. n : u[i] = s[i]
  BY ConcatIs
<1>2. a \in Seq(S) /\ Len(a) = n /\ \A i \in 1 .. n : a[i] = s[0 + i]
  BY <1>1, SliceIs
<1> HIDE DEF u
<1>3. b \in Seq(S) /\ Len(b) = n /\ \A i \in 1 .. n : b[i] = u[0 + i]
  BY <1>1, SliceIs
<1>4. \A i \in 1 .. n : 0 + i = i
  OBVIOUS
<1>5. \A i \in 1 .. n : a[i] = b[i]
  BY <1>1, <1>2, <1>3, <1>4
<1> HIDE DEF a, b
<1>6. a = b
  BY <1>2, <1>3, <1>5, SeqEqual
<1>7. SubSeq(s, 1, Len(s)) = SubSeq(u, 1, Len(s)) /\ Len(s) <= Len(u)
  BY <1>1, <1>6 DEF a, b
<1> QED
  BY <1>7 DEF IsPrefix, u
-----------------------------------------------------------------------------
(* Least and greatest of two, or of a set of numbers.                      *)
LEMMA MaxOfTwo ==
  ASSUME NEW a \in Int, NEW b \in Int
  PROVE  Packets!Max({a, b}) = IF a >= b THEN a ELSE b
<1>1. CASE a >= b
  <2>1. \A x \in {a, b} : (\A y \in {a, b} : x >= y) => x = a
    BY <1>1
  <2> QED
    BY <1>1, <2>1 DEF Packets!Max
<1>2. CASE ~(a >= b)
  <2>1. \A x \in {a, b} : (\A y \in {a, b} : x >= y) => x = b
    BY <1>2
  <2>2. \A y \in {a, b} : b >= y
    BY <1>2
  <2> QED
    BY <1>2, <2>1, <2>2 DEF Packets!Max
<1> QED
  BY <1>1, <1>2

LEMMA LeastIs ==
  ASSUME NEW S \in SUBSET Int, NEW m \in S, \A y \in S : m <= y
  PROVE  Packets!Min(S) = m
<1>1. \A x \in S : (\A y \in S : x =< y) => x = m
  OBVIOUS
<1> QED
  BY <1>1, Zenon DEF Packets!Min

LEMMA LeastExists ==
  ASSUME NEW S \in SUBSET Nat, S # {}
  PROVE  Packets!Min(S) \in S /\ \A y \in S : Packets!Min(S) <= y
<1>1. PICK x \in S : \A y \in S : ~(<<y, x>> \in Less)
  BY LessIsWellFounded, WFMin, Zenon
<1>2. ASSUME NEW y \in S PROVE x <= y
  <2>1. x \in Nat /\ y \in Nat /\ ~(<<y, x>> \in Less)
    BY <1>1
  <2> QED
    BY <2>1 DEF Less
<1> QED
  BY <1>2, LeastIs

-----------------------------------------------------------------------------
(* Packets.  The number that the bytes of a length say.                    *)
ValueBody(word, g, n) ==
  IF n = 0 THEN 0 ELSE word[Len(word) - n + 1] + 256 * g[n - 1]

Values(word, g) == g = [n \in 0 .. Len(word) |-> ValueBody(word, g, n)]

LEMMA LittleEndianIs ==
  ASSUME NEW word
  PROVE  Packets!LittleEndian(word) = (CHOOSE g : Values(word, g))[Len(word)]
BY DEF Packets!LittleEndian, Values, ValueBody

LEMMA LittleEndianType ==
  ASSUME NEW word \in Seq(LengthBytes)
  PROVE  Packets!LittleEndian(word) \in Nat
<1> DEFINE L == Len(word)
           Upto(k, g) == /\ g \in [0 .. L -> Nat]
                         /\ \A n \in 0 .. L : n < k => g[n] = ValueBody(word, g, n)
           P == {k \in Nat : \E g : Upto(k, g)}
<1>0. L \in Nat /\ \A n \in 1 .. L : word[L - n + 1] \in Nat
  <2>1. L \in Nat /\ LengthBytes \subseteq Nat
    BY ParserAssumption
  <2>2. ASSUME NEW n \in 1 .. L PROVE word[L - n + 1] \in LengthBytes
    <3>1. L - n + 1 \in 1 .. L
      BY <2>1
    <3> QED
      BY <3>1
  <2> QED
    BY <2>1, <2>2, Zenon
<1>1. 0 \in P
  <2>1. Upto(0, [n \in 0 .. L |-> 0])
    OBVIOUS
  <2> QED
    BY <2>1
<1>2. ASSUME NEW k \in Nat, k \in P PROVE k + 1 \in P
  <2>1. PICK g : Upto(k, g)
    BY <1>2
  <2>2. CASE k \in 0 .. L
    <3> DEFINE h == [g EXCEPT ![k] = ValueBody(word, g, k)]
    <3>1. ValueBody(word, g, k) \in Nat
      <4>1. CASE k = 0
        BY <4>1 DEF ValueBody
      <4>2. CASE k # 0
        <5>0. k \in 1 .. L /\ k - 1 \in 0 .. L
          BY <1>0, <2>2, <4>2
        <5>1. word[L - k + 1] \in Nat /\ g[k - 1] \in Nat
          BY <1>0, <2>1, <5>0, Zenon
        <5> HIDE DEF Upto
        <5> QED
          BY <4>2, <5>1 DEF ValueBody
      <4> QED
        BY <4>1, <4>2
    <3>2. h \in [0 .. L -> Nat] /\ h[k] = ValueBody(word, g, k)
          /\ \A n \in 0 .. L : n # k => h[n] = g[n]
      BY <2>1, <2>2, <3>1
    <3> HIDE DEF h
    <3>3. ASSUME NEW n \in 0 .. L, n < k + 1 PROVE h[n] = ValueBody(word, h, n)
      <4>1. n = 0 \/ (n - 1 \in 0 .. L /\ n - 1 # k)
        BY <1>0, <2>2, <3>3
      <4>2. ValueBody(word, h, n) = ValueBody(word, g, n)
        BY <3>2, <4>1 DEF ValueBody
      <4>3. n = k \/ n < k
        BY <1>0, <3>3
      <4> QED
        BY <2>1, <3>2, <4>2, <4>3
    <3> QED
      BY <3>2, <3>3
  <2>3. CASE k \notin 0 .. L
    <3>1. Upto(k + 1, g)
      BY <1>0, <2>1, <2>3
    <3> QED
      BY <3>1
  <2> QED
    BY <2>2, <2>3
<1> HIDE DEF P
<1>3. L + 1 \in P
  BY <1>0, <1>1, <1>2, SetInduction, Zenon
<1>4. PICK g : Upto(L + 1, g)
  BY <1>3 DEF P
<1>5. Values(word, g)
  BY <1>0, <1>4 DEF Values
<1>6. Values(word, CHOOSE h : Values(word, h))
  BY <1>5
<1> DEFINE v == CHOOSE h : Values(word, h)
           Q == {n \in Nat : n \in 0 .. L => v[n] \in Nat}
<1> HIDE DEF v
<1>7. \A n \in 0 .. L : v[n] = ValueBody(word, v, n)
  BY <1>6, Zenon DEF Values, v
<1>8. 0 \in Q
  BY <1>0, <1>7 DEF ValueBody
<1>9. ASSUME NEW n \in Nat, n \in Q PROVE n + 1 \in Q
  <2> SUFFICES ASSUME n + 1 \in 0 .. L PROVE v[n + 1] \in Nat
    OBVIOUS
  <2>1. v[n] \in Nat /\ (n + 1) - 1 = n /\ word[L - (n + 1) + 1] \in Nat
    BY <1>0, <1>9
  <2> QED
    BY <1>7, <2>1 DEF ValueBody
<1> HIDE DEF Q
<1>10. L \in Q
  BY <1>0, <1>8, <1>9, SetInduction, Zenon
<1> QED
  BY <1>0, <1>10, LittleEndianIs DEF Q, v

(* A format, and the length that a header announces.                       *)
LEMMA FormatIs ==
  ASSUME format \in Formats
  PROVE  /\ format.delimiterBytes \in 1 .. 6 /\ format.lengthBytes \in 1 .. 6
         /\ format.lengthOffset \in Nat /\ format.packetOverhead \in Nat
         /\ format.maxLen \in Nat
BY ParserAssumption

LEMMA HeaderIs ==
  ASSUME format \in Formats
  PROVE  /\ Packets!HeaderLength \in Nat
         /\ Packets!HeaderLength > format.delimiterBytes
         /\ Packets!HeaderLength >= format.lengthOffset + format.lengthBytes
<1>1. /\ format.delimiterBytes \in Nat /\ format.lengthBytes \in Nat
      /\ format.lengthOffset \in Nat
  BY FormatIs
<1> QED
  BY <1>1, MaxOfTwo DEF Packets!HeaderLength

LEMMA AnnouncedIs ==
  ASSUME format \in Formats, NEW header \in Seq(LengthBytes),
         Len(header) = Packets!HeaderLength
  PROVE  /\ Packets!Announced(header) \in Nat
         /\ Packets!Announced(header) >= Packets!HeaderLength
<1> DEFINE word == SubSeq(header, format.lengthOffset + 1,
                          format.lengthOffset + format.lengthBytes)
           payload == Packets!LittleEndian(word)
<1>1. word \in Seq(LengthBytes)
  BY FormatIs, HeaderIs
<1>2. payload \in Nat
  BY <1>1, LittleEndianType, Zenon
<1>3. payload + format.packetOverhead \in Nat
  BY <1>2, FormatIs
<1>4. Packets!Announced(header) =
        IF payload > format.maxLen THEN Packets!HeaderLength
        ELSE Packets!Max({Packets!HeaderLength, payload + format.packetOverhead})
  BY DEF Packets!Announced
<1> HIDE DEF payload
<1> QED
  BY <1>3, <1>4, HeaderIs, MaxOfTwo

(* The packets from a position on, with those of later positions from g.   *)
First(wire, p) == Packets!Min(Packets!DelimitersFrom(wire, p))

End(wire, p) == Packets!EndOf(wire, First(wire, p))

PacketBody(wire, g, p) ==
  IF Packets!DelimitersFrom(wire, p) = {}
  THEN [packets |-> <<>>,
        rest |-> Packets!Max({p, Len(wire) - format.delimiterBytes + 1})]
  ELSE IF End(wire, p) > Len(wire)
  THEN [packets |-> <<>>, rest |-> First(wire, p)]
  ELSE [packets |-> <<SubSeq(wire, First(wire, p) + 1, End(wire, p))>>
                      \o g[End(wire, p)].packets,
        rest |-> g[End(wire, p)].rest]

Parses(wire, g) == g = [p \in 0 .. Len(wire) |-> PacketBody(wire, g, p)]

LEMMA ParsedIs ==
  ASSUME NEW wire
  PROVE  Packets!Parsed(wire) = CHOOSE g : Parses(wire, g)
BY DEF Packets!Parsed, Parses, PacketBody, First, End

LEMMA FirstIs ==
  ASSUME format \in Formats, NEW wire \in Seq(LengthBytes),
         NEW p \in 0 .. Len(wire), Packets!DelimitersFrom(wire, p) # {}
  PROVE  /\ First(wire, p) \in Packets!DelimitersFrom(wire, p)
         /\ First(wire, p) \in Nat /\ First(wire, p) >= p
         /\ First(wire, p) + format.delimiterBytes <= Len(wire)
<1>1. format.delimiterBytes \in Nat /\ Len(wire) \in Nat /\ p \in Nat
  BY FormatIs
<1>2. Packets!DelimitersFrom(wire, p) \in SUBSET Nat
  BY <1>1 DEF Packets!DelimitersFrom
<1>3. First(wire, p) \in Packets!DelimitersFrom(wire, p)
  BY <1>2, LeastExists DEF First
<1>4. \A i \in Packets!DelimitersFrom(wire, p) :
        i \in p .. Len(wire) - format.delimiterBytes
  BY DEF Packets!DelimitersFrom
<1> QED
  BY <1>1, <1>3, <1>4

LEMMA EndOfIs ==
  ASSUME format \in Formats, NEW wire \in Seq(LengthBytes),
         NEW i \in 0 .. Len(wire)
  PROVE  Packets!EndOf(wire, i) \in Nat /\ Packets!EndOf(wire, i) > i
<1>1. Packets!HeaderLength \in Nat /\ Packets!HeaderLength > 0
      /\ Len(wire) \in Nat
  BY HeaderIs, FormatIs
<1>2. CASE i + Packets!HeaderLength > Len(wire)
  BY <1>1, <1>2 DEF Packets!EndOf
<1>3. CASE ~(i + Packets!HeaderLength > Len(wire))
  <2> DEFINE header == SubSeq(wire, i + 1, i + Packets!HeaderLength)
  <2>1. header \in Seq(LengthBytes) /\ Len(header) = Packets!HeaderLength
    BY <1>1, <1>3
  <2> HIDE DEF header
  <2>2. Packets!EndOf(wire, i) = i + Packets!Announced(header)
    BY <1>3 DEF Packets!EndOf, header
  <2> QED
    BY <1>1, <2>1, <2>2, AnnouncedIs
<1> QED
  BY <1>2, <1>3

Parse == [packets : Seq(Seq(LengthBytes)), rest : Nat]

LEMMA BodyType ==
  ASSUME format \in Formats, NEW wire \in Seq(LengthBytes),
         NEW p \in 0 .. Len(wire), NEW g,
         \A q \in 0 .. Len(wire) : q > p => g[q] \in Parse
  PROVE  PacketBody(wire, g, p) \in Parse
<1>1. /\ Len(wire) \in Nat /\ format.delimiterBytes \in Nat
  BY FormatIs
<1>2. CASE Packets!DelimitersFrom(wire, p) = {}
  <2>1. Packets!Max({p, Len(wire) - format.delimiterBytes + 1}) \in Nat
    BY <1>1, MaxOfTwo
  <2> QED
    BY <1>2, <2>1 DEF PacketBody, Parse
<1>3. CASE Packets!DelimitersFrom(wire, p) # {} /\ End(wire, p) > Len(wire)
  BY <1>3, FirstIs DEF PacketBody, Parse
<1>4. CASE Packets!DelimitersFrom(wire, p) # {} /\ ~(End(wire, p) > Len(wire))
  <2>1. First(wire, p) \in 0 .. Len(wire) /\ First(wire, p) >= p
    BY <1>1, <1>4, FirstIs
  <2>2. End(wire, p) \in 0 .. Len(wire) /\ End(wire, p) > p
    BY <1>1, <1>4, <2>1, EndOfIs DEF End
  <2>3. g[End(wire, p)] \in Parse
    BY <2>2
  <2>4. SubSeq(wire, First(wire, p) + 1, End(wire, p)) \in Seq(LengthBytes)
    BY <2>1, <2>2
  <2> QED
    BY <1>4, <2>3, <2>4 DEF PacketBody, Parse
<1> QED
  BY <1>2, <1>3, <1>4

(* A body looks at later positions only.                                   *)
LEMMA BodyLooksAhead ==
  ASSUME format \in Formats, NEW wire \in Seq(LengthBytes),
         NEW p \in 0 .. Len(wire), NEW g, NEW h,
         \A q \in 0 .. Len(wire) : q > p => g[q] = h[q]
  PROVE  PacketBody(wire, g, p) = PacketBody(wire, h, p)
<1>1. CASE Packets!DelimitersFrom(wire, p) # {} /\ ~(End(wire, p) > Len(wire))
  <2>1. First(wire, p) \in 0 .. Len(wire) /\ First(wire, p) >= p
    BY <1>1, FirstIs, FormatIs
  <2>2. End(wire, p) \in 0 .. Len(wire) /\ End(wire, p) > p
    BY <1>1, <2>1, EndOfIs DEF End
  <2> QED
    BY <2>2, Zenon DEF PacketBody
<1> QED
  BY <1>1 DEF PacketBody

LEMMA ParsedFacts ==
  ASSUME format \in Formats, NEW wire \in Seq(LengthBytes)
  PROVE  \A p \in 0 .. Len(wire) :
           /\ Packets!Parsed(wire)[p] = PacketBody(wire, Packets!Parsed(wire), p)
           /\ Packets!Parsed(wire)[p] \in Parse
<1> DEFINE L == Len(wire)
           Upto(k, g) == /\ g \in [0 .. L -> Parse]
                         /\ \A p \in 0 .. L : p > L - k => g[p] = PacketBody(wire, g, p)
           P == {k \in Nat : \E g : Upto(k, g)}
<1>0. L \in Nat
  OBVIOUS
<1> HIDE DEF L
<1>1. 0 \in P
  <2>1. [packets |-> <<>>, rest |-> 0] \in Parse
    BY DEF Parse
  <2>2. Upto(0, [p \in 0 .. L |-> [packets |-> <<>>, rest |-> 0]])
    BY <1>0, <2>1
  <2> QED
    BY <2>2, Zenon
<1>2. ASSUME NEW k \in Nat, k \in P PROVE k + 1 \in P
  <2>1. PICK g : Upto(k, g)
    BY <1>2
  <2>2. CASE L - k \in 0 .. L
    <3> DEFINE n == L - k
               h == [g EXCEPT ![n] = PacketBody(wire, g, n)]
    <3>0. n \in 0 .. L
      BY <2>2
    <3> HIDE DEF n
    <3>1. PacketBody(wire, g, n) \in Parse
      BY <2>1, <3>0, BodyType DEF L
    <3>2. h \in [0 .. L -> Parse] /\ h[n] = PacketBody(wire, g, n)
          /\ \A p \in 0 .. L : p # n => h[p] = g[p]
      BY <2>1, <3>0, <3>1
    <3> HIDE DEF h
    <3>3. ASSUME NEW p \in 0 .. L, p > L - (k + 1)
          PROVE  h[p] = PacketBody(wire, h, p)
      <4>1. p >= n /\ p \in Int /\ n \in Int
        BY <1>0, <3>3 DEF n
      <4>2. \A q \in 0 .. L : q > p => g[q] = h[q]
        BY <3>2, <4>1
      <4>3. PacketBody(wire, g, p) = PacketBody(wire, h, p)
        BY <4>2, BodyLooksAhead DEF L
      <4>4. p = n \/ p > L - k
        BY <1>0, <4>1 DEF n
      <4> QED
        BY <2>1, <3>2, <4>3, <4>4
    <3>4. Upto(k + 1, h)
      BY <3>2, <3>3
    <3> HIDE DEF Upto
    <3> QED
      BY <3>4
  <2>3. CASE L - k \notin 0 .. L
    <3>1. Upto(k + 1, g)
      BY <1>0, <2>1, <2>3
    <3> HIDE DEF Upto
    <3> QED
      BY <3>1
  <2> QED
    BY <2>2, <2>3
<1> HIDE DEF P
<1>3. L + 1 \in P
  BY <1>0, <1>1, <1>2, SetInduction
<1>4. PICK g : Upto(L + 1, g)
  BY <1>3 DEF P
<1>5. Parses(wire, g)
  BY <1>0, <1>4 DEF Parses, L
<1> DEFINE v == Packets!Parsed(wire)
<1>6. Parses(wire, v)
  BY <1>5, ParsedIs
<1>7. \A p \in 0 .. L : v[p] = PacketBody(wire, v, p)
  BY <1>6 DEF Parses, L
<1> DEFINE Q == {k \in Nat : \A p \in 0 .. L : p > L - k => v[p] \in Parse}
<1> HIDE DEF v
<1>8. 0 \in Q
  BY <1>0
<1>9. ASSUME NEW k \in Nat, k \in Q PROVE k + 1 \in Q
  <2>1. ASSUME NEW p \in 0 .. L, p > L - (k + 1) PROVE v[p] \in Parse
    <3>1. \A q \in 0 .. L : q > p => v[q] \in Parse
      BY <1>0, <1>9, <2>1
    <3> QED
      BY <1>7, <3>1, BodyType DEF L
  <2> QED
    BY <2>1
<1> HIDE DEF Q
<1>10. L + 1 \in Q
  BY <1>0, <1>8, <1>9, SetInduction
<1>11. \A p \in 0 .. L : v[p] \in Parse
  BY <1>0, <1>10 DEF Q
<1> QED
  BY <1>7, <1>11 DEF v, L

(* Where a delimiter is not, parsing goes on a byte later; where one is, a *)
(* packet begins.                                                          *)
DelimiterAt(wire, q) ==
  /\ q + format.delimiterBytes <= Len(wire)
  /\ SubSeq(wire, q + 1, q + format.delimiterBytes) \in format.delimiters

LEMMA SkipByte ==
  ASSUME format \in Formats, NEW wire \in Seq(LengthBytes), NEW q \in Nat,
         q + format.delimiterBytes <= Len(wire), ~DelimiterAt(wire, q)
  PROVE  Packets!Parsed(wire)[q] = Packets!Parsed(wire)[q + 1]
<1>1. /\ format.delimiterBytes \in Nat /\ format.delimiterBytes > 0
      /\ Len(wire) \in Nat
  BY FormatIs
<1>2. q \in 0 .. Len(wire) /\ q + 1 \in 0 .. Len(wire)
  BY <1>1
<1> DEFINE D == format.delimiterBytes
           L == Len(wire)
<1>3. q \notin Packets!DelimitersFrom(wire, q)
  BY DEF DelimiterAt, Packets!DelimitersFrom
<1>4. Packets!DelimitersFrom(wire, q) = Packets!DelimitersFrom(wire, q + 1)
  <2>1. \A i \in Packets!DelimitersFrom(wire, q) :
          i \in Packets!DelimitersFrom(wire, q + 1)
    <3> TAKE i \in Packets!DelimitersFrom(wire, q)
    <3>1. i \in q .. L - D /\ i # q
          /\ SubSeq(wire, i + 1, i + format.delimiterBytes) \in format.delimiters
      BY <1>3 DEF Packets!DelimitersFrom
    <3>2. i \in q + 1 .. L - D
      BY <1>1, <3>1
    <3> QED
      BY <3>1, <3>2 DEF Packets!DelimitersFrom
  <2>2. \A i \in Packets!DelimitersFrom(wire, q + 1) :
          i \in Packets!DelimitersFrom(wire, q)
    <3> TAKE i \in Packets!DelimitersFrom(wire, q + 1)
    <3>1. i \in q + 1 .. L - D
          /\ SubSeq(wire, i + 1, i + format.delimiterBytes) \in format.delimiters
      BY DEF Packets!DelimitersFrom
    <3>2. i \in q .. L - D
      BY <1>1, <3>1
    <3> QED
      BY <3>1, <3>2 DEF Packets!DelimitersFrom
  <2> QED
    BY <2>1, <2>2, Zenon
<1>5. First(wire, q) = First(wire, q + 1) /\ End(wire, q) = End(wire, q + 1)
  BY <1>4 DEF First, End
<1>6. Packets!Max({q, L - D + 1}) = Packets!Max({q + 1, L - D + 1})
  <2>1. L - D + 1 \in Int /\ L - D + 1 >= q + 1
    BY <1>1
  <2>2. Packets!Max({q, L - D + 1}) = L - D + 1
    BY <1>1, <2>1, MaxOfTwo
  <2>3. Packets!Max({q + 1, L - D + 1}) = L - D + 1
    BY <1>1, <2>1, MaxOfTwo
  <2> QED
    BY <2>2, <2>3
<1>7. \A g : PacketBody(wire, g, q) = PacketBody(wire, g, q + 1)
  BY <1>4, <1>5, <1>6 DEF PacketBody
<1> QED
  BY <1>2, <1>7, ParsedFacts

LEMMA PacketHere ==
  ASSUME format \in Formats, NEW wire \in Seq(LengthBytes), NEW q \in Nat,
         DelimiterAt(wire, q)
  PROVE  /\ q \in 0 .. Len(wire)
         /\ Packets!DelimitersFrom(wire, q) # {} /\ First(wire, q) = q
         /\ End(wire, q) = Packets!EndOf(wire, q)
<1>1. /\ format.delimiterBytes \in Nat /\ format.delimiterBytes > 0
      /\ Len(wire) \in Nat
  BY FormatIs
<1>2. q \in 0 .. Len(wire)
  BY <1>1 DEF DelimiterAt
<1>3. q \in q .. Len(wire) - format.delimiterBytes
  BY <1>1 DEF DelimiterAt
<1>4. q \in Packets!DelimitersFrom(wire, q)
  BY <1>3 DEF DelimiterAt, Packets!DelimitersFrom
<1>5. Packets!DelimitersFrom(wire, q) \in SUBSET Int
      /\ \A i \in Packets!DelimitersFrom(wire, q) : q <= i
  BY <1>1 DEF Packets!DelimitersFrom
<1>6. First(wire, q) = q
  BY <1>4, <1>5, LeastIs DEF First
<1> QED
  BY <1>2, <1>4, <1>6 DEF End

(* A packet whose header is complete and is all there.                     *)
LEMMA TakePacket ==
  ASSUME format \in Formats, NEW wire \in Seq(LengthBytes), NEW q \in Nat,
         DelimiterAt(wire, q), q + Packets!HeaderLength <= Len(wire),
         NEW n, n = Packets!Announced(SubSeq(wire, q + 1, q + Packets!HeaderLength)),
         q + n <= Len(wire)
  PROVE  /\ q + n \in 0 .. Len(wire)
         /\ Packets!Parsed(wire)[q] =
              [packets |-> <<SubSeq(wire, q + 1, q + n)>>
                             \o Packets!Parsed(wire)[q + n].packets,
               rest |-> Packets!Parsed(wire)[q + n].rest]
<1>1. Packets!HeaderLength \in Nat /\ Len(wire) \in Nat
  BY HeaderIs
<1>2. Packets!EndOf(wire, q) = q + n
  BY <1>1 DEF Packets!EndOf
<1>3. q + n \in Nat
  BY <1>2, PacketHere, EndOfIs
<1>4. ~(End(wire, q) > Len(wire)) /\ q \in 0 .. Len(wire)
  BY <1>1, <1>2, <1>3, PacketHere
<1>5. PacketBody(wire, Packets!Parsed(wire), q) =
        [packets |-> <<SubSeq(wire, q + 1, q + n)>>
                       \o Packets!Parsed(wire)[q + n].packets,
         rest |-> Packets!Parsed(wire)[q + n].rest]
  BY <1>2, <1>4, PacketHere, Zenon DEF PacketBody
<1>6. Packets!Parsed(wire)[q] = PacketBody(wire, Packets!Parsed(wire), q)
  BY <1>4, ParsedFacts
<1> QED
  BY <1>1, <1>3, <1>5, <1>6

(* What is not complete remains.                                           *)
LEMMA NoDelimiterLeft ==
  ASSUME format \in Formats, NEW wire \in Seq(LengthBytes), NEW q \in Nat,
         q <= Len(wire), q + format.delimiterBytes > Len(wire)
  PROVE  Packets!Parsed(wire)[q] = [packets |-> <<>>, rest |-> q]
<1>1. /\ format.delimiterBytes \in Nat /\ Len(wire) \in Nat
  BY FormatIs
<1>2. Packets!DelimitersFrom(wire, q) = {}
  BY <1>1 DEF Packets!DelimitersFrom
<1>3. Packets!Max({q, Len(wire) - format.delimiterBytes + 1}) = q
  <2>1. Len(wire) - format.delimiterBytes + 1 \in Int
        /\ q >= Len(wire) - format.delimiterBytes + 1
    BY <1>1
  <2> QED
    BY <2>1, MaxOfTwo
<1>4. PacketBody(wire, Packets!Parsed(wire), q) = [packets |-> <<>>, rest |-> q]
  BY <1>2, <1>3 DEF PacketBody
<1>5. q \in 0 .. Len(wire)
  BY <1>1
<1> QED
  BY <1>4, <1>5, ParsedFacts

LEMMA PacketNotWhole ==
  ASSUME format \in Formats, NEW wire \in Seq(LengthBytes), NEW q \in Nat,
         DelimiterAt(wire, q),
         \/ q + Packets!HeaderLength > Len(wire)
         \/ /\ q + Packets!HeaderLength <= Len(wire)
            /\ q + Packets!Announced(SubSeq(wire, q + 1, q + Packets!HeaderLength))
                 > Len(wire)
  PROVE  Packets!Parsed(wire)[q] = [packets |-> <<>>, rest |-> q]
<1>1. Packets!HeaderLength \in Nat /\ Len(wire) \in Nat
  BY HeaderIs
<1>2. Packets!EndOf(wire, q) > Len(wire)
  BY <1>1 DEF Packets!EndOf
<1>3. PacketBody(wire, Packets!Parsed(wire), q) = [packets |-> <<>>, rest |-> q]
  BY <1>2, PacketHere DEF PacketBody
<1> QED
  BY <1>3, PacketHere, ParsedFacts

(* The parser has taken the bytes before those that it keeps: whatever     *)
(* comes after its input, the packets from the beginning are its output    *)
(* and those from there on.                                                *)
Taken == Len(input) - Len(bytes)

PacketTypes ==
  /\ format \in Formats /\ started \in BOOLEAN /\ length \in Nat
  /\ busy \in BOOLEAN /\ status \in {"open", "ended"}
  /\ bytes \in Seq(LengthBytes) /\ input \in Seq(LengthBytes)
  /\ output \in Seq(Seq(LengthBytes))

KeepsRest ==
  /\ Len(bytes) <= Len(input)
  /\ bytes = SubSeq(input, Taken + 1, Len(input))

Then(os, parse) == [packets |-> os \o parse.packets, rest |-> parse.rest]

Progress ==
  \A w \in Seq(LengthBytes) :
    Packets!Parsed(input \o w)[0] = Then(output, Packets!Parsed(input \o w)[Taken])

KnowsHead ==
  /\ started => /\ Len(bytes) >= format.delimiterBytes
                /\ SubSeq(bytes, 1, format.delimiterBytes) \in format.delimiters
  /\ length # 0 => /\ started /\ Len(bytes) >= Packets!HeaderLength
                   /\ length = Packets!Announced(SubSeq(bytes, 1, Packets!HeaderLength))

Waits == ~busy => Len(bytes) < Packets!Needed

Going == KeepsRest /\ Progress /\ KnowsHead /\ Waits

Gone ==
  LET rest == SubSeq(input, Packets!Parsed(input)[0].rest + 1, Len(input))
      packets == Packets!Parsed(input)[0].packets
  IN  ~busy /\ output = IF rest = <<>> THEN packets ELSE Append(packets, rest)

PacketInv ==
  PacketTypes /\ (status = "open" => Going) /\ (status = "ended" => Gone)

LEMMA TakenIs ==
  ASSUME PacketTypes, KeepsRest
  PROVE  /\ Taken \in Nat /\ Len(input) = Taken + Len(bytes)
         /\ Len(input) \in Nat /\ Len(bytes) \in Nat
         /\ \A i \in 1 .. Len(bytes) : bytes[i] = input[Taken + i]
<1>1. Taken \in Nat /\ Len(input) = Taken + Len(bytes)
      /\ Len(input) \in Nat /\ Len(bytes) \in Nat
  BY DEF PacketTypes, KeepsRest, Taken
<1>2. bytes = SubSeq(input, Taken + 1, Taken + Len(bytes))
  BY <1>1 DEF KeepsRest
<1>3. ASSUME NEW i \in 1 .. Len(bytes) PROVE bytes[i] = input[Taken + i]
  <2>1. \A t \in Seq(LengthBytes) : \A k, n \in Nat :
          k + n <= Len(t) => \A j \in 1 .. n : SubSeq(t, k + 1, k + n)[j] = t[k + j]
    OBVIOUS
  <2>2. SubSeq(input, Taken + 1, Taken + Len(bytes))[i] = input[Taken + i]
    BY <1>1, <2>1 DEF PacketTypes
  <2> QED
    BY <1>2, <2>2, Zenon
<1> QED
  BY <1>1, <1>3

(* The bytes that are kept, in the input with anything after it.           *)
LEMMA HeadOfWire ==
  ASSUME PacketTypes, KeepsRest, NEW w \in Seq(LengthBytes),
         NEW n \in 0 .. Len(bytes)
  PROVE  /\ input \o w \in Seq(LengthBytes)
         /\ Taken + Len(bytes) <= Len(input \o w)
         /\ SubSeq(input \o w, Taken + 1, Taken + n) = SubSeq(bytes, 1, n)
<1>1. input \o w \in Seq(LengthBytes) /\ Len(input \o w) = Len(input) + Len(w)
      /\ Len(w) \in Nat
      /\ \A i \in 1 .. Len(input) : (input \o w)[i] = input[i]
  BY DEF PacketTypes
<1> DEFINE wire == input \o w
           s == SubSeq(wire, Taken + 1, Taken + n)
           t == SubSeq(bytes, 1, n)
<1>2. s \in Seq(LengthBytes) /\ Len(s) = n
      /\ \A i \in 1 .. n : s[i] = (input \o w)[Taken + i]
  <2>1. Taken + n <= Len(wire) /\ n \in Nat /\ Taken \in Nat
        /\ wire \in Seq(LengthBytes)
    BY <1>1, TakenIs
  <2> HIDE DEF wire
  <2>2. s \in Seq(LengthBytes) /\ Len(s) = n
        /\ \A i \in 1 .. n : s[i] = wire[Taken + i]
    BY <2>1, SliceIs
  <2> QED
    BY <2>2, Zenon DEF wire
<1>3. t \in Seq(LengthBytes) /\ Len(t) = n /\ \A i \in 1 .. n : t[i] = bytes[i]
  BY TakenIs DEF PacketTypes
<1>4. ASSUME NEW i \in 1 .. n PROVE s[i] = t[i]
  <2>1. i \in 1 .. Len(bytes) /\ Taken + i \in 1 .. Len(input)
    BY TakenIs
  <2> QED
    BY <1>1, <1>2, <1>3, <2>1, TakenIs, Zenon
<1> HIDE DEF s, t
<1>5. s = t
  BY <1>2, <1>3, <1>4, SeqEqual
<1> QED
  <2>1. Taken + Len(bytes) <= Len(input \o w)
    BY <1>1, TakenIs
  <2> QED
    BY <1>1, <1>5, <2>1, Zenon DEF s, t

LEMMA ThenNothing ==
  ASSUME NEW os \in Seq(Seq(LengthBytes)), NEW n
  PROVE  Then(os, [packets |-> <<>>, rest |-> n]) = [packets |-> os, rest |-> n]
BY DEF Then

LEMMA ThenOne ==
  ASSUME NEW os \in Seq(Seq(LengthBytes)), NEW o \in Seq(LengthBytes),
         NEW parse \in Parse
  PROVE  Then(os, [packets |-> <<o>> \o parse.packets, rest |-> parse.rest])
           = Then(Append(os, o), parse)
<1>1. parse.packets \in Seq(Seq(LengthBytes))
  BY DEF Parse
<1>2. os \o (<<o>> \o parse.packets) = Append(os, o) \o parse.packets
  <2> DEFINE W == Seq(LengthBytes)
             ps == parse.packets
  <2>1. os \in Seq(W) /\ o \in W /\ ps \in Seq(W)
    BY <1>1
  <2> HIDE DEF W, ps
  <2>2. os \o (<<o>> \o ps) = Append(os, o) \o ps
    BY <2>1, ConcatOne
  <2> QED
    BY <2>2, Zenon DEF ps
<1> QED
  BY <1>2, Zenon DEF Then

LEMMA ThenNone ==
  ASSUME NEW parse \in Parse
  PROVE  Then(<<>>, parse) = parse
<1>1. parse.packets \in Seq(Seq(LengthBytes))
      /\ parse = [packets |-> parse.packets, rest |-> parse.rest]
  BY DEF Parse
<1>2. <<>> \o parse.packets = parse.packets
  BY <1>1
<1> QED
  BY <1>1, <1>2 DEF Then

(* A chunk comes after everything that the parser keeps.                   *)
LEMMA ChunkGoes ==
  ASSUME PacketTypes, Going, NEW c \in Seq(LengthBytes),
         Packets!Transform(c)
  PROVE  PacketTypes' /\ Going'
<1>1. /\ bytes' = bytes \o c /\ input' = input \o c /\ busy'
      /\ UNCHANGED <<format, started, length, output, status>>
  BY DEF Packets!Transform
<1>2. /\ bytes' \in Seq(LengthBytes) /\ input' \in Seq(LengthBytes)
      /\ Len(bytes') = Len(bytes) + Len(c) /\ Len(input') = Len(input) + Len(c)
      /\ Len(bytes) \in Nat /\ Len(input) \in Nat /\ Len(c) \in Nat
      /\ Len(bytes) <= Len(input)
  BY <1>1 DEF PacketTypes, Going, KeepsRest
<1>3. PacketTypes'
  BY <1>1, <1>2 DEF PacketTypes, Packets!Transform
<1>4. Taken' = Taken /\ Len(bytes') <= Len(input')
  BY <1>2 DEF Taken
<1>5. bytes' = SubSeq(input', Taken' + 1, Len(input'))
  <2> DEFINE s == SubSeq(input', Taken + 1, Taken + Len(bytes'))
  <2>1. Taken + Len(bytes') = Len(input') /\ Taken \in Nat
    BY <1>2 DEF Taken
  <2>2. s \in Seq(LengthBytes) /\ Len(s) = Len(bytes')
        /\ \A i \in 1 .. Len(bytes') : s[i] = input'[Taken + i]
    BY <1>2, <2>1, SliceIs
  <2>3. ASSUME NEW i \in 1 .. Len(bytes') PROVE bytes'[i] = s[i]
    <3>1. CASE i <= Len(bytes)
      <4>1. bytes'[i] = bytes[i] /\ bytes[i] = input[Taken + i]
        BY <1>1, <1>2, <3>1, TakenIs DEF PacketTypes, Going
      <4>2. input'[Taken + i] = input[Taken + i]
        BY <1>1, <1>2, <3>1, TakenIs DEF PacketTypes, Going
      <4> QED
        BY <2>2, <4>1, <4>2
    <3>2. CASE ~(i <= Len(bytes))
      <4> DEFINE j == i - Len(bytes)
      <4>1. j \in 1 .. Len(c) /\ i = Len(bytes) + j /\ Taken + i = Len(input) + j
        BY <1>2, <3>2 DEF Taken
      <4> HIDE DEF j
      <4>2. bytes \in Seq(LengthBytes) /\ input \in Seq(LengthBytes)
        BY DEF PacketTypes
      <4>3. (bytes \o c)[Len(bytes) + j] = c[j]
        BY <4>1, <4>2, ConcatIs
      <4>4. (input \o c)[Len(input) + j] = c[j]
        BY <4>1, <4>2, ConcatIs
      <4> QED
        BY <1>1, <2>2, <4>1, <4>3, <4>4, Zenon
    <3> QED
      BY <3>1, <3>2, Zenon
  <2> HIDE DEF s
  <2>4. bytes' = s
    BY <1>2, <2>2, <2>3, SeqEqual
  <2> QED
    BY <1>4, <2>1, <2>4, Zenon DEF s
<1>6. Progress'
  <2>1. ASSUME NEW w \in Seq(LengthBytes)
        PROVE  Packets!Parsed(input' \o w)[0] =
                 Then(output, Packets!Parsed(input' \o w)[Taken])
    <3>1. c \o w \in Seq(LengthBytes)
      OBVIOUS
    <3>2. input' \o w = input \o (c \o w)
      BY <1>1, ConcatAssociative, SMTT(30) DEF PacketTypes
    <3> QED
      BY <3>1, <3>2, Zenon DEF Going, Progress
  <2>2. \A w : Packets!Parsed(w)' = Packets!Parsed(w)
    BY <1>1 DEF Packets!Parsed, Packets!DelimitersFrom, Packets!EndOf,
       Packets!HeaderLength, Packets!Announced, Packets!LittleEndian
  <2> QED
    BY <1>1, <1>4, <2>1, <2>2, Zenon DEF Progress, Then
<1>7. KnowsHead'
  <2>1. \A n \in 0 .. Len(bytes) : SubSeq(bytes', 1, n) = SubSeq(bytes, 1, n)
    <3> TAKE n \in 0 .. Len(bytes)
    <3> DEFINE s == SubSeq(bytes', 0 + 1, 0 + n)
               t == SubSeq(bytes, 0 + 1, 0 + n)
    <3>1. s \in Seq(LengthBytes) /\ Len(s) = n /\ \A i \in 1 .. n : s[i] = bytes'[0 + i]
      BY <1>2, SliceIs
    <3>2. t \in Seq(LengthBytes) /\ Len(t) = n /\ \A i \in 1 .. n : t[i] = bytes[0 + i]
      BY <1>2, SliceIs DEF PacketTypes
    <3>3. \A i \in 1 .. n : bytes'[i] = bytes[i]
      BY <1>1, <1>2 DEF PacketTypes
    <3> HIDE DEF s, t
    <3>4. s = t
      BY <3>1, <3>2, <3>3, SeqEqual
    <3> QED
      BY <3>4 DEF s, t
  <2>2. /\ Packets!HeaderLength' = Packets!HeaderLength
        /\ \A h : Packets!Announced(h)' = Packets!Announced(h)
    BY <1>1 DEF Packets!HeaderLength, Packets!Announced, Packets!LittleEndian
  <2>3. started => /\ Len(bytes') >= format.delimiterBytes
                   /\ SubSeq(bytes', 1, format.delimiterBytes) \in format.delimiters
    <3>1. started => /\ Len(bytes) >= format.delimiterBytes
                     /\ SubSeq(bytes, 1, format.delimiterBytes) \in format.delimiters
      BY DEF Going, KnowsHead
    <3>2. started => format.delimiterBytes \in 0 .. Len(bytes)
      BY <1>2, <3>1, FormatIs DEF PacketTypes
    <3>3. started => Len(bytes') >= format.delimiterBytes
      BY <1>2, <3>2
    <3> QED
      BY <2>1, <3>1, <3>2, <3>3, Zenon
  <2>4. length # 0 =>
          /\ started /\ Len(bytes') >= Packets!HeaderLength
          /\ length = Packets!Announced(SubSeq(bytes', 1, Packets!HeaderLength))
    <3>1. length # 0 =>
            /\ started /\ Len(bytes) >= Packets!HeaderLength
            /\ length = Packets!Announced(SubSeq(bytes, 1, Packets!HeaderLength))
      BY DEF Going, KnowsHead
    <3>2. length # 0 => Packets!HeaderLength \in 0 .. Len(bytes)
      BY <1>2, <3>1, HeaderIs DEF PacketTypes
    <3>3. length # 0 => Len(bytes') >= Packets!HeaderLength
      BY <1>2, <3>2
    <3> QED
      BY <2>1, <3>1, <3>2, <3>3, Zenon
  <2> QED
    BY <1>1, <2>2, <2>3, <2>4 DEF KnowsHead
<1> QED
  BY <1>1, <1>3, <1>4, <1>5, <1>6, <1>7, Zenon DEF Going, KeepsRest, Waits

(* A step that gives bytes away: those that are left are still the rest.   *)
LEMMA LeavesRest ==
  ASSUME PacketTypes, KeepsRest, NEW n \in 0 .. Len(bytes),
         bytes' = Packets!Without(n), UNCHANGED input
  PROVE  /\ bytes' \in Seq(LengthBytes) /\ Taken' = Taken + n /\ KeepsRest'
         /\ Len(bytes') = Len(bytes) - n
<1> DEFINE m == Len(bytes) - n
<1>1. n \in Nat /\ m \in Nat /\ n + m = Len(bytes) /\ Len(bytes) \in Nat
      /\ bytes \in Seq(LengthBytes) /\ input \in Seq(LengthBytes)
  BY TakenIs DEF PacketTypes
<1> HIDE DEF m
<1>2. bytes' = SubSeq(bytes, n + 1, n + m)
  BY <1>1, Zenon DEF Packets!Without
<1>3. bytes' \in Seq(LengthBytes) /\ Len(bytes') = m
      /\ \A i \in 1 .. m : bytes'[i] = bytes[n + i]
  BY <1>1, <1>2, SliceIs
<1>4. Taken' = Taken + n
  BY <1>1, <1>3, TakenIs DEF Taken, m
<1> DEFINE k == Taken + n
           s == SubSeq(input, k + 1, k + m)
<1>5. k \in Nat /\ k + m = Len(input)
  BY <1>1, TakenIs
<1> HIDE DEF k
<1>6. s \in Seq(LengthBytes) /\ Len(s) = m
      /\ \A i \in 1 .. m : s[i] = input[k + i]
  BY <1>1, <1>5, SliceIs
<1>7. ASSUME NEW i \in 1 .. m PROVE bytes'[i] = s[i]
  <2>1. n + i \in 1 .. Len(bytes) /\ Taken + (n + i) = k + i
    BY <1>1, TakenIs DEF k
  <2>2. bytes[n + i] = input[k + i]
    BY <2>1, TakenIs
  <2> QED
    BY <1>3, <1>6, <2>2, Zenon
<1> HIDE DEF s
<1>8. bytes' = s
  BY <1>1, <1>3, <1>6, <1>7, SeqEqual
<1>9. bytes' = SubSeq(input', Taken' + 1, Len(input'))
  BY <1>4, <1>5, <1>8, Zenon DEF s, k
<1>10. Len(bytes') <= Len(input')
  BY <1>1, <1>3, <1>5, TakenIs DEF k
<1> QED
  BY <1>3, <1>4, <1>9, <1>10, Zenon DEF KeepsRest, m

(* What the input says does not depend on the parser's variables.          *)
LEMMA SameFormat ==
  ASSUME UNCHANGED format
  PROVE  /\ \A w : Packets!Parsed(w)' = Packets!Parsed(w)
         /\ Packets!HeaderLength' = Packets!HeaderLength
         /\ \A h : Packets!Announced(h)' = Packets!Announced(h)
BY DEF Packets!Parsed, Packets!DelimitersFrom, Packets!EndOf,
   Packets!HeaderLength, Packets!Announced, Packets!LittleEndian

LEMMA SeekGoes ==
  ASSUME PacketTypes, Going, Packets!Seek
  PROVE  PacketTypes' /\ Going'
<1>1. /\ busy /\ ~started /\ Len(bytes) >= format.delimiterBytes
      /\ UNCHANGED <<format, length, output, status, busy, input>>
  BY DEF Packets!Seek
<1>2. length = 0
  BY <1>1 DEF Going, KnowsHead
<1>3. KeepsRest /\ Progress
  BY DEF Going
<1>4. CASE /\ SubSeq(bytes, 1, format.delimiterBytes) \in format.delimiters
           /\ started' = TRUE /\ UNCHANGED bytes
  <2>1. PacketTypes' /\ Taken' = Taken
    BY <1>1, <1>4 DEF PacketTypes, Taken
  <2>2. KeepsRest' /\ Progress'
    BY <1>1, <1>3, <1>4, <2>1, SameFormat, Zenon DEF KeepsRest, Progress, Then
  <2>3. KnowsHead' /\ Waits'
    BY <1>1, <1>2, <1>4 DEF KnowsHead, Waits
  <2> QED
    BY <2>1, <2>2, <2>3 DEF Going
<1>5. CASE /\ SubSeq(bytes, 1, format.delimiterBytes) \notin format.delimiters
           /\ bytes' = Packets!Without(1) /\ UNCHANGED started
  <2>1. format.delimiterBytes \in Nat /\ format.delimiterBytes > 0
        /\ 1 \in 0 .. Len(bytes) /\ format.delimiterBytes \in 0 .. Len(bytes)
    BY <1>1, <1>3, TakenIs, FormatIs DEF PacketTypes
  <2>2. /\ bytes' \in Seq(LengthBytes) /\ Taken' = Taken + 1 /\ KeepsRest'
    BY <1>1, <1>3, <1>5, <2>1, LeavesRest
  <2>3. PacketTypes'
    BY <1>1, <1>5, <2>2 DEF PacketTypes
  <2>4. ASSUME NEW w \in Seq(LengthBytes)
        PROVE  Packets!Parsed(input \o w)[0] =
                 Then(output, Packets!Parsed(input \o w)[Taken + 1])
    <3>1. /\ input \o w \in Seq(LengthBytes)
          /\ Taken + format.delimiterBytes <= Len(input \o w)
          /\ ~DelimiterAt(input \o w, Taken)
      <4> DEFINE D == format.delimiterBytes
      <4>1. /\ input \o w \in Seq(LengthBytes)
            /\ Taken + Len(bytes) <= Len(input \o w)
            /\ SubSeq(input \o w, Taken + 1, Taken + D) = SubSeq(bytes, 1, D)
        BY <1>3, <2>1, HeadOfWire, Zenon
      <4>2. Taken + D <= Len(input \o w)
        BY <1>3, <2>1, <4>1, TakenIs
      <4> QED
        BY <1>5, <4>1, <4>2, Zenon DEF DelimiterAt
    <3>2. Packets!Parsed(input \o w)[Taken] = Packets!Parsed(input \o w)[Taken + 1]
      BY <1>3, <3>1, SkipByte, TakenIs, Zenon DEF PacketTypes
    <3> QED
      BY <1>3, <3>2 DEF Progress
  <2>5. Progress'
    BY <1>1, <2>2, <2>4, SameFormat, Zenon DEF Progress, Then
  <2>6. KnowsHead' /\ Waits'
    BY <1>1, <1>2, <1>5 DEF KnowsHead, Waits
  <2> QED
    BY <2>2, <2>3, <2>5, <2>6 DEF Going
<1> QED
  BY <1>4, <1>5, Zenon DEF Packets!Seek, Packets!Discarded

LEMMA MeasureGoes ==
  ASSUME PacketTypes, Going, Packets!Measure
  PROVE  PacketTypes' /\ Going'
<1>1. /\ busy /\ started /\ Len(bytes) >= Packets!HeaderLength
      /\ length' = Packets!Announced(SubSeq(bytes, 1, Packets!HeaderLength))
      /\ UNCHANGED <<format, started, bytes, output, status, busy, input>>
  BY DEF Packets!Measure, Packets!Measured
<1>2. length' \in Nat
  <2> DEFINE header == SubSeq(bytes, 0 + 1, 0 + Packets!HeaderLength)
  <2>1. header \in Seq(LengthBytes) /\ Len(header) = Packets!HeaderLength
    BY <1>1, HeaderIs, SliceIs DEF PacketTypes
  <2>2. length' = Packets!Announced(header)
    BY <1>1, HeaderIs DEF PacketTypes
  <2> HIDE DEF header
  <2> QED
    BY <2>1, <2>2, AnnouncedIs DEF PacketTypes
<1>3. PacketTypes' /\ Taken' = Taken
  BY <1>1, <1>2 DEF PacketTypes, Taken
<1>4. KeepsRest' /\ Progress'
  BY <1>1, <1>3, SameFormat, Zenon DEF Going, KeepsRest, Progress, Then
<1>5. KnowsHead' /\ Waits'
  BY <1>1, SameFormat DEF Going, KnowsHead, Waits
<1> QED
  BY <1>3, <1>4, <1>5 DEF Going

(* The head of what the parser keeps, in the input with anything after it. *)
LEMMA HeadDelimits ==
  ASSUME PacketTypes, KeepsRest, KnowsHead, started,
         NEW w \in Seq(LengthBytes)
  PROVE  input \o w \in Seq(LengthBytes) /\ DelimiterAt(input \o w, Taken)
<1> DEFINE D == format.delimiterBytes
<1>1. D \in 0 .. Len(bytes) /\ SubSeq(bytes, 1, D) \in format.delimiters
  BY TakenIs, FormatIs DEF PacketTypes, KnowsHead
<1>2. /\ input \o w \in Seq(LengthBytes)
      /\ Taken + Len(bytes) <= Len(input \o w)
      /\ SubSeq(input \o w, Taken + 1, Taken + D) = SubSeq(bytes, 1, D)
  BY <1>1, HeadOfWire, Zenon
<1>3. Taken + D <= Len(input \o w)
  BY <1>1, <1>2, TakenIs
<1> QED
  BY <1>1, <1>2, <1>3, Zenon DEF DelimiterAt

LEMMA HeadAnnounces ==
  ASSUME PacketTypes, KeepsRest, KnowsHead, length # 0,
         NEW w \in Seq(LengthBytes)
  PROVE  /\ Taken + Packets!HeaderLength <= Len(input \o w)
         /\ length = Packets!Announced(SubSeq(input \o w, Taken + 1,
                                              Taken + Packets!HeaderLength))
         /\ length > 0
<1> DEFINE H == Packets!HeaderLength
<1>1. H \in 0 .. Len(bytes) /\ length = Packets!Announced(SubSeq(bytes, 1, H))
  BY TakenIs, HeaderIs DEF PacketTypes, KnowsHead
<1>2. /\ input \o w \in Seq(LengthBytes)
      /\ Taken + Len(bytes) <= Len(input \o w)
      /\ SubSeq(input \o w, Taken + 1, Taken + H) = SubSeq(bytes, 1, H)
  BY <1>1, HeadOfWire, Zenon
<1>3. Taken + H <= Len(input \o w)
  BY <1>1, <1>2, TakenIs
<1> QED
  <2>1. length > 0
    BY DEF PacketTypes
  <2> QED
    BY <1>1, <1>2, <1>3, <2>1, Zenon

LEMMA EmitGoes ==
  ASSUME PacketTypes, Going, Packets!Emit
  PROVE  PacketTypes' /\ Going'
<1>1. /\ busy /\ length # 0 /\ Len(bytes) >= length
      /\ output' = Append(output, SubSeq(bytes, 1, length))
      /\ bytes' = Packets!Without(length) /\ length' = 0 /\ ~started'
      /\ started' \in BOOLEAN
      /\ UNCHANGED <<format, status, busy, input>>
  BY Zenon DEF Packets!Emit
<1>2. KeepsRest /\ Progress /\ KnowsHead /\ started
  BY <1>1 DEF Going, KnowsHead
<1>3. length \in 0 .. Len(bytes)
  BY <1>1, <1>2, TakenIs DEF PacketTypes
<1> DEFINE o == SubSeq(bytes, 1, length)
<1>4. o \in Seq(LengthBytes)
  BY <1>3 DEF PacketTypes
<1>5. /\ bytes' \in Seq(LengthBytes) /\ Taken' = Taken + length /\ KeepsRest'
  BY <1>1, <1>2, <1>3, LeavesRest
<1> HIDE DEF o
<1>6. output' = Append(output, o)
  BY <1>1 DEF o
<1>7. output' \in Seq(Seq(LengthBytes))
  BY <1>4, <1>6 DEF PacketTypes
<1>8. PacketTypes'
  BY <1>1, <1>5, <1>7 DEF PacketTypes
<1>9. ASSUME NEW w \in Seq(LengthBytes)
      PROVE  Packets!Parsed(input \o w)[0] =
               Then(output', Packets!Parsed(input \o w)[Taken + length])
  <2> DEFINE wire == input \o w
  <2>1. /\ wire \in Seq(LengthBytes) /\ DelimiterAt(wire, Taken)
    BY <1>2, HeadDelimits
  <2>2. /\ Taken + Packets!HeaderLength <= Len(wire)
        /\ length = Packets!Announced(SubSeq(wire, Taken + 1,
                                             Taken + Packets!HeaderLength))
    BY <1>1, <1>2, HeadAnnounces
  <2>3. Taken + Len(bytes) <= Len(wire) /\ SubSeq(wire, Taken + 1, Taken + length) = o
    BY <1>2, <1>3, HeadOfWire, Zenon DEF o
  <2>4. Packets!Parsed(wire)[0] = Then(output, Packets!Parsed(wire)[Taken])
    BY <1>2 DEF Progress
  <2> HIDE DEF wire
  <2>5. Taken + length <= Len(wire) /\ Taken \in Nat
    BY <1>2, <1>3, <2>1, <2>3, TakenIs
  <2>6. /\ Taken + length \in 0 .. Len(wire)
        /\ Packets!Parsed(wire)[Taken] =
             [packets |-> <<o>> \o Packets!Parsed(wire)[Taken + length].packets,
              rest |-> Packets!Parsed(wire)[Taken + length].rest]
    BY <2>1, <2>2, <2>3, <2>5, TakePacket, ZenonT(60) DEF PacketTypes
  <2>7. Packets!Parsed(wire)[Taken + length] \in Parse
    BY <2>1, <2>6, ParsedFacts DEF PacketTypes
  <2>8. Packets!Parsed(wire)[0] = Then(output', Packets!Parsed(wire)[Taken + length])
    BY <1>4, <1>6, <2>4, <2>6, <2>7, ThenOne, Zenon DEF PacketTypes
  <2> QED
    BY <2>8 DEF wire
<1>10. Progress'
  BY <1>1, <1>5, <1>9, SameFormat, Zenon DEF Progress, Then
<1>11. KnowsHead' /\ Waits'
  BY <1>1 DEF KnowsHead, Waits
<1> QED
  BY <1>5, <1>8, <1>10, <1>11 DEF Going

(* When bytes are missing, nothing of the input is a packet any more.      *)
LEMMA NothingLeft ==
  ASSUME PacketTypes, Going, Len(bytes) < Packets!Needed
  PROVE  Packets!Parsed(input)[0] = [packets |-> output, rest |-> Taken]
<1> DEFINE w == <<>>
<1>1. w \in Seq(LengthBytes) /\ input \o w = input
  BY DEF PacketTypes
<1>2. KeepsRest /\ KnowsHead
  BY DEF Going
<1>3. Packets!Parsed(input)[0] = Then(output, Packets!Parsed(input)[Taken])
  BY <1>1, Zenon DEF Going, Progress
<1>4. Packets!Parsed(input)[Taken] = [packets |-> <<>>, rest |-> Taken]
  <2>1. CASE ~started
    <3>1. Taken <= Len(input) /\ Taken + format.delimiterBytes > Len(input)
      BY <1>2, <2>1, TakenIs, FormatIs, SMTT(30)
        DEF Packets!Needed, PacketTypes
    <3> QED
      BY <1>2, <3>1, TakenIs, NoDelimiterLeft DEF PacketTypes
  <2>2. CASE started /\ length = 0
    <3>1. Taken + Packets!HeaderLength > Len(input)
      BY <1>2, <2>2, TakenIs, HeaderIs DEF Packets!Needed, PacketTypes
    <3>2. DelimiterAt(input, Taken)
      BY <1>1, <1>2, <2>2, HeadDelimits, Zenon
    <3> QED
      BY <1>2, <3>1, <3>2, TakenIs, PacketNotWhole DEF PacketTypes
  <2>3. CASE started /\ length # 0
    <3>1. /\ Taken + Packets!HeaderLength <= Len(input)
          /\ length = Packets!Announced(SubSeq(input, Taken + 1,
                                               Taken + Packets!HeaderLength))
      BY <1>1, <1>2, <2>3, HeadAnnounces, Zenon
    <3>2. Taken + length > Len(input)
      BY <1>2, <2>3, TakenIs DEF Packets!Needed, PacketTypes
    <3>3. DelimiterAt(input, Taken)
      BY <1>1, <1>2, <2>3, HeadDelimits, Zenon
    <3> QED
      BY <1>2, <3>1, <3>2, <3>3, TakenIs, PacketNotWhole DEF PacketTypes
  <2> QED
    BY <2>1, <2>2, <2>3
<1> QED
  BY <1>3, <1>4, ThenNothing DEF PacketTypes

LEMMA RestIsKept ==
  ASSUME PacketTypes, Going
  PROVE  SubSeq(input, Taken + 1, Len(input)) = bytes
BY DEF Going, KeepsRest

LEMMA ReturnGoes ==
  ASSUME PacketTypes, Going, Packets!Return
  PROVE  PacketTypes' /\ Going'
<1>1. /\ Len(bytes) < Packets!Needed /\ ~busy' /\ busy' \in BOOLEAN
      /\ UNCHANGED <<format, started, length, bytes, output, status, input>>
  BY Zenon DEF Packets!Return
<1>2. PacketTypes' /\ Taken' = Taken
  BY <1>1 DEF PacketTypes, Taken
<1>3. KeepsRest' /\ Progress'
  BY <1>1, <1>2, SameFormat, Zenon DEF Going, KeepsRest, Progress, Then
<1>4. KnowsHead' /\ Waits'
  BY <1>1, SameFormat DEF Going, KnowsHead, Waits, Packets!Needed
<1> QED
  BY <1>2, <1>3, <1>4 DEF Going

LEMMA FlushGoes ==
  ASSUME PacketTypes, Going, Packets!Flush
  PROVE  PacketTypes' /\ status' = "ended" /\ Gone'
<1>1. /\ ~busy /\ status' = "ended"
      /\ output' = IF bytes = <<>> THEN output ELSE Append(output, bytes)
      /\ bytes' = <<>> /\ UNCHANGED <<format, started, length, busy, input>>
  BY DEF Packets!Flush
<1>2. Packets!Parsed(input)[0] = [packets |-> output, rest |-> Taken]
  BY <1>1, NothingLeft DEF Going, Waits
<1>3. SubSeq(input, Taken + 1, Len(input)) = bytes
  BY RestIsKept
<1>4. output' \in Seq(Seq(LengthBytes))
  BY <1>1 DEF PacketTypes
<1>5. PacketTypes'
  BY <1>1, <1>4 DEF PacketTypes
<1>6. Gone'
  <2>1. Packets!Parsed(input)' = Packets!Parsed(input)
    BY <1>1 DEF Packets!Parsed, Packets!DelimitersFrom, Packets!EndOf,
       Packets!HeaderLength, Packets!Announced, Packets!LittleEndian
  <2>2. /\ Packets!Parsed(input)[0].packets = output
        /\ Packets!Parsed(input)[0].rest = Taken
    BY <1>2
  <2> QED
    BY <1>1, <1>3, <2>1, <2>2, Zenon DEF Gone
<1> QED
  BY <1>1, <1>5, <1>6

LEMMA PacketsNext ==
  ASSUME PacketInv, Packets!Next
  PROVE  PacketInv'
<1>1. CASE status = "open"
  <2>1. PacketTypes /\ Going
    BY <1>1 DEF PacketInv
  <2>2. ASSUME NEW n \in 0 .. MaxChunk, NEW c \in [1 .. n -> LengthBytes],
               Packets!Transform(c)
        PROVE  PacketTypes' /\ Going' /\ status' = "open"
    <3>1. c \in Seq(LengthBytes)
      BY <2>2
    <3> QED
      BY <1>1, <2>1, <2>2, <3>1, ChunkGoes, Zenon DEF Packets!Transform
  <2>3. ASSUME Packets!Seek \/ Packets!Measure \/ Packets!Emit \/ Packets!Return
        PROVE  PacketTypes' /\ Going' /\ status' = "open"
    <3>1. status' = "open"
      BY <1>1, <2>3 DEF Packets!Seek, Packets!Measure, Packets!Emit, Packets!Return
    <3> QED
      BY <2>1, <2>3, <3>1, SeekGoes, MeasureGoes, EmitGoes, ReturnGoes
  <2>4. ASSUME Packets!Flush
        PROVE  PacketTypes' /\ Gone' /\ status' = "ended"
    BY <2>1, <2>4, FlushGoes
  <2> QED
    BY <2>2, <2>3, <2>4 DEF Packets!Next, PacketInv
<1>2. CASE status = "ended"
  <2>1. ~busy
    BY <1>2 DEF PacketInv, Gone
  <2> QED
    BY <1>2, <2>1 DEF Packets!Next, Packets!Transform, Packets!Seek,
       Packets!Measure, Packets!Emit, Packets!Return, Packets!Flush
<1> QED
  BY <1>1, <1>2 DEF PacketInv, PacketTypes

LEMMA PacketsInit ==
  ASSUME Packets!Init
  PROVE  PacketInv
<1>1. /\ format \in Formats /\ started = FALSE /\ length = 0 /\ bytes = <<>>
      /\ output = <<>> /\ status = "open" /\ busy = FALSE /\ input = <<>>
  BY DEF Packets!Init
<1>2. PacketTypes
  <2>1. bytes \in Seq(LengthBytes) /\ input \in Seq(LengthBytes)
        /\ output \in Seq(Seq(LengthBytes))
    BY <1>1
  <2>2. started \in BOOLEAN /\ busy \in BOOLEAN /\ length \in Nat
    BY <1>1, Zenon
  <2> QED
    BY <1>1, <2>1, <2>2 DEF PacketTypes
<1>3. Taken = 0
  BY <1>1 DEF Taken
<1>4. KeepsRest
  BY <1>1, <1>3 DEF KeepsRest
<1>5. Progress
  <2>1. ASSUME NEW w \in Seq(LengthBytes)
        PROVE  Packets!Parsed(input \o w)[0]
                 = Then(output, Packets!Parsed(input \o w)[Taken])
    <3>1. input \o w \in Seq(LengthBytes)
      BY <1>1
    <3>2. Packets!Parsed(input \o w)[0] \in Parse
      BY <1>1, <3>1, ParsedFacts
    <3> QED
      BY <1>1, <1>3, <3>2, ThenNone
  <2> QED
    BY <2>1 DEF Progress
<1>6. KnowsHead
  BY <1>1 DEF KnowsHead
<1>7. Waits
  BY <1>1, FormatIs DEF Waits, Packets!Needed
<1> QED
  BY <1>1, <1>2, <1>4, <1>5, <1>6, <1>7 DEF PacketInv, Going

LEMMA PacketInvSuffices ==
  ASSUME PacketInv
  PROVE  Packets!FramesExact
<1>1. CASE status = "ended"
  BY <1>1 DEF PacketInv, Gone, Packets!FramesExact
<1>2. CASE status = "open" /\ ~busy
  <2>1. Packets!Parsed(input)[0] = [packets |-> output, rest |-> Taken]
    BY <1>2, NothingLeft DEF PacketInv, Going, Waits
  <2>2. SubSeq(input, Taken + 1, Len(input)) = bytes
    BY <1>2, RestIsKept DEF PacketInv
  <2> QED
    BY <1>2, <2>1, <2>2 DEF Packets!FramesExact
<1>3. CASE status = "open" /\ busy
  <2> DEFINE w == <<>>
  <2>1. w \in Seq(LengthBytes) /\ input \o w = input
        /\ input \in Seq(LengthBytes) /\ output \in Seq(Seq(LengthBytes))
        /\ format \in Formats
    BY DEF PacketInv, PacketTypes
  <2>2. Packets!Parsed(input)[0] = Then(output, Packets!Parsed(input)[Taken])
    BY <1>3, <2>1, Zenon DEF PacketInv, Going, Progress
  <2>3. Taken \in 0 .. Len(input)
    BY <1>3, <2>1, TakenIs DEF PacketInv, Going
  <2> DEFINE ps == Packets!Parsed(input)[Taken].packets
             W == Seq(LengthBytes)
  <2>4. ps \in Seq(W) /\ output \in Seq(W)
    BY <2>1, <2>3, ParsedFacts DEF Parse
  <2>5. Packets!Parsed(input)[0].packets = output \o ps
    BY <2>2 DEF Then
  <2> HIDE DEF ps, W
  <2>6. IsPrefix(output, output \o ps)
    <3>1. output \o ps \in Seq(W) /\ Len(output \o ps) = Len(output) + Len(ps)
          /\ \A i \in 1 .. Len(output) : (output \o ps)[i] = output[i]
      BY <2>4, ConcatIs
    <3>2. SubSeq(output, 1, Len(output)) = SubSeq(output \o ps, 1, Len(output))
      <4> DEFINE s == SubSeq(output, 0 + 1, 0 + Len(output))
                 t == SubSeq(output \o ps, 0 + 1, 0 + Len(output))
                 u == output \o ps
      <4>0. Len(output) \in Nat /\ Len(ps) \in Nat
        BY <2>4
      <4>1. s \in Seq(W) /\ Len(s) = Len(output)
            /\ \A i \in 1 .. Len(output) : s[i] = output[0 + i]
        BY <2>4, <4>0, SliceIs
      <4> HIDE DEF u
      <4>2. SubSeq(u, 0 + 1, 0 + Len(output)) \in Seq(W)
            /\ Len(SubSeq(u, 0 + 1, 0 + Len(output))) = Len(output)
            /\ \A i \in 1 .. Len(output) :
                 SubSeq(u, 0 + 1, 0 + Len(output))[i] = u[0 + i]
        BY <3>1, <4>0, SliceIs DEF u
      <4>3. \A i \in 1 .. Len(output) : 0 + i = i
        OBVIOUS
      <4>4. t \in Seq(W) /\ Len(t) = Len(output)
            /\ \A i \in 1 .. Len(output) : t[i] = s[i]
        BY <3>1, <4>1, <4>2, <4>3 DEF u
      <4> HIDE DEF s, t
      <4>5. s = t
        BY <4>1, <4>4, SeqEqual
      <4> QED
        BY <4>0, <4>5 DEF s, t
    <3> QED
      BY <2>4, <3>1, <3>2 DEF IsPrefix
  <2> QED
    BY <1>3, <2>5, <2>6 DEF Packets!FramesExact, Packets!IsPrefix, IsPrefix
<1> QED
  BY <1>1, <1>2, <1>3 DEF PacketInv, PacketTypes
-----------------------------------------------------------------------------
(* SLIP.  What is escaped, by position.                                    *)
Byte == SlipBytes \cup {Undefined}

EscBody(wire, e, i) == i > 1 /\ Slip!IsEsc(wire[i - 1]) /\ ~e[i - 1]

Escapes(wire, e) == e = [i \in DOMAIN wire |-> EscBody(wire, e, i)]

LEMMA EscapedIs ==
  ASSUME NEW wire
  PROVE  Slip!EscapedAt(wire) = CHOOSE e : Escapes(wire, e)
BY DEF Slip!EscapedAt, Escapes, EscBody

LEMMA EscapedFacts ==
  ASSUME NEW wire \in Seq(Byte)
  PROVE  /\ Slip!EscapedAt(wire) \in [1 .. Len(wire) -> BOOLEAN]
         /\ \A i \in 1 .. Len(wire) :
              Slip!EscapedAt(wire)[i] =
                (i > 1 /\ Slip!IsEsc(wire[i - 1]) /\ ~Slip!EscapedAt(wire)[i - 1])
<1> DEFINE L == Len(wire)
           Upto(k, e) == /\ e \in [1 .. L -> BOOLEAN]
                         /\ \A i \in 1 .. L : i <= k => e[i] = EscBody(wire, e, i)
           P == {k \in Nat : \E e : Upto(k, e)}
<1>0. L \in Nat /\ DOMAIN wire = 1 .. L
  OBVIOUS
<1> HIDE DEF L
<1>1. 0 \in P
  <2>0. \A i \in 1 .. L : ~(i <= 0)
    BY <1>0
  <2>1. Upto(0, [i \in 1 .. L |-> FALSE])
    BY <2>0, Zenon
  <2> QED
    BY <2>1, Zenon
<1>2. ASSUME NEW k \in Nat, k \in P PROVE k + 1 \in P
  <2>1. PICK e : Upto(k, e)
    BY <1>2
  <2>2. CASE k + 1 \in 1 .. L
    <3> DEFINE b == EscBody(wire, e, k + 1)
               h == [e EXCEPT ![k + 1] = b]
    <3>1. b \in BOOLEAN
      BY DEF EscBody
    <3> HIDE DEF b
    <3>2. h \in [1 .. L -> BOOLEAN] /\ h[k + 1] = b
          /\ \A i \in 1 .. L : i # k + 1 => h[i] = e[i]
      BY <2>1, <2>2, <3>1
    <3> HIDE DEF h
    <3>3. ASSUME NEW i \in 1 .. L, i <= k + 1 PROVE h[i] = EscBody(wire, h, i)
      <4>1. i = 1 \/ (i - 1 \in 1 .. L /\ i - 1 # k + 1)
        BY <1>0, <2>2, <3>3
      <4>2. EscBody(wire, h, i) = EscBody(wire, e, i)
        BY <3>2, <4>1 DEF EscBody
      <4>3. i = k + 1 \/ i <= k
        BY <1>0, <3>3
      <4>4. CASE i = k + 1
        BY <3>2, <4>2, <4>4 DEF b
      <4>5. CASE i <= k
        BY <2>1, <3>2, <4>2, <4>5
      <4> QED
        BY <4>3, <4>4, <4>5
    <3>4. Upto(k + 1, h)
      BY <3>2, <3>3
    <3> HIDE DEF Upto
    <3> QED
      BY <3>4
  <2>3. CASE k + 1 \notin 1 .. L
    <3>1. Upto(k + 1, e)
      BY <1>0, <2>1, <2>3
    <3> HIDE DEF Upto
    <3> QED
      BY <3>1
  <2> QED
    BY <2>2, <2>3
<1> HIDE DEF P
<1>3. L \in P
  BY <1>0, <1>1, <1>2, SetInduction
<1>4. PICK e : Upto(L, e)
  BY <1>3 DEF P
<1>5. Escapes(wire, e)
  BY <1>0, <1>4 DEF Escapes
<1> DEFINE v == Slip!EscapedAt(wire)
<1>6. Escapes(wire, v)
  BY <1>5, EscapedIs
<1> HIDE DEF v
<1>7. \A i \in 1 .. L : v[i] = EscBody(wire, v, i)
  BY <1>0, <1>6, Zenon DEF Escapes
<1>8. v = [i \in 1 .. L |-> EscBody(wire, v, i)]
  BY <1>0, <1>6 DEF Escapes
<1>9. v \in [1 .. L -> BOOLEAN]
  <2>1. \A i \in 1 .. L : EscBody(wire, v, i) \in BOOLEAN
    BY DEF EscBody
  <2> DEFINE B(i) == EscBody(wire, v, i)
  <2>2. v = [i \in 1 .. L |-> B(i)] /\ \A i \in 1 .. L : B(i) \in BOOLEAN
    BY <1>8, <2>1, Zenon
  <2> HIDE DEF B
  <2> QED
    BY <2>2
<1> QED
  BY <1>7, <1>9 DEF L, v, EscBody

(* Whether the byte after a wire is escaped.                               *)
EscapesNext(wire) ==
  Len(wire) # 0 /\ Slip!IsEsc(wire[Len(wire)]) /\ ~Slip!EscapedAt(wire)[Len(wire)]

LEMMA EscapedAppend ==
  ASSUME NEW wire \in Seq(Byte), NEW b \in Byte
  PROVE  /\ Append(wire, b) \in Seq(Byte) /\ Len(Append(wire, b)) = Len(wire) + 1
         /\ \A i \in 1 .. Len(wire) : Append(wire, b)[i] = wire[i]
         /\ Append(wire, b)[Len(wire) + 1] = b
         /\ \A i \in 1 .. Len(wire) :
              Slip!EscapedAt(Append(wire, b))[i] = Slip!EscapedAt(wire)[i]
         /\ Slip!EscapedAt(Append(wire, b))[Len(wire) + 1] = EscapesNext(wire)
<1> DEFINE L == Len(wire)
           w == Append(wire, b)
           e == Slip!EscapedAt(wire)
           f == Slip!EscapedAt(w)
           P == {k \in Nat : k \in 1 .. L => f[k] = e[k]}
<1>1. w \in Seq(Byte) /\ Len(w) = L + 1 /\ L \in Nat
      /\ (\A i \in 1 .. L : w[i] = wire[i]) /\ w[L + 1] = b
  OBVIOUS
<1> HIDE DEF w
<1>2. e \in [1 .. L -> BOOLEAN] /\ f \in [1 .. L + 1 -> BOOLEAN]
  BY <1>1, EscapedFacts
<1>3. \A i \in 1 .. L : e[i] = (i > 1 /\ Slip!IsEsc(wire[i - 1]) /\ ~e[i - 1])
  BY EscapedFacts
<1>4. \A i \in 1 .. L + 1 : f[i] = (i > 1 /\ Slip!IsEsc(w[i - 1]) /\ ~f[i - 1])
  BY <1>1, EscapedFacts
<1> HIDE DEF e, f, L
<1>5. 0 \in P
  OBVIOUS
<1>6. ASSUME NEW k \in Nat, k \in P PROVE k + 1 \in P
  <2> SUFFICES ASSUME k + 1 \in 1 .. L PROVE f[k + 1] = e[k + 1]
    OBVIOUS
  <2>0. k + 1 \in 1 .. L + 1 /\ (k + 1) - 1 = k
    BY <1>1
  <2>1. CASE k = 0
    <3>1. ~(k + 1 > 1)
      BY <2>1
    <3> QED
      BY <1>3, <1>4, <2>0, <3>1, Zenon
  <2>2. CASE k # 0
    <3>1. k \in 1 .. L
      BY <1>1, <2>2
    <3> QED
      BY <1>1, <1>3, <1>4, <1>6, <2>0, <3>1
  <2> QED
    BY <2>1, <2>2
<1> HIDE DEF P
<1>7. \A k \in Nat : k \in P
  BY <1>5, <1>6, SetInduction
<1>8. \A k \in 1 .. L : f[k] = e[k]
  BY <1>1, <1>7 DEF P
<1>9. f[L + 1] = EscapesNext(wire)
  <2>1. L + 1 \in 1 .. L + 1 /\ (L + 1) - 1 = L /\ (L + 1 > 1 <=> L # 0)
    BY <1>1
  <2>2. f[L + 1] = (L # 0 /\ Slip!IsEsc(w[L]) /\ ~f[L])
    BY <1>4, <2>1
  <2>3. L # 0 => w[L] = wire[L] /\ f[L] = e[L]
    BY <1>1, <1>8
  <2> QED
    BY <2>2, <2>3 DEF EscapesNext, L, e
<1> QED
  BY <1>1, <1>8, <1>9 DEF w, L, e, f

LEMMA CardinalityIs ==
  ASSUME NEW S
  PROVE  Slip!Cardinality(S) = Cardinality(S)
BY DEF Slip!Cardinality, Cardinality

LEMMA FlattenSeqIs ==
  ASSUME NEW s
  PROVE  Slip!FlattenSeq(s) = FlattenSeq(s)
BY DEF Slip!FlattenSeq, FlattenSeq

(* One byte more: where frames end, and what is in them.                   *)
Ending(wire, b) == Slip!IsEnd(b) /\ ~EscapesNext(wire)

Spoiling(wire, b) == EscapesNext(wire) /\ Slip!Meaning(b) = Undefined

OneIf(condition) == IF condition THEN 1 ELSE 0

LEMMA EndsAppend ==
  ASSUME NEW wire \in Seq(Byte), NEW b \in Byte
  PROVE  Slip!EndsAt(Append(wire, b)) =
           Slip!EndsAt(wire)
             \cup (IF Ending(wire, b) THEN {Len(wire) + 1} ELSE {})
<1> DEFINE L == Len(wire)
           w == Append(wire, b)
<1>1. w \in Seq(Byte) /\ Len(w) = L + 1 /\ L \in Nat
      /\ (\A i \in 1 .. L : w[i] = wire[i]) /\ w[L + 1] = b
      /\ (\A i \in 1 .. L : Slip!EscapedAt(w)[i] = Slip!EscapedAt(wire)[i])
      /\ Slip!EscapedAt(w)[L + 1] = EscapesNext(wire)
  BY EscapedAppend
<1>2. DOMAIN w = 1 .. L + 1 /\ DOMAIN wire = 1 .. L
  BY <1>1
<1> HIDE DEF w, L
<1>3. ASSUME NEW i
      PROVE  i \in Slip!EndsAt(w) <=>
               i \in Slip!EndsAt(wire) \/ (i = L + 1 /\ Ending(wire, b))
  <2>1. i \in Slip!EndsAt(w) <=>
          i \in 1 .. L + 1 /\ Slip!IsEnd(w[i]) /\ ~Slip!EscapedAt(w)[i]
    BY <1>2 DEF Slip!EndsAt
  <2>2. i \in Slip!EndsAt(wire) <=>
          i \in 1 .. L /\ Slip!IsEnd(wire[i]) /\ ~Slip!EscapedAt(wire)[i]
    BY <1>2 DEF Slip!EndsAt
  <2>3. CASE i \in 1 .. L
    <3>1. i \in 1 .. L + 1 /\ i # L + 1
      BY <1>1, <2>3
    <3> QED
      BY <1>1, <2>1, <2>2, <2>3, <3>1
  <2>4. CASE i = L + 1
    <3>1. i \in 1 .. L + 1 /\ i \notin 1 .. L
      BY <1>1, <2>4
    <3> QED
      BY <1>1, <2>1, <2>2, <2>4, <3>1 DEF Ending
  <2>5. CASE i \notin 1 .. L /\ i # L + 1
    <3>1. i \notin 1 .. L + 1
      BY <1>1, <2>5
    <3> QED
      BY <2>1, <2>2, <2>5, <3>1
  <2> QED
    BY <2>3, <2>4, <2>5
<1> QED
  BY <1>3 DEF w, L

LEMMA BadAppend ==
  ASSUME NEW wire \in Seq(Byte), NEW b \in Byte
  PROVE  Slip!BadAt(Append(wire, b)) =
           Slip!BadAt(wire)
             \cup (IF Spoiling(wire, b) THEN {Len(wire) + 1} ELSE {})
<1> DEFINE L == Len(wire)
           w == Append(wire, b)
<1>1. w \in Seq(Byte) /\ Len(w) = L + 1 /\ L \in Nat
      /\ (\A i \in 1 .. L : w[i] = wire[i]) /\ w[L + 1] = b
      /\ (\A i \in 1 .. L : Slip!EscapedAt(w)[i] = Slip!EscapedAt(wire)[i])
      /\ Slip!EscapedAt(w)[L + 1] = EscapesNext(wire)
  BY EscapedAppend
<1>2. DOMAIN w = 1 .. L + 1 /\ DOMAIN wire = 1 .. L
  BY <1>1
<1> HIDE DEF w, L
<1>3. ASSUME NEW i
      PROVE  i \in Slip!BadAt(w) <=>
               i \in Slip!BadAt(wire) \/ (i = L + 1 /\ Spoiling(wire, b))
  <2>1. i \in Slip!BadAt(w) <=>
          i \in 1 .. L + 1 /\ Slip!EscapedAt(w)[i] /\ Slip!Meaning(w[i]) = Undefined
    BY <1>2 DEF Slip!BadAt
  <2>2. i \in Slip!BadAt(wire) <=>
          i \in 1 .. L /\ Slip!EscapedAt(wire)[i]
            /\ Slip!Meaning(wire[i]) = Undefined
    BY <1>2 DEF Slip!BadAt
  <2>3. CASE i \in 1 .. L
    <3>1. i \in 1 .. L + 1 /\ i # L + 1
      BY <1>1, <2>3
    <3> QED
      BY <1>1, <2>1, <2>2, <2>3, <3>1
  <2>4. CASE i = L + 1
    <3>1. i \in 1 .. L + 1 /\ i \notin 1 .. L
      BY <1>1, <2>4
    <3> QED
      BY <1>1, <2>1, <2>2, <2>4, <3>1 DEF Spoiling
  <2>5. CASE i \notin 1 .. L /\ i # L + 1
    <3>1. i \notin 1 .. L + 1
      BY <1>1, <2>5
    <3> QED
      BY <2>1, <2>2, <2>5, <3>1
  <2> QED
    BY <2>3, <2>4, <2>5
<1> QED
  BY <1>3 DEF w, L

LEMMA Positions ==
  ASSUME NEW wire \in Seq(Byte)
  PROVE  /\ Slip!EndsAt(wire) \subseteq 1 .. Len(wire)
         /\ Slip!BadAt(wire) \subseteq 1 .. Len(wire)
         /\ \A S \in SUBSET (1 .. Len(wire)) :
              IsFiniteSet(S) /\ Cardinality(S) \in Nat
<1>1. DOMAIN wire = 1 .. Len(wire) /\ Len(wire) \in Nat
  OBVIOUS
<1>2. IsFiniteSet(1 .. Len(wire))
  BY <1>1, FS_Interval
<1> QED
  BY <1>1, <1>2, FS_Subset, FS_CardinalityType, Zenon DEF Slip!EndsAt, Slip!BadAt

LEMMA CompleteAppend ==
  ASSUME NEW wire \in Seq(Byte), NEW b \in Byte
  PROVE  /\ Slip!Complete(wire) \in Nat
         /\ Slip!Complete(Append(wire, b)) =
              Slip!Complete(wire) + OneIf(Ending(wire, b) \/ Spoiling(wire, b))
<1> DEFINE L == Len(wire)
           E == Slip!EndsAt(wire)
           B == Slip!BadAt(wire)
<1>1. /\ IsFiniteSet(E) /\ IsFiniteSet(B) /\ L + 1 \notin E /\ L + 1 \notin B
      /\ Cardinality(E) \in Nat /\ Cardinality(B) \in Nat
  <2>1. L + 1 \notin 1 .. L
    OBVIOUS
  <2> QED
    BY <2>1, Positions
<1>2. ~(Ending(wire, b) /\ Spoiling(wire, b))
  BY DEF Ending, Spoiling
<1> HIDE DEF E, B, L
<1>3. Cardinality(E \cup (IF Ending(wire, b) THEN {L + 1} ELSE {}))
        = Cardinality(E) + OneIf(Ending(wire, b))
  <2>1. CASE Ending(wire, b)
    BY <1>1, <2>1, FS_AddElement, Zenon DEF OneIf
  <2>2. CASE ~Ending(wire, b)
    BY <1>1, <2>2 DEF OneIf
  <2> QED
    BY <2>1, <2>2
<1>4. Cardinality(B \cup (IF Spoiling(wire, b) THEN {L + 1} ELSE {}))
        = Cardinality(B) + OneIf(Spoiling(wire, b))
  <2>1. CASE Spoiling(wire, b)
    BY <1>1, <2>1, FS_AddElement, Zenon DEF OneIf
  <2>2. CASE ~Spoiling(wire, b)
    BY <1>1, <2>2 DEF OneIf
  <2> QED
    BY <2>1, <2>2
<1>5. Slip!Complete(Append(wire, b)) =
        Cardinality(E) + OneIf(Ending(wire, b))
          + Cardinality(B) + OneIf(Spoiling(wire, b))
  <2>1. Slip!Complete(Append(wire, b)) =
          Cardinality(E \cup (IF Ending(wire, b) THEN {L + 1} ELSE {}))
          + Cardinality(B \cup (IF Spoiling(wire, b) THEN {L + 1} ELSE {}))
    BY EndsAppend, BadAppend, CardinalityIs, Zenon DEF Slip!Complete, E, B, L
  <2>2. OneIf(Ending(wire, b)) \in Nat /\ OneIf(Spoiling(wire, b)) \in Nat
    BY DEF OneIf
  <2> QED
    BY <1>1, <1>3, <1>4, <2>1, <2>2
<1>6. Slip!Complete(wire) = Cardinality(E) + Cardinality(B)
  BY CardinalityIs DEF Slip!Complete, E, B
<1> QED
  BY <1>1, <1>2, <1>5, <1>6 DEF OneIf

(* The positions that are known keep their frame, and the new one has its. *)
LEMMA FrameOfAppend ==
  ASSUME NEW wire \in Seq(Byte), NEW b \in Byte
  PROVE  /\ \A i \in 1 .. Len(wire) :
              /\ Slip!FrameOf(Append(wire, b), i) = Slip!FrameOf(wire, i)
              /\ Slip!FrameOf(wire, i) \in Nat
              /\ Slip!FrameOf(wire, i) <= Slip!Complete(wire)
         /\ Slip!FrameOf(Append(wire, b), Len(wire) + 1) =
              Slip!Complete(wire) + OneIf(Spoiling(wire, b))
<1> DEFINE L == Len(wire)
           w == Append(wire, b)
           E == Slip!EndsAt(wire)
           B == Slip!BadAt(wire)
<1>1. L \in Nat /\ E \subseteq 1 .. L /\ B \subseteq 1 .. L
      /\ \A S \in SUBSET (1 .. L) : IsFiniteSet(S) /\ Cardinality(S) \in Nat
  BY Positions
<1>2. Slip!EndsAt(w) = E \cup (IF Ending(wire, b) THEN {L + 1} ELSE {})
  BY EndsAppend
<1>3. Slip!BadAt(w) = B \cup (IF Spoiling(wire, b) THEN {L + 1} ELSE {})
  BY BadAppend
<1>4. Slip!Complete(wire) = Cardinality(E) + Cardinality(B)
  BY CardinalityIs DEF Slip!Complete
<1> HIDE DEF L, w, E, B
<1>5. ASSUME NEW i \in 1 .. L
      PROVE  /\ Slip!FrameOf(w, i) = Slip!FrameOf(wire, i)
             /\ Slip!FrameOf(wire, i) \in Nat
             /\ Slip!FrameOf(wire, i) <= Slip!Complete(wire)
  <2>1. L + 1 \notin 1 .. i - 1 /\ L + 1 \notin 1 .. i
    BY <1>1
  <2>2. Slip!EndsAt(w) \cap 1 .. i - 1 = E \cap 1 .. i - 1
        /\ Slip!BadAt(w) \cap 1 .. i = B \cap 1 .. i
    BY <1>2, <1>3, <2>1
  <2>3. Slip!FrameOf(wire, i) =
          Cardinality(E \cap 1 .. i - 1) + Cardinality(B \cap 1 .. i)
    BY CardinalityIs DEF Slip!FrameOf, E, B
  <2>4. Slip!FrameOf(w, i) = Slip!FrameOf(wire, i)
    BY <2>2, <2>3, CardinalityIs, Zenon DEF Slip!FrameOf
  <2>5. /\ E \cap 1 .. i - 1 \in SUBSET E /\ B \cap 1 .. i \in SUBSET B
        /\ E \in SUBSET (1 .. L) /\ B \in SUBSET (1 .. L)
    BY <1>1
  <2>6. /\ Cardinality(E \cap 1 .. i - 1) <= Cardinality(E)
        /\ Cardinality(B \cap 1 .. i) <= Cardinality(B)
        /\ Cardinality(E) \in Nat /\ Cardinality(B) \in Nat
        /\ Cardinality(E \cap 1 .. i - 1) \in Nat
        /\ Cardinality(B \cap 1 .. i) \in Nat
    BY <1>1, <2>5, FS_Subset
  <2> QED
    BY <1>4, <2>3, <2>4, <2>6
<1>6. Slip!FrameOf(w, L + 1) = Slip!Complete(wire) + OneIf(Spoiling(wire, b))
  <2>1. (L + 1) - 1 = L /\ L + 1 \notin 1 .. L /\ 1 .. L + 1 = (1 .. L) \cup {L + 1}
    BY <1>1
  <2>2. Slip!EndsAt(w) \cap 1 .. (L + 1) - 1 = E
    BY <1>1, <1>2, <2>1, Zenon
  <2>3. Slip!BadAt(w) \cap 1 .. L + 1
          = B \cup (IF Spoiling(wire, b) THEN {L + 1} ELSE {})
    BY <1>1, <1>3, <2>1, Zenon
  <2>4. Cardinality(B \cup (IF Spoiling(wire, b) THEN {L + 1} ELSE {}))
          = Cardinality(B) + OneIf(Spoiling(wire, b))
    <3>1. IsFiniteSet(B) /\ Cardinality(B) \in Nat /\ L + 1 \notin B
      BY <1>1, <2>1
    <3>2. CASE Spoiling(wire, b)
      BY <3>1, <3>2, FS_AddElement, Zenon DEF OneIf
    <3>3. CASE ~Spoiling(wire, b)
      BY <3>1, <3>3 DEF OneIf
    <3> QED
      BY <3>2, <3>3
  <2>5. Slip!FrameOf(w, L + 1) =
          Cardinality(E) + (Cardinality(B) + OneIf(Spoiling(wire, b)))
    BY <2>2, <2>3, <2>4, CardinalityIs, Zenon DEF Slip!FrameOf
  <2>6. Cardinality(E) \in Nat /\ Cardinality(B) \in Nat
        /\ OneIf(Spoiling(wire, b)) \in Nat
    BY <1>1 DEF OneIf
  <2> QED
    BY <1>4, <2>5, <2>6
<1> QED
  BY <1>5, <1>6 DEF L, w

(* Whether the byte after a wire would lie in a frame.                     *)
WithinNext(wire) == Slip!Within(wire, Len(wire) + 1)

LEMMA WithinAppend ==
  ASSUME NEW wire \in Seq(Byte), NEW b \in Byte
  PROVE  /\ \A i \in 1 .. Len(wire) + 1 :
              Slip!Within(Append(wire, b), i) <=> Slip!Within(wire, i)
         /\ WithinNext(Append(wire, b)) <=>
              \/ coding.START = Undefined
              \/ ~EscapesNext(wire) /\ b = coding.START
              \/ WithinNext(wire) /\ ~Ending(wire, b)
<1> DEFINE L == Len(wire)
           w == Append(wire, b)
           E == Slip!EndsAt(wire)
           F == Slip!EndsAt(w)
           e == Slip!EscapedAt(wire)
           f == Slip!EscapedAt(w)
<1>1. L \in Nat /\ Len(w) = L + 1
      /\ (\A i \in 1 .. L : w[i] = wire[i]) /\ w[L + 1] = b
      /\ (\A i \in 1 .. L : f[i] = e[i]) /\ f[L + 1] = EscapesNext(wire)
  BY EscapedAppend
<1>2. F = E \cup (IF Ending(wire, b) THEN {L + 1} ELSE {})
  BY EndsAppend
<1>3. E \subseteq 1 .. L
  BY Positions
<1> HIDE DEF L, w, E, F, e, f
<1> DEFINE Opens(v, g, X, s, n) ==
             v[s] = coding.START /\ ~g[s] /\ X \cap s .. n = {}
<1>4. ASSUME NEW v, NEW i, NEW n, n = i - 1
      PROVE  Slip!Within(v, i) <=>
               \/ coding.START = Undefined
               \/ \E s \in 1 .. n :
                    Opens(v, Slip!EscapedAt(v), Slip!EndsAt(v), s, n)
  BY <1>4 DEF Slip!Within
<1>5. ASSUME NEW i \in 1 .. L + 1
      PROVE  Slip!Within(w, i) <=> Slip!Within(wire, i)
  <2>1. ASSUME NEW s \in 1 .. i - 1
        PROVE  Opens(w, f, F, s, i - 1) <=> Opens(wire, e, E, s, i - 1)
    <3>1. s \in 1 .. L /\ L + 1 \notin s .. i - 1
      BY <1>1
    <3>2. F \cap s .. i - 1 = E \cap s .. i - 1
      BY <1>2, <3>1
    <3> QED
      BY <1>1, <3>1, <3>2
  <2> HIDE DEF Opens
  <2> QED
    BY <1>4, <2>1 DEF e, f, E, F
<1>6. Slip!Within(w, (L + 1) + 1) <=>
        \/ coding.START = Undefined
        \/ ~EscapesNext(wire) /\ b = coding.START
        \/ Slip!Within(wire, L + 1) /\ ~Ending(wire, b)
  <2>1. (L + 1) + 1 - 1 = L + 1 /\ (L + 1) - 1 = L
    BY <1>1
  <2>2. Slip!Within(w, (L + 1) + 1) <=>
          \/ coding.START = Undefined
          \/ \E s \in 1 .. L + 1 : Opens(w, f, F, s, L + 1)
    <3> HIDE DEF Opens
    <3>1. L + 1 = ((L + 1) + 1) - 1
      BY <1>1
    <3> QED
      BY <1>4, <3>1, Zenon DEF f, F
  <2>3. Slip!Within(wire, L + 1) <=>
          \/ coding.START = Undefined
          \/ \E s \in 1 .. L : Opens(wire, e, E, s, L)
    <3> HIDE DEF Opens
    <3> QED
      BY <1>4, <2>1 DEF e, E
  <2>4. ASSUME NEW s \in 1 .. L
        PROVE  Opens(w, f, F, s, L + 1) <=>
                 Opens(wire, e, E, s, L) /\ ~Ending(wire, b)
    <3>1. L + 1 \in s .. L + 1 /\ s .. L + 1 = (s .. L) \cup {L + 1} /\ L + 1 \notin E
      BY <1>1, <1>3
    <3>2. F \cap s .. L + 1 = {} <=> E \cap s .. L = {} /\ ~Ending(wire, b)
      BY <1>2, <3>1
    <3> QED
      BY <1>1, <3>2
  <2>5. Opens(w, f, F, L + 1, L + 1) <=> ~EscapesNext(wire) /\ b = coding.START
    <3>1. (L + 1) .. L + 1 = {L + 1} /\ L + 1 \notin E
      BY <1>1, <1>3
    <3>2. b = coding.START => ~Ending(wire, b)
      BY DEF Ending, Slip!IsEnd
    <3>3. b = coding.START => F \cap (L + 1) .. L + 1 = {}
      BY <1>2, <3>1, <3>2
    <3> QED
      BY <1>1, <3>3
  <2>6. \A s \in 1 .. L + 1 : s \in 1 .. L \/ s = L + 1
    BY <1>1
  <2>7. \A s \in 1 .. L : s \in 1 .. L + 1
    BY <1>1
  <2>8. L + 1 \in 1 .. L + 1
    BY <1>1
  <2>9. b = coding.START => ~Ending(wire, b)
    BY DEF Ending, Slip!IsEnd
  <2> HIDE DEF Opens
  <2>10. (\E s \in 1 .. L + 1 : Opens(w, f, F, s, L + 1)) <=>
           \/ ~EscapesNext(wire) /\ b = coding.START
           \/ (\E s \in 1 .. L : Opens(wire, e, E, s, L)) /\ ~Ending(wire, b)
    BY <2>4, <2>5, <2>6, <2>7, <2>8
  <2> QED
    BY <2>2, <2>3, <2>10
<1> QED
  BY <1>1, <1>5, <1>6 DEF WithinNext, L, w

(* What the byte after a wire adds to its frame.                           *)
IsDataNext(wire, b) ==
  /\ WithinNext(wire)
  /\ EscapesNext(wire) \/ b \notin {coding.START, coding.ESC, coding.END}

ValueNext(wire, b) ==
  IF EscapesNext(wire) /\ ~Spoiling(wire, b) THEN Slip!Meaning(b) ELSE b

LEMMA DataAppend ==
  ASSUME NEW wire \in Seq(Byte), NEW b \in Byte
  PROVE  /\ \A i \in 1 .. Len(wire) :
              /\ Slip!IsData(Append(wire, b), i) <=> Slip!IsData(wire, i)
              /\ Slip!Value(Append(wire, b), i) = Slip!Value(wire, i)
         /\ Slip!IsData(Append(wire, b), Len(wire) + 1) <=> IsDataNext(wire, b)
         /\ Slip!Value(Append(wire, b), Len(wire) + 1) = ValueNext(wire, b)
<1> DEFINE L == Len(wire)
           w == Append(wire, b)
           e == Slip!EscapedAt(wire)
           f == Slip!EscapedAt(w)
           B == Slip!BadAt(wire)
           C == Slip!BadAt(w)
<1>1. L \in Nat /\ Len(w) = L + 1
      /\ (\A i \in 1 .. L : w[i] = wire[i]) /\ w[L + 1] = b
      /\ (\A i \in 1 .. L : f[i] = e[i]) /\ f[L + 1] = EscapesNext(wire)
  BY EscapedAppend
<1>2. C = B \cup (IF Spoiling(wire, b) THEN {L + 1} ELSE {})
      /\ B \subseteq 1 .. L
  BY BadAppend, Positions
<1>3. /\ \A i \in 1 .. L + 1 : Slip!Within(w, i) <=> Slip!Within(wire, i)
      /\ Slip!Within(wire, L + 1) <=> WithinNext(wire)
  BY WithinAppend DEF WithinNext
<1> HIDE DEF L, w, e, f, B, C
<1>4. ASSUME NEW i \in 1 .. L
      PROVE  /\ Slip!IsData(w, i) <=> Slip!IsData(wire, i)
             /\ Slip!Value(w, i) = Slip!Value(wire, i)
  <2>1. i \in 1 .. L + 1 /\ i # L + 1
    BY <1>1
  <2>2. i \in C <=> i \in B
    BY <1>2, <2>1
  <2> QED
    BY <1>1, <1>3, <2>1, <2>2 DEF Slip!IsData, Slip!Value, e, f, B, C
<1>5. L + 1 \in 1 .. L + 1 /\ L + 1 \notin B
  BY <1>1, <1>2
<1>6. Slip!IsData(w, L + 1) <=> IsDataNext(wire, b)
  BY <1>1, <1>3, <1>5 DEF Slip!IsData, IsDataNext, f
<1>7. Slip!Value(w, L + 1) = ValueNext(wire, b)
  <2>1. L + 1 \in C <=> Spoiling(wire, b)
    BY <1>2, <1>5
  <2> QED
    BY <1>1, <2>1 DEF Slip!Value, ValueNext, f, C
<1> QED
  BY <1>4, <1>6, <1>7 DEF L, w

LEMMA MeaningType ==
  ASSUME coding \in Codings, NEW b
  PROVE  Slip!Meaning(b) \in Byte
<1>1. coding.ESC \in Byte /\ coding.END \in Byte /\ coding.START \in Byte
      /\ Undefined \in Byte
  BY ParserAssumption DEF Byte
<1> QED
  BY <1>1 DEF Slip!Meaning

LEMMA ValueType ==
  ASSUME coding \in Codings, NEW wire \in Seq(Byte), NEW i \in 1 .. Len(wire)
  PROVE  Slip!Value(wire, i) \in Byte
<1>1. wire[i] \in Byte
  OBVIOUS
<1> QED
  BY <1>1, MeaningType DEF Slip!Value

(* The bytes of a frame, as pieces of one byte or none.                    *)
Piece(condition, value) == IF condition THEN <<value>> ELSE <<>>

Pieces(wire, n) ==
  [i \in 1 .. Len(wire) |->
     Piece(Slip!IsData(wire, i) /\ Slip!FrameOf(wire, i) = n, Slip!Value(wire, i))]

LEMMA FrameIs ==
  ASSUME coding \in Codings, NEW wire \in Seq(Byte), NEW n
  PROVE  /\ Pieces(wire, n) \in Seq(Seq(Byte)) /\ Len(Pieces(wire, n)) = Len(wire)
         /\ Slip!FrameAt(wire, n) = FlattenSeq(Pieces(wire, n))
         /\ Slip!FrameAt(wire, n) \in Seq(Byte)
<1>1. \A i \in 1 .. Len(wire) :
        Piece(Slip!IsData(wire, i) /\ Slip!FrameOf(wire, i) = n,
              Slip!Value(wire, i)) \in Seq(Byte)
  BY ValueType DEF Piece
<1>2. Len(wire) \in Nat /\ DOMAIN wire = 1 .. Len(wire)
  OBVIOUS
<1>3. Pieces(wire, n) \in Seq(Seq(Byte)) /\ Len(Pieces(wire, n)) = Len(wire)
  <2> DEFINE P(i) == Piece(Slip!IsData(wire, i) /\ Slip!FrameOf(wire, i) = n,
                           Slip!Value(wire, i))
             L == Len(wire)
             B == Seq(Byte)
  <2>1. \A i \in 1 .. L : P(i) \in B
    BY <1>1
  <2> HIDE DEF P, L, B
  <2>2. L \in Nat => [i \in 1 .. L |-> P(i)] \in Seq(B)
                     /\ Len([i \in 1 .. L |-> P(i)]) = L
    BY <2>1
  <2> QED
    BY <1>2, <2>2 DEF Pieces, P, L, B
<1>4. Slip!FrameAt(wire, n) = FlattenSeq(Pieces(wire, n))
  BY <1>2, FlattenSeqIs DEF Slip!FrameAt, Pieces, Piece
<1> QED
  BY <1>3, <1>4, FlattenType

LEMMA FrameAppend ==
  ASSUME coding \in Codings, NEW wire \in Seq(Byte), NEW b \in Byte, NEW n
  PROVE  Slip!FrameAt(Append(wire, b), n) =
           Slip!FrameAt(wire, n)
             \o Piece(/\ IsDataNext(wire, b)
                      /\ Slip!Complete(wire) + OneIf(Spoiling(wire, b)) = n,
                      ValueNext(wire, b))
<1> DEFINE L == Len(wire)
           w == Append(wire, b)
           p == Piece(/\ IsDataNext(wire, b)
                      /\ Slip!Complete(wire) + OneIf(Spoiling(wire, b)) = n,
                      ValueNext(wire, b))
<1>1. L \in Nat /\ w \in Seq(Byte) /\ Len(w) = L + 1
  BY EscapedAppend
<1>2. /\ \A i \in 1 .. L :
           /\ Slip!IsData(w, i) <=> Slip!IsData(wire, i)
           /\ Slip!Value(w, i) = Slip!Value(wire, i)
           /\ Slip!FrameOf(w, i) = Slip!FrameOf(wire, i)
      /\ Slip!IsData(w, L + 1) <=> IsDataNext(wire, b)
      /\ Slip!Value(w, L + 1) = ValueNext(wire, b)
      /\ Slip!FrameOf(w, L + 1) = Slip!Complete(wire) + OneIf(Spoiling(wire, b))
  BY DataAppend, FrameOfAppend
<1>3. Pieces(wire, n) \in Seq(Seq(Byte)) /\ Len(Pieces(wire, n)) = L
      /\ Pieces(w, n) \in Seq(Seq(Byte)) /\ Len(Pieces(w, n)) = L + 1
      /\ Slip!FrameAt(wire, n) = FlattenSeq(Pieces(wire, n))
      /\ Slip!FrameAt(w, n) = FlattenSeq(Pieces(w, n))
  BY <1>1, FrameIs, Zenon
<1> HIDE DEF w, p
<1>4. Pieces(w, n)[L + 1] = p
  <2>1. L + 1 \in 1 .. Len(w)
    BY <1>1
  <2> QED
    BY <1>2, <2>1 DEF Pieces, p, Piece
<1>5. p \in Seq(Byte)
  <2>1. L + 1 \in 1 .. L + 1
    BY <1>1
  <2> HIDE DEF L
  <2> QED
    BY <1>3, <1>4, <2>1
<1>6. Pieces(w, n) = Append(Pieces(wire, n), p)
  <2> DEFINE P == Pieces(w, n)
             Q == Pieces(wire, n)
             R == Append(Q, p)
  <2>1. \A i \in 1 .. L : P[i] = Q[i]
    <3> TAKE i \in 1 .. L
    <3>1. i \in 1 .. Len(w)
      BY <1>1
    <3> QED
      BY <1>2, <3>1 DEF Pieces, Piece
  <2> HIDE DEF P, Q, L
  <2>2. R \in Seq(Seq(Byte)) /\ Len(R) = L + 1 /\ R[L + 1] = p
        /\ \A i \in 1 .. L : R[i] = Q[i]
    BY <1>1, <1>3, <1>5 DEF P, Q
  <2> HIDE DEF R
  <2>3. \A i \in 1 .. L + 1 : P[i] = R[i]
    <3> TAKE i \in 1 .. L + 1
    <3>1. i \in 1 .. L \/ i = L + 1
      BY <1>1
    <3> QED
      BY <1>4, <2>1, <2>2, <3>1 DEF P
  <2>4. P = R
    BY <1>3, <2>2, <2>3, SeqEqual, Zenon DEF P
  <2> QED
    BY <2>4 DEF P, Q, R
<1>7. FlattenSeq(Append(Pieces(wire, n), p)) = FlattenSeq(Pieces(wire, n)) \o p
  BY <1>3, <1>5, FlattenAppend, Zenon
<1> QED
  BY <1>3, <1>6, <1>7, Zenon DEF w, p

(* The frames that are complete, and the one that is not.                  *)
LEMMA FlattenNothing ==
  ASSUME NEW S, NEW s \in Seq(Seq(S)), \A i \in 1 .. Len(s) : s[i] = <<>>
  PROVE  FlattenSeq(s) = <<>>
<1> DEFINE L == Len(s)
           f == Flattening(s)
           P == {n \in Nat : n \in 1 .. L => f[n] = <<>>}
<1>1. L \in Nat
      /\ \A i \in 1 .. L : f[i] = IF i = 1 THEN s[i] ELSE f[i - 1] \o s[i]
  <2>1. L \in Nat
    OBVIOUS
  <2> QED
    BY <2>1, FlatteningFacts, Zenon
<1>2. FlattenSeq(s) = IF L = 0 THEN s ELSE f[L]
  BY FlattenSeqValue
<1> HIDE DEF f
<1>3. 0 \in P
  OBVIOUS
<1>4. ASSUME NEW n \in Nat, n \in P PROVE n + 1 \in P
  <2> SUFFICES ASSUME n + 1 \in 1 .. L PROVE f[n + 1] = <<>>
    OBVIOUS
  <2>1. CASE n = 0
    BY <1>1, <2>1
  <2>2. CASE n # 0
    <3>1. n \in 1 .. L /\ n + 1 # 1 /\ (n + 1) - 1 = n
      BY <1>1, <2>2
    <3>2. f[n + 1] = f[n] \o s[n + 1] /\ f[n] = <<>> /\ s[n + 1] = <<>>
      BY <1>1, <1>4, <3>1, Zenon
    <3>3. <<>> \o <<>> = <<>>
      OBVIOUS
    <3> QED
      BY <3>2, <3>3
  <2> QED
    BY <2>1, <2>2
<1> HIDE DEF P
<1>5. L \in P
  BY <1>1, <1>3, <1>4, SetInduction, Zenon
<1>6. CASE L = 0
  BY <1>2, <1>6
<1>7. CASE L # 0
  <2>1. L \in 1 .. L
    BY <1>1, <1>7
  <2> QED
    BY <1>2, <1>5, <1>7, <2>1 DEF P
<1> QED
  BY <1>6, <1>7

LEMMA NoFrameBeyond ==
  ASSUME coding \in Codings, NEW wire \in Seq(Byte),
         NEW n \in Nat, n > Slip!Complete(wire)
  PROVE  Slip!FrameAt(wire, n) = <<>>
<1>1. Undefined \in Byte /\ Slip!Complete(wire) \in Nat
  BY CompleteAppend, Zenon DEF Byte
<1>2. \A i \in 1 .. Len(wire) :
        Slip!FrameOf(wire, i) \in Nat /\ Slip!FrameOf(wire, i) <= Slip!Complete(wire)
  BY <1>1, FrameOfAppend
<1>3. \A i \in 1 .. Len(wire) : Slip!FrameOf(wire, i) # n
  BY <1>1, <1>2
<1>4. Pieces(wire, n) \in Seq(Seq(Byte)) /\ Len(Pieces(wire, n)) = Len(wire)
      /\ Slip!FrameAt(wire, n) = FlattenSeq(Pieces(wire, n))
  BY FrameIs
<1>5. \A i \in 1 .. Len(wire) : Pieces(wire, n)[i] = <<>>
  BY <1>3 DEF Pieces, Piece
<1> QED
  BY <1>4, <1>5, FlattenNothing

LEMMA OneOrNoneType ==
  ASSUME NEW frame \in Seq(Byte)
  PROVE  Slip!OneOrNone(frame) \in Seq(Seq(Byte))
BY DEF Slip!OneOrNone

(* The frames up to the nth, as pieces of one frame or none.               *)
FramePieces(wire, n) == [i \in 1 .. n |-> Slip!OneOrNone(Slip!FrameAt(wire, i - 1))]

LEMMA FramesAre ==
  ASSUME coding \in Codings, NEW wire \in Seq(Byte), NEW n \in Nat
  PROVE  /\ FramePieces(wire, n) \in Seq(Seq(Seq(Byte)))
         /\ Len(FramePieces(wire, n)) = n
         /\ FlattenSeq(FramePieces(wire, n)) \in Seq(Seq(Byte))
<1> DEFINE F(i) == Slip!OneOrNone(Slip!FrameAt(wire, i - 1))
           B == Seq(Seq(Byte))
<1>1. \A i \in 1 .. n : F(i) \in B
  BY FrameIs, OneOrNoneType
<1> HIDE DEF F, B
<1>2. [i \in 1 .. n |-> F(i)] \in Seq(B) /\ Len([i \in 1 .. n |-> F(i)]) = n
  BY <1>1
<1>3. FramePieces(wire, n) \in Seq(B) /\ Len(FramePieces(wire, n)) = n
  BY <1>2 DEF FramePieces, F
<1> QED
  BY <1>3, FlattenType DEF B

LEMMA FramesOfIs ==
  ASSUME NEW wire
  PROVE  Slip!FramesOf(wire) = FlattenSeq(FramePieces(wire, Slip!Complete(wire)))
BY FlattenSeqIs DEF Slip!FramesOf, FramePieces

LEMMA OneMoreFrame ==
  ASSUME coding \in Codings, NEW wire \in Seq(Byte), NEW n \in Nat
  PROVE  FlattenSeq(FramePieces(wire, n + 1)) =
           FlattenSeq(FramePieces(wire, n)) \o Slip!OneOrNone(Slip!FrameAt(wire, n))
<1> DEFINE P == FramePieces(wire, n)
           Q == FramePieces(wire, n + 1)
           x == Slip!OneOrNone(Slip!FrameAt(wire, n))
           R == Append(P, x)
           B == Seq(Seq(Byte))
<1>1. P \in Seq(B) /\ Len(P) = n /\ Q \in Seq(B) /\ Len(Q) = n + 1 /\ x \in B
  <2>1. n + 1 \in Nat
    OBVIOUS
  <2>2. Q \in Seq(B) /\ Len(Q) = n + 1
    BY <2>1, FramesAre
  <2>3. P \in Seq(B) /\ Len(P) = n
    BY FramesAre
  <2>4. x \in B
    BY FrameIs, OneOrNoneType
  <2> QED
    BY <2>2, <2>3, <2>4
<1>2. \A i \in 1 .. n : Q[i] = P[i]
  <2>1. \A i \in 1 .. n : i \in 1 .. n + 1
    OBVIOUS
  <2> QED
    BY <2>1 DEF FramePieces
<1>3. Q[n + 1] = x
  <2>1. n + 1 \in 1 .. n + 1 /\ (n + 1) - 1 = n
    OBVIOUS
  <2> QED
    BY <2>1 DEF FramePieces
<1>8. FlattenSeq(Append(P, x)) = FlattenSeq(P) \o x
  BY <1>1, FlattenAppend, Zenon
<1> HIDE DEF P, Q, x, B
<1>4. R \in Seq(B) /\ Len(R) = n + 1 /\ R[n + 1] = x
      /\ \A i \in 1 .. n : R[i] = P[i]
  BY <1>1
<1> HIDE DEF R
<1>5. \A i \in 1 .. n + 1 : Q[i] = R[i]
  <2> TAKE i \in 1 .. n + 1
  <2>1. i \in 1 .. n \/ i = n + 1
    OBVIOUS
  <2> QED
    BY <1>2, <1>3, <1>4, <2>1
<1>6. Q = R
  BY <1>1, <1>4, <1>5, SeqEqual
<1> QED
  BY <1>6, <1>8, Zenon DEF P, Q, R, x

(* A byte that ends or spoils the frame completes it.                      *)
Completes(wire, b) == Ending(wire, b) \/ Spoiling(wire, b)

LEMMA FramesAppend ==
  ASSUME coding \in Codings, NEW wire \in Seq(Byte), NEW b \in Byte
  PROVE  /\ Slip!FramesOf(Append(wire, b)) =
              IF Completes(wire, b)
              THEN Slip!FramesOf(wire) \o Slip!OneOrNone(Slip!RestOf(wire))
              ELSE Slip!FramesOf(wire)
         /\ Slip!RestOf(Append(wire, b)) =
              (IF Completes(wire, b) THEN <<>> ELSE Slip!RestOf(wire))
                \o Piece(IsDataNext(wire, b), ValueNext(wire, b))
<1> DEFINE w == Append(wire, b)
           C == Slip!Complete(wire)
           p(n) == Piece(/\ IsDataNext(wire, b) /\ C + OneIf(Spoiling(wire, b)) = n,
                         ValueNext(wire, b))
<1>1. w \in Seq(Byte) /\ C \in Nat
      /\ Slip!Complete(w) = C + OneIf(Completes(wire, b))
  BY EscapedAppend, CompleteAppend DEF Completes
<1>2. \A n : Slip!FrameAt(w, n) = Slip!FrameAt(wire, n) \o p(n)
  BY FrameAppend, Zenon
<1>3. \A n : Slip!FrameAt(wire, n) \in Seq(Byte)
  BY FrameIs
<1>4. Ending(wire, b) => ~IsDataNext(wire, b)
  BY DEF Ending, IsDataNext, Slip!IsEnd
<1>5. ASSUME NEW n \in Nat, n < C PROVE Slip!FrameAt(w, n) = Slip!FrameAt(wire, n)
  <2>1. C + OneIf(Spoiling(wire, b)) # n
    BY <1>1, <1>5 DEF OneIf
  <2>2. p(n) = <<>>
    BY <2>1 DEF Piece
  <2> HIDE DEF p
  <2> QED
    BY <1>2, <1>3, <2>2
<1>6. Completes(wire, b) => Slip!FrameAt(w, C) = Slip!RestOf(wire)
  <2> SUFFICES ASSUME Completes(wire, b)
               PROVE  Slip!FrameAt(w, C) = Slip!RestOf(wire)
    OBVIOUS
  <2>1. IsDataNext(wire, b) => C + OneIf(Spoiling(wire, b)) # C
    BY <1>1, <1>4 DEF OneIf, Completes
  <2>2. p(C) = <<>>
    BY <2>1 DEF Piece
  <2> HIDE DEF p, C
  <2> QED
    BY <1>2, <1>3, <2>2 DEF Slip!RestOf, C
<1>7. FramePieces(w, C) = FramePieces(wire, C)
  <2>1. \A i \in 1 .. C : i - 1 \in Nat /\ i - 1 < C
    BY <1>1
  <2> HIDE DEF w, C
  <2> QED
    BY <1>5, <2>1 DEF FramePieces
<1>8. Slip!FramesOf(w) =
        IF Completes(wire, b)
        THEN Slip!FramesOf(wire) \o Slip!OneOrNone(Slip!RestOf(wire))
        ELSE Slip!FramesOf(wire)
  <2>1. Slip!FramesOf(w) = FlattenSeq(FramePieces(w, Slip!Complete(w)))
        /\ Slip!FramesOf(wire) = FlattenSeq(FramePieces(wire, C))
    BY FramesOfIs
  <2>2. CASE Completes(wire, b)
    <3>1. Slip!Complete(w) = C + 1
      BY <1>1, <2>2 DEF OneIf
    <3>2. FlattenSeq(FramePieces(w, C + 1)) =
            FlattenSeq(FramePieces(w, C)) \o Slip!OneOrNone(Slip!FrameAt(w, C))
      BY <1>1, OneMoreFrame, Zenon
    <3> QED
      BY <1>6, <1>7, <2>1, <2>2, <3>1, <3>2
  <2>3. CASE ~Completes(wire, b)
    <3>1. Slip!Complete(w) = C
      BY <1>1, <2>3 DEF OneIf
    <3> QED
      BY <1>7, <2>1, <2>3, <3>1
  <2> QED
    BY <2>2, <2>3
<1>9. Slip!RestOf(w) =
        (IF Completes(wire, b) THEN <<>> ELSE Slip!RestOf(wire))
          \o Piece(IsDataNext(wire, b), ValueNext(wire, b))
  <2>1. Slip!RestOf(w) = Slip!FrameAt(wire, Slip!Complete(w)) \o p(Slip!Complete(w))
    BY <1>2, Zenon DEF Slip!RestOf
  <2>2. p(Slip!Complete(w)) = Piece(IsDataNext(wire, b), ValueNext(wire, b))
    <3>1. IsDataNext(wire, b)
            => C + OneIf(Spoiling(wire, b)) = Slip!Complete(w)
      BY <1>1, <1>4 DEF Completes, OneIf
    <3> QED
      BY <3>1 DEF Piece
  <2>3. Slip!FrameAt(wire, Slip!Complete(w)) =
          IF Completes(wire, b) THEN <<>> ELSE Slip!RestOf(wire)
    <3>1. CASE Completes(wire, b)
      <4>1. Slip!Complete(w) \in Nat /\ Slip!Complete(w) > Slip!Complete(wire)
        BY <1>1, <3>1 DEF OneIf
      <4> QED
        BY <3>1, <4>1, NoFrameBeyond
    <3>2. CASE ~Completes(wire, b)
      <4>1. Slip!Complete(w) = C
        BY <1>1, <3>2 DEF OneIf
      <4> QED
        BY <3>2, <4>1 DEF Slip!RestOf
    <3> QED
      BY <3>1, <3>2
  <2> HIDE DEF p, w
  <2> QED
    BY <2>1, <2>2, <2>3
<1> QED
  BY <1>8, <1>9 DEF w
LEMMA SameCoding ==
  ASSUME UNCHANGED coding
  PROVE  /\ \A w : Slip!FramesOf(w)' = Slip!FramesOf(w)
         /\ \A w : Slip!RestOf(w)' = Slip!RestOf(w)
         /\ \A w : EscapesNext(w)' = EscapesNext(w)
         /\ \A w : WithinNext(w)' = WithinNext(w)
BY DEF Slip!FramesOf, Slip!RestOf, Slip!FrameAt, Slip!Complete, Slip!FrameOf,
   Slip!Value, Slip!IsData, Slip!Within, Slip!BadAt, Slip!EndsAt,
   Slip!EscapedAt, Slip!IsEnd, Slip!IsEsc, Slip!Meaning, Slip!StartCoded,
   EscapesNext, WithinNext

(***************************************************************************)
(* What holds of the decoder while it is open: what it knows of the input, *)
(* what it has emitted and what it keeps are what the definition says of   *)
(* the input as far as it has been processed.                              *)
(***************************************************************************)
SlipTypes ==
  /\ coding \in Codings /\ maxFrameLength \in SlipLimits
  /\ started \in BOOLEAN /\ escaped \in BOOLEAN /\ busy \in BOOLEAN
  /\ bytes \in Seq(Byte) /\ decoded \in Seq(Byte) /\ output \in Seq(Seq(Byte))
  /\ chunk \in Seq(SlipBytes) /\ input \in Seq(SlipBytes)
  /\ status \in {"open", "ended", "failed"}

InLimit(frame) == Len(frame) <= maxFrameLength

AllInLimit(frames) == \A i \in 1 .. Len(frames) : InLimit(frames[i])

Follows ==
  /\ escaped <=> EscapesNext(input)
  /\ Slip!InFrame <=> WithinNext(input)
  /\ output = Slip!FramesOf(input) /\ bytes \o decoded = Slip!RestOf(input)
  /\ AllInLimit(output)
  /\ ~busy => decoded = <<>> /\ InLimit(bytes)

HasEnded ==
  /\ ~busy /\ output = Slip!FramesOf(input) \o Slip!OneOrNone(Slip!RestOf(input))
  /\ AllInLimit(Slip!FramesOf(input)) /\ InLimit(Slip!RestOf(input))

(* What was too long may have been completed by the byte that showed it.   *)
HasFailed ==
  /\ ~busy
  /\ \/ output = Slip!FramesOf(input) /\ ~InLimit(Slip!RestOf(input))
     \/ \E frame \in Seq(Byte) :
          Slip!FramesOf(input) = Append(output, frame) /\ ~InLimit(frame)

SlipInv ==
  /\ SlipTypes
  /\ status = "open" => Follows
  /\ status = "ended" => HasEnded
  /\ status = "failed" => HasFailed

LEMMA ConcatAppend ==
  ASSUME NEW S, NEW s \in Seq(S), NEW t \in Seq(S), NEW x \in S
  PROVE  s \o Append(t, x) = (s \o t) \o <<x>>
<1> DEFINE u == Append(t, x)
           v == s \o t
<1>1. u \in Seq(S) /\ Len(u) = Len(t) + 1 /\ u[Len(t) + 1] = x
      /\ \A i \in 1 .. Len(t) : u[i] = t[i]
  OBVIOUS
<1>2. v \in Seq(S) /\ Len(v) = Len(s) + Len(t)
      /\ (\A i \in 1 .. Len(s) : v[i] = s[i])
      /\ (\A j \in 1 .. Len(t) : v[Len(s) + j] = t[j])
  BY ConcatIs
<1> HIDE DEF u, v
<1>3. s \o u \in Seq(S) /\ Len(s \o u) = Len(s) + Len(u)
      /\ (\A i \in 1 .. Len(s) : (s \o u)[i] = s[i])
      /\ (\A j \in 1 .. Len(u) : (s \o u)[Len(s) + j] = u[j])
  <2>1. u \in Seq(S)
    BY <1>1
  <2> QED
    BY <2>1, ConcatIs
<1>4. v \o <<x>> = Append(v, x)
  BY <1>2, AppendIsConcat
<1>5. Append(v, x) \in Seq(S) /\ Len(Append(v, x)) = Len(v) + 1
      /\ Append(v, x)[Len(v) + 1] = x
      /\ \A i \in 1 .. Len(v) : Append(v, x)[i] = v[i]
  BY <1>2
<1> DEFINE a == s \o u
           c == Append(v, x)
<1>6. Len(s) \in Nat /\ Len(t) \in Nat
  OBVIOUS
<1>7. ASSUME NEW i \in 1 .. Len(a) PROVE a[i] = c[i]
  <2>1. CASE i \in 1 .. Len(s)
    <3>1. i \in 1 .. Len(v)
      BY <1>2, <1>6, <2>1
    <3> QED
      BY <1>2, <1>3, <1>5, <2>1, <3>1
  <2>2. CASE i \notin 1 .. Len(s)
    <3> DEFINE j == i - Len(s)
    <3>1. j \in 1 .. Len(t) + 1 /\ i = Len(s) + j /\ j \in 1 .. Len(u)
      BY <1>1, <1>3, <1>6, <2>2
    <3>2. a[i] = u[j]
      BY <1>3, <3>1
    <3>3. CASE j \in 1 .. Len(t)
      <4>1. i \in 1 .. Len(v) /\ v[i] = t[j]
        BY <1>2, <1>6, <3>1, <3>3
      <4> QED
        BY <1>1, <1>5, <3>2, <3>3, <4>1, Zenon
    <3>4. CASE j = Len(t) + 1
      <4>1. i = Len(v) + 1
        BY <1>2, <1>6, <3>1, <3>4
      <4> QED
        BY <1>1, <1>5, <3>2, <3>4, <4>1
    <3>5. j \in 1 .. Len(t) \/ j = Len(t) + 1
      BY <1>6, <3>1
    <3> HIDE DEF j
    <3> QED
      BY <3>3, <3>4, <3>5, Zenon
  <2> QED
    BY <2>1, <2>2, Zenon
<1>8. Len(a) = Len(c)
  BY <1>1, <1>2, <1>3, <1>5, <1>6
<1> HIDE DEF a, c
<1>9. a = c
  BY <1>3, <1>5, <1>7, <1>8, SeqEqual, Zenon DEF a, c
<1> QED
  BY <1>4, <1>9, Zenon DEF a, c, u, v

(* The byte that is read, by what the decoder knows.                       *)
Ended(b) == Slip!IsEnd(b) /\ ~escaped

Spoiled(b) == escaped /\ Slip!Meaning(b) = Undefined

Content(b) ==
  Slip!InFrame /\ (escaped \/ b \notin {coding.START, coding.ESC, coding.END})

ValueOf(b) == IF escaped /\ ~Spoiled(b) THEN Slip!Meaning(b) ELSE b

LEMMA InputIsWire ==
  ASSUME SlipTypes
  PROVE  input \in Seq(Byte)
BY DEF SlipTypes, Byte

LEMMA NextEscapes ==
  ASSUME NEW wire \in Seq(Byte), NEW b \in Byte
  PROVE  EscapesNext(Append(wire, b)) <=> Slip!IsEsc(b) /\ ~EscapesNext(wire)
<1> DEFINE w == Append(wire, b)
           e == EscapesNext(wire)
<1>1. Len(w) = Len(wire) + 1 /\ w[Len(wire) + 1] = b /\ Len(wire) \in Nat
      /\ Slip!EscapedAt(w)[Len(wire) + 1] = e
  BY EscapedAppend
<1> HIDE DEF w, e
<1>2. Len(w) # 0 /\ w[Len(w)] = b /\ Slip!EscapedAt(w)[Len(w)] = e
  BY <1>1
<1>3. EscapesNext(w) <=> Slip!IsEsc(b) /\ ~e
  BY <1>2 DEF EscapesNext
<1> QED
  BY <1>3 DEF w, e

LEMMA ByteRead ==
  ASSUME SlipTypes, Follows, NEW b \in SlipBytes, UNCHANGED coding,
         input' = Append(input, b)
  PROVE  /\ input' \in Seq(SlipBytes)
         /\ EscapesNext(input)' <=> Slip!IsEsc(b) /\ ~escaped
         /\ WithinNext(input)' <=>
              \/ coding.START = Undefined
              \/ ~escaped /\ b = coding.START
              \/ Slip!InFrame /\ ~Ended(b)
         /\ Slip!FramesOf(input)' =
              IF Ended(b) \/ Spoiled(b)
              THEN output \o Slip!OneOrNone(bytes \o decoded) ELSE output
         /\ Slip!RestOf(input)' =
              (IF Ended(b) \/ Spoiled(b) THEN <<>> ELSE bytes \o decoded)
                \o Piece(Content(b), ValueOf(b))
         /\ ValueOf(b) \in Byte
<1>1. input \in Seq(Byte) /\ b \in Byte /\ coding \in Codings
  BY InputIsWire DEF SlipTypes, Byte
<1>2. /\ escaped <=> EscapesNext(input)
      /\ Slip!InFrame <=> WithinNext(input)
      /\ output = Slip!FramesOf(input) /\ bytes \o decoded = Slip!RestOf(input)
  BY DEF Follows
<1>3. /\ Ended(b) <=> Ending(input, b)
      /\ Spoiled(b) <=> Spoiling(input, b)
      /\ (Ended(b) \/ Spoiled(b)) <=> Completes(input, b)
      /\ Content(b) <=> IsDataNext(input, b)
      /\ ValueOf(b) = ValueNext(input, b)
  BY <1>2 DEF Ended, Ending, Spoiled, Spoiling, Completes, Content, IsDataNext,
     ValueOf, ValueNext
<1> DEFINE w == Append(input, b)
<1>4. w \in Seq(Byte) /\ w \in Seq(SlipBytes)
  BY <1>1 DEF SlipTypes
<1>5. EscapesNext(w) <=> Slip!IsEsc(b) /\ ~EscapesNext(input)
  BY <1>1, NextEscapes
<1>6. WithinNext(w) <=>
        \/ coding.START = Undefined
        \/ ~EscapesNext(input) /\ b = coding.START
        \/ WithinNext(input) /\ ~Ending(input, b)
  BY <1>1, WithinAppend
<1>7. /\ Slip!FramesOf(w) =
           IF Completes(input, b)
           THEN Slip!FramesOf(input) \o Slip!OneOrNone(Slip!RestOf(input))
           ELSE Slip!FramesOf(input)
      /\ Slip!RestOf(w) =
           (IF Completes(input, b) THEN <<>> ELSE Slip!RestOf(input))
             \o Piece(IsDataNext(input, b), ValueNext(input, b))
  BY <1>1, FramesAppend
<1> HIDE DEF w
<1>8. input' = w
  BY DEF w
<1>9. /\ Slip!FramesOf(input)' = Slip!FramesOf(w)
      /\ Slip!RestOf(input)' = Slip!RestOf(w)
      /\ EscapesNext(input)' <=> EscapesNext(w)
      /\ WithinNext(input)' <=> WithinNext(w)
  BY <1>8, SameCoding
<1>10. ValueOf(b) \in Byte
  BY <1>1, MeaningType DEF ValueOf
<1>11. EscapesNext(input)' <=> Slip!IsEsc(b) /\ ~escaped
  BY <1>2, <1>5, <1>9
<1>12. WithinNext(input)' <=>
         \/ coding.START = Undefined
         \/ ~escaped /\ b = coding.START
         \/ Slip!InFrame /\ ~Ended(b)
  BY <1>2, <1>3, <1>6, <1>9
<1>13. Slip!FramesOf(input)' =
         IF Ended(b) \/ Spoiled(b)
         THEN output \o Slip!OneOrNone(bytes \o decoded) ELSE output
  BY <1>2, <1>3, <1>7, <1>9
<1>14. Slip!RestOf(input)' =
         (IF Ended(b) \/ Spoiled(b) THEN <<>> ELSE bytes \o decoded)
           \o Piece(Content(b), ValueOf(b))
  <2>1. Piece(Content(b), ValueOf(b)) =
          Piece(IsDataNext(input, b), ValueNext(input, b))
    BY <1>3 DEF Piece
  <2> QED
    BY <1>2, <1>3, <1>7, <1>9, <2>1, Zenon
<1> QED
  BY <1>4, <1>8, <1>10, <1>11, <1>12, <1>13, <1>14

(* What the decoder keeps, with what the byte adds to it.                  *)
LEMMA KeptIs ==
  ASSUME SlipTypes, NEW x \in Byte
  PROVE  /\ Slip!Kept(x) \in Seq(Byte)
         /\ bytes \o Slip!Kept(x) = (bytes \o decoded) \o Piece(Slip!InFrame, x)
<1>1. bytes \in Seq(Byte) /\ decoded \in Seq(Byte)
  BY DEF SlipTypes
<1>2. CASE Slip!InFrame
  <2>1. bytes \o Append(decoded, x) = (bytes \o decoded) \o <<x>>
    BY <1>1, ConcatAppend
  <2> QED
    BY <1>1, <1>2, <2>1 DEF Slip!Kept, Piece
<1>3. CASE ~Slip!InFrame
  <2>1. (bytes \o decoded) \o <<>> = bytes \o decoded
    BY <1>1
  <2> QED
    BY <1>1, <1>3, <2>1 DEF Slip!Kept, Piece
<1> QED
  BY <1>2, <1>3, Zenon

LEMMA ChunkShrinks ==
  ASSUME SlipTypes, chunk # <<>>
  PROVE  Tail(chunk) \in Seq(SlipBytes) /\ Head(chunk) \in SlipBytes
BY DEF SlipTypes

(* A byte that completes nothing.                                          *)
LEMMA KeepGoes ==
  ASSUME SlipTypes, Follows, NEW b \in SlipBytes,
         Slip!Read(b), Slip!Keep, ~Ended(b), ~Spoiled(b),
         decoded' = IF Content(b) THEN Append(decoded, ValueOf(b)) ELSE decoded,
         escaped' \in BOOLEAN, started' \in BOOLEAN,
         escaped' <=> Slip!IsEsc(b) /\ ~escaped,
         started' <=> (~escaped /\ b = coding.START) \/ Slip!InFrame
  PROVE  SlipTypes' /\ Follows'
<1>1. /\ busy /\ chunk # <<>> /\ input' = Append(input, b) /\ chunk' = Tail(chunk)
      /\ UNCHANGED <<coding, maxFrameLength, bytes, output, status, busy>>
  BY DEF Slip!Read, Slip!Keep, Slip!settings
<1>2. /\ input' \in Seq(SlipBytes)
      /\ EscapesNext(input)' <=> Slip!IsEsc(b) /\ ~escaped
      /\ WithinNext(input)' <=>
           \/ coding.START = Undefined
           \/ ~escaped /\ b = coding.START
           \/ Slip!InFrame
      /\ Slip!FramesOf(input)' = output
      /\ Slip!RestOf(input)' = (bytes \o decoded) \o Piece(Content(b), ValueOf(b))
      /\ ValueOf(b) \in Byte
  BY <1>1, ByteRead, Zenon
<1>3. bytes \in Seq(Byte) /\ decoded \in Seq(Byte)
  BY DEF SlipTypes
<1>4. /\ decoded' \in Seq(Byte)
      /\ bytes \o decoded' = (bytes \o decoded) \o Piece(Content(b), ValueOf(b))
  <2>1. CASE Content(b)
    <3>1. bytes \o Append(decoded, ValueOf(b))
            = (bytes \o decoded) \o <<ValueOf(b)>>
      BY <1>2, <1>3, ConcatAppend
    <3> QED
      BY <1>2, <1>3, <2>1, <3>1 DEF Piece
  <2>2. CASE ~Content(b)
    <3>1. (bytes \o decoded) \o <<>> = bytes \o decoded
      BY <1>3
    <3> QED
      BY <1>3, <2>2, <3>1 DEF Piece
  <2> QED
    BY <2>1, <2>2, Zenon
<1>5. SlipTypes'
  BY <1>1, <1>2, <1>4, ChunkShrinks DEF SlipTypes
<1>6. AllInLimit(output)'
  BY <1>1 DEF Follows, AllInLimit, InLimit
<1>7. Slip!InFrame' <=> WithinNext(input)'
  BY <1>1, <1>2 DEF Slip!InFrame
<1> QED
  BY <1>1, <1>2, <1>4, <1>5, <1>6, <1>7, Zenon DEF Follows

LEMMA FramesType ==
  ASSUME SlipTypes
  PROVE  /\ Slip!FramesOf(input) \in Seq(Seq(Byte))
         /\ Slip!RestOf(input) \in Seq(Byte)
<1>1. input \in Seq(Byte) /\ coding \in Codings /\ Undefined \in Byte
  BY InputIsWire DEF SlipTypes, Byte
<1>2. Slip!Complete(input) \in Nat
  BY <1>1, CompleteAppend
<1> QED
  BY <1>1, <1>2, FramesOfIs, FramesAre, FrameIs DEF Slip!RestOf

LEMMA PushedIs ==
  ASSUME SlipTypes, NEW frame \in Seq(Byte)
  PROVE  /\ Slip!Pushed(frame) = output \o Slip!OneOrNone(frame)
         /\ Slip!Pushed(frame) \in Seq(Seq(Byte))
<1> DEFINE W == Seq(Byte)
<1>1. output \in Seq(W) /\ frame \in W
  BY DEF SlipTypes
<1> HIDE DEF W
<1>2. Append(output, frame) = output \o <<frame>> /\ output \o <<>> = output
      /\ Append(output, frame) \in Seq(W)
  BY <1>1, AppendIsConcat
<1> QED
  BY <1>1, <1>2 DEF Slip!Pushed, Slip!OneOrNone, W

(* What is kept of a frame, in both places.                                *)
LEMMA KeptLength ==
  ASSUME SlipTypes
  PROVE  /\ bytes \o decoded \in Seq(Byte) /\ maxFrameLength \in Nat
         /\ Slip!Fits <=> InLimit(bytes \o decoded)
         /\ ~InLimit(bytes \o decoded) => bytes \o decoded # <<>>
<1>1. bytes \in Seq(Byte) /\ decoded \in Seq(Byte) /\ maxFrameLength \in Nat
  BY ParserAssumption DEF SlipTypes
<1>2. bytes \o decoded \in Seq(Byte)
      /\ Len(bytes \o decoded) = Len(bytes) + Len(decoded)
  BY <1>1, ConcatIs
<1>3. bytes \o decoded = <<>> => InLimit(bytes \o decoded)
  BY <1>1 DEF InLimit
<1> QED
  BY <1>1, <1>2, <1>3 DEF Slip!Fits, InLimit

LEMMA AllInLimitPushed ==
  ASSUME NEW os \in Seq(Seq(Byte)), NEW frame \in Seq(Byte),
         AllInLimit(os), InLimit(frame)
  PROVE  AllInLimit(os \o Slip!OneOrNone(frame))
<1> DEFINE W == Seq(Byte)
           u == Append(os, frame)
<1>1. os \in Seq(W) /\ frame \in W
  OBVIOUS
<1> HIDE DEF W
<1>2. u = os \o <<frame>> /\ os \o <<>> = os
      /\ Len(u) = Len(os) + 1 /\ Len(os) \in Nat /\ u[Len(os) + 1] = frame
      /\ \A i \in 1 .. Len(os) : u[i] = os[i]
  BY <1>1, AppendIsConcat
<1> HIDE DEF u
<1>3. ASSUME NEW i \in 1 .. Len(u) PROVE InLimit(u[i])
  <2>1. i \in 1 .. Len(os) \/ i = Len(os) + 1
    BY <1>2
  <2> QED
    BY <1>2, <2>1, Zenon DEF AllInLimit
<1> QED
  BY <1>2, <1>3 DEF AllInLimit, Slip!OneOrNone

(* A byte that completes the frame.                                        *)
LEMMA FrameGoes ==
  ASSUME SlipTypes, Follows, NEW b \in SlipBytes,
         Slip!Read(b), Ended(b) \/ Spoiled(b),
         Slip!EmitAnd(Piece(Content(b), ValueOf(b))), chunk' = Tail(chunk),
         escaped' = FALSE, started' \in BOOLEAN,
         started' <=> Slip!InFrame /\ ~Ended(b)
  PROVE  SlipTypes' /\ Follows'
<1>1. /\ busy /\ chunk # <<>> /\ input' = Append(input, b)
      /\ Slip!Fits /\ output' = Slip!Pushed(bytes \o decoded) /\ bytes' = <<>>
      /\ decoded' = Piece(Content(b), ValueOf(b))
      /\ UNCHANGED <<coding, maxFrameLength, status, busy>>
  BY DEF Slip!Read, Slip!EmitAnd, Slip!settings
<1>2. /\ input' \in Seq(SlipBytes)
      /\ EscapesNext(input)' <=> Slip!IsEsc(b) /\ ~escaped
      /\ WithinNext(input)' <=>
           \/ coding.START = Undefined
           \/ ~escaped /\ b = coding.START
           \/ Slip!InFrame /\ ~Ended(b)
      /\ Slip!FramesOf(input)' = output \o Slip!OneOrNone(bytes \o decoded)
      /\ Slip!RestOf(input)' = <<>> \o Piece(Content(b), ValueOf(b))
      /\ ValueOf(b) \in Byte
  BY <1>1, ByteRead, Zenon
<1>3. ~(Slip!IsEsc(b) /\ ~escaped) /\ ~(~escaped /\ b = coding.START)
  BY DEF Ended, Spoiled, Slip!IsEnd, Slip!IsEsc
<1>4. bytes \o decoded \in Seq(Byte) /\ InLimit(bytes \o decoded)
  BY <1>1, KeptLength
<1>5. output' = output \o Slip!OneOrNone(bytes \o decoded)
      /\ output' \in Seq(Seq(Byte))
  BY <1>1, <1>4, PushedIs, Zenon
<1>6. decoded' \in Seq(Byte)
  BY <1>1, <1>2 DEF Piece
<1>7. SlipTypes'
  <2>1. bytes' \in Seq(Byte)
    BY <1>1
  <2>2. chunk' \in Seq(SlipBytes)
    BY <1>1, ChunkShrinks
  <2> QED
    BY <1>1, <1>2, <1>5, <1>6, <2>1, <2>2, Zenon DEF SlipTypes
<1>8. AllInLimit(output')
  BY <1>4, <1>5, AllInLimitPushed DEF Follows, SlipTypes
<1>9. AllInLimit(output)'
  BY <1>1, <1>8 DEF AllInLimit, InLimit
<1>10. Slip!InFrame' <=> WithinNext(input)'
  BY <1>1, <1>2, <1>3 DEF Slip!InFrame
<1> QED
  BY <1>1, <1>2, <1>3, <1>5, <1>7, <1>9, <1>10 DEF Follows

LEMMA OverflowTypes ==
  ASSUME SlipTypes, Slip!Overflow, input' \in Seq(SlipBytes)
  PROVE  SlipTypes' /\ status' = "failed" /\ ~busy'
<1>1. /\ status' = "failed" /\ bytes' = <<>> /\ decoded' = <<>> /\ chunk' = <<>>
      /\ busy' = FALSE /\ started' = FALSE /\ escaped' = FALSE
      /\ UNCHANGED <<coding, maxFrameLength, output>>
  BY DEF Slip!Overflow, Slip!settings
<1>2. bytes' \in Seq(Byte) /\ decoded' \in Seq(Byte) /\ chunk' \in Seq(SlipBytes)
  BY <1>1
<1> QED
  BY <1>1, <1>2, Zenon DEF SlipTypes

LEMMA OverflowGoes ==
  ASSUME SlipTypes, Follows, NEW b \in SlipBytes,
         Slip!Read(b), Ended(b) \/ Spoiled(b), Slip!Overflow
  PROVE  SlipTypes' /\ status' = "failed" /\ HasFailed'
<1>1. /\ input' = Append(input, b) /\ ~Slip!Fits
      /\ UNCHANGED <<coding, maxFrameLength, output>>
  BY DEF Slip!Read, Slip!Overflow, Slip!settings
<1>2. /\ input' \in Seq(SlipBytes)
      /\ Slip!FramesOf(input)' = output \o Slip!OneOrNone(bytes \o decoded)
  BY <1>1, ByteRead
<1> DEFINE frame == bytes \o decoded
<1>3. frame \in Seq(Byte) /\ ~InLimit(frame) /\ frame # <<>>
  BY <1>1, KeptLength
<1>4. output \o Slip!OneOrNone(frame) = Append(output, frame)
  BY <1>3, PushedIs, Zenon DEF Slip!Pushed
<1> HIDE DEF frame
<1>5. Slip!FramesOf(input)' = Append(output', frame)
  BY <1>1, <1>2, <1>4 DEF frame
<1>6. ~(Len(frame) <= maxFrameLength')
  BY <1>1, <1>3 DEF InLimit
<1> QED
  BY <1>2, <1>3, <1>5, <1>6, OverflowTypes DEF HasFailed, InLimit

(* Each byte is one of the cases.                                          *)
LEMMA UnescapeGoes ==
  ASSUME SlipTypes, Follows, NEW b \in SlipBytes, Slip!Unescape(b)
  PROVE  SlipTypes' /\ Follows'
<1>1. /\ Slip!Read(b) /\ Slip!Keep /\ escaped /\ Slip!Meaning(b) # Undefined
      /\ escaped' = FALSE /\ started' = Slip!InFrame
      /\ decoded' = Slip!Kept(Slip!Meaning(b))
  BY DEF Slip!Unescape
<1>2. ~Ended(b) /\ ~Spoiled(b)
  BY <1>1 DEF Ended, Spoiled
<1>3. decoded' = IF Content(b) THEN Append(decoded, ValueOf(b)) ELSE decoded
  BY <1>1, <1>2 DEF Content, ValueOf, Slip!Kept
<1>4. Slip!InFrame \in BOOLEAN
  BY DEF Slip!InFrame, SlipTypes
<1> QED
  BY <1>1, <1>2, <1>3, <1>4, KeepGoes, Zenon

LEMMA StartGoes ==
  ASSUME SlipTypes, Follows, NEW b \in SlipBytes, Slip!Start(b)
  PROVE  SlipTypes' /\ Follows'
<1>1. /\ Slip!Read(b) /\ Slip!Keep /\ ~escaped /\ b = coding.START
      /\ started' = TRUE /\ escaped' = escaped /\ decoded' = decoded
  BY DEF Slip!Start
<1>2. ~Ended(b) /\ ~Spoiled(b) /\ ~Content(b) /\ ~Slip!IsEsc(b)
  BY <1>1 DEF Ended, Spoiled, Content, Slip!IsEnd, Slip!IsEsc
<1>3. decoded' = IF Content(b) THEN Append(decoded, ValueOf(b)) ELSE decoded
  BY <1>1, <1>2
<1>4. escaped' \in BOOLEAN /\ started' \in BOOLEAN
  BY <1>1 DEF SlipTypes
<1> QED
  BY <1>1, <1>2, <1>3, <1>4, KeepGoes

LEMMA EscGoes ==
  ASSUME SlipTypes, Follows, NEW b \in SlipBytes, Slip!Esc(b)
  PROVE  SlipTypes' /\ Follows'
<1>1. /\ Slip!Read(b) /\ Slip!Keep /\ ~escaped /\ Slip!IsEsc(b)
      /\ started' = Slip!InFrame /\ escaped' = TRUE /\ decoded' = decoded
  BY DEF Slip!Esc
<1>2. ~Ended(b) /\ ~Spoiled(b) /\ ~Content(b) /\ b # coding.START
  BY <1>1 DEF Ended, Spoiled, Content, Slip!IsEnd, Slip!IsEsc
<1>3. decoded' = IF Content(b) THEN Append(decoded, ValueOf(b)) ELSE decoded
  BY <1>1, <1>2
<1>4. Slip!InFrame \in BOOLEAN
  BY DEF Slip!InFrame, SlipTypes
<1> QED
  BY <1>1, <1>2, <1>3, <1>4, KeepGoes

LEMMA DataGoes ==
  ASSUME SlipTypes, Follows, NEW b \in SlipBytes, Slip!Data(b)
  PROVE  SlipTypes' /\ Follows'
<1>1. /\ Slip!Read(b) /\ Slip!Keep /\ ~escaped
      /\ b \notin {coding.START, coding.ESC, coding.END}
      /\ started' = Slip!InFrame /\ escaped' = escaped
      /\ decoded' = Slip!Kept(b)
  BY DEF Slip!Data
<1>2. ~Ended(b) /\ ~Spoiled(b) /\ ~Slip!IsEsc(b) /\ b # coding.START
  BY <1>1 DEF Ended, Spoiled, Slip!IsEnd, Slip!IsEsc
<1>3. decoded' = IF Content(b) THEN Append(decoded, ValueOf(b)) ELSE decoded
  BY <1>1 DEF Content, ValueOf, Slip!Kept
<1>4. Slip!InFrame \in BOOLEAN /\ escaped' \in BOOLEAN
  BY <1>1 DEF Slip!InFrame, SlipTypes
<1> QED
  BY <1>1, <1>2, <1>3, <1>4, KeepGoes

LEMMA BadEscapeGoes ==
  ASSUME SlipTypes, Follows, status = "open", NEW b \in SlipBytes, Slip!BadEscape(b)
  PROVE  /\ SlipTypes'
         /\ \/ status' = "open" /\ Follows'
            \/ status' = "failed" /\ HasFailed'
<1>1. /\ Slip!Read(b) /\ escaped /\ Slip!Meaning(b) = Undefined
      /\ \/ Slip!Overflow
         \/ /\ Slip!EmitAnd(IF Slip!InFrame THEN <<b>> ELSE <<>>)
            /\ chunk' = Tail(chunk) /\ escaped' = FALSE /\ started' = Slip!InFrame
  BY DEF Slip!BadEscape
<1>2. Spoiled(b) /\ ~Ended(b) /\ Slip!InFrame \in BOOLEAN
  BY <1>1 DEF Spoiled, Ended, Slip!InFrame, SlipTypes
<1>3. Piece(Content(b), ValueOf(b)) = IF Slip!InFrame THEN <<b>> ELSE <<>>
  BY <1>1, <1>2 DEF Piece, Content, ValueOf
<1>4. CASE Slip!Overflow
  BY <1>1, <1>2, <1>4, OverflowGoes
<1>5. CASE /\ Slip!EmitAnd(IF Slip!InFrame THEN <<b>> ELSE <<>>)
           /\ chunk' = Tail(chunk) /\ escaped' = FALSE /\ started' = Slip!InFrame
  <2>1. status' = "open"
    BY <1>5 DEF Slip!EmitAnd
  <2>2. Slip!EmitAnd(Piece(Content(b), ValueOf(b)))
    BY <1>3, <1>5
  <2>3. SlipTypes' /\ Follows'
    BY <1>1, <1>2, <1>5, <2>2, FrameGoes, Zenon
  <2> QED
    BY <2>1, <2>3
<1> QED
  BY <1>1, <1>4, <1>5, Zenon

LEMMA EndGoes ==
  ASSUME SlipTypes, Follows, status = "open", NEW b \in SlipBytes, Slip!End(b)
  PROVE  /\ SlipTypes'
         /\ \/ status' = "open" /\ Follows'
            \/ status' = "failed" /\ HasFailed'
<1>1. /\ Slip!Read(b) /\ ~escaped /\ Slip!IsEnd(b)
      /\ \/ Slip!Overflow
         \/ /\ Slip!EmitAnd(<<>>)
            /\ chunk' = Tail(chunk) /\ started' = FALSE /\ escaped' = escaped
  BY DEF Slip!End
<1>2. Ended(b)
  BY <1>1 DEF Ended
<1>3. Piece(Content(b), ValueOf(b)) = <<>>
  BY <1>1 DEF Piece, Content, Slip!IsEnd
<1>4. CASE Slip!Overflow
  BY <1>1, <1>2, <1>4, OverflowGoes
<1>5. CASE /\ Slip!EmitAnd(<<>>)
           /\ chunk' = Tail(chunk) /\ started' = FALSE /\ escaped' = escaped
  <2>1. status' = "open"
    BY <1>5 DEF Slip!EmitAnd
  <2>2. Slip!EmitAnd(Piece(Content(b), ValueOf(b)))
    BY <1>3, <1>5
  <2>3. escaped' = FALSE
    BY <1>1, <1>5 DEF SlipTypes
  <2>4. SlipTypes' /\ Follows'
    BY <1>1, <1>2, <1>5, <2>2, <2>3, FrameGoes, Zenon
  <2> QED
    BY <2>1, <2>4
<1> QED
  BY <1>1, <1>4, <1>5, Zenon

(* The chunk and its end, and the end of the stream.                       *)
LEMMA SameInput ==
  ASSUME UNCHANGED <<coding, input>>
  PROVE  /\ Slip!FramesOf(input)' = Slip!FramesOf(input)
         /\ Slip!RestOf(input)' = Slip!RestOf(input)
         /\ EscapesNext(input)' = EscapesNext(input)
         /\ WithinNext(input)' = WithinNext(input)
BY SameCoding

LEMMA TransformGoes ==
  ASSUME SlipTypes, Follows, NEW c \in Seq(SlipBytes), Slip!Transform(c)
  PROVE  SlipTypes' /\ Follows'
<1>1. /\ ~busy /\ busy' = TRUE /\ chunk' = c /\ decoded' = <<>> /\ decoded = <<>>
      /\ UNCHANGED <<coding, maxFrameLength, started, escaped, bytes, output,
                     status, input>>
  BY DEF Slip!Transform, Slip!settings, Follows
<1>2. SlipTypes'
  BY <1>1 DEF SlipTypes
<1>3. Slip!InFrame' <=> Slip!InFrame
  BY <1>1 DEF Slip!InFrame
<1>4. AllInLimit(output)' <=> AllInLimit(output)
  BY <1>1 DEF AllInLimit, InLimit
<1> QED
  BY <1>1, <1>2, <1>3, <1>4, SameInput DEF Follows

LEMMA SlipReturnGoes ==
  ASSUME SlipTypes, Follows, status = "open", Slip!Return
  PROVE  /\ SlipTypes'
         /\ \/ status' = "open" /\ Follows'
            \/ status' = "failed" /\ HasFailed'
<1>1. input' = input
  BY DEF Slip!Return
<1>2. CASE Slip!Overflow
  <2>1. UNCHANGED <<coding, maxFrameLength, output>> /\ ~Slip!Fits
    BY <1>2 DEF Slip!Overflow, Slip!settings
  <2>2. ~InLimit(bytes \o decoded)
    BY <2>1, KeptLength
  <2>3. Slip!FramesOf(input)' = Slip!FramesOf(input)
        /\ Slip!RestOf(input)' = Slip!RestOf(input)
    BY <1>1, <2>1, SameInput
  <2>4. output' = Slip!FramesOf(input)' /\ ~(Len(Slip!RestOf(input)') <= maxFrameLength')
    BY <2>1, <2>2, <2>3 DEF Follows, InLimit
  <2>5. SlipTypes' /\ status' = "failed" /\ ~busy'
    BY <1>1, <1>2, OverflowTypes DEF SlipTypes
  <2> QED
    BY <2>4, <2>5 DEF HasFailed, InLimit
<1>3. CASE ~Slip!Overflow
  <2>1. /\ Slip!Fits /\ bytes' = bytes \o decoded /\ decoded' = <<>>
        /\ busy' = FALSE
        /\ UNCHANGED <<coding, maxFrameLength, started, escaped, output, status,
                       chunk>>
    BY <1>3 DEF Slip!Return, Slip!settings
  <2>2. bytes \o decoded \in Seq(Byte) /\ InLimit(bytes \o decoded)
    BY <2>1, KeptLength
  <2>3. bytes' \o decoded' = bytes'
    <3>1. \A s \in Seq(Byte) : s \o <<>> = s
      OBVIOUS
    <3> QED
      BY <2>1, <2>2, <3>1
  <2>4. SlipTypes'
    <3>1. decoded' \in Seq(Byte)
      BY <2>1
    <3> QED
      BY <1>1, <2>1, <2>2, <3>1, Zenon DEF SlipTypes
  <2>5. Slip!InFrame' <=> Slip!InFrame
    BY <2>1 DEF Slip!InFrame
  <2>6. AllInLimit(output)' <=> AllInLimit(output)
    BY <2>1 DEF AllInLimit, InLimit
  <2>7. InLimit(bytes)'
    BY <2>1, <2>2 DEF InLimit
  <2> QED
    BY <1>1, <2>1, <2>3, <2>4, <2>5, <2>6, <2>7, SameInput DEF Follows
<1> QED
  BY <1>2, <1>3

LEMMA SlipFlushGoes ==
  ASSUME SlipTypes, Follows, Slip!Flush
  PROVE  SlipTypes' /\ HasEnded' /\ status' = "ended"
<1>1. /\ ~busy /\ output' = Slip!Pushed(bytes) /\ bytes' = <<>> /\ status' = "ended"
      /\ UNCHANGED <<coding, maxFrameLength, started, escaped, decoded, chunk,
                     busy, input>>
  BY DEF Slip!Flush, Slip!settings
<1>2. bytes \in Seq(Byte) /\ decoded = <<>> /\ bytes \o decoded = bytes
      /\ InLimit(bytes)
  BY <1>1 DEF SlipTypes, Follows
<1>3. output' = Slip!FramesOf(input) \o Slip!OneOrNone(Slip!RestOf(input))
      /\ output' \in Seq(Seq(Byte))
  BY <1>1, <1>2, PushedIs, Zenon DEF Follows
<1>4. SlipTypes'
  <2>1. bytes' \in Seq(Byte)
    BY <1>1
  <2> QED
    BY <1>1, <1>3, <2>1 DEF SlipTypes
<1>5. /\ AllInLimit(Slip!FramesOf(input)) /\ InLimit(Slip!RestOf(input))
  BY <1>2 DEF Follows
<1> DEFINE fs == Slip!FramesOf(input)
           r == Slip!RestOf(input)
<1> HIDE DEF fs, r
<1>6. Slip!FramesOf(input)' = fs /\ Slip!RestOf(input)' = r
  BY <1>1, SameInput DEF fs, r
<1>7. output' = fs \o Slip!OneOrNone(r) /\ AllInLimit(fs) /\ InLimit(r)
  BY <1>3, <1>5 DEF fs, r
<1>8. AllInLimit(Slip!FramesOf(input))' /\ InLimit(Slip!RestOf(input))'
  BY <1>1, <1>6, <1>7 DEF AllInLimit, InLimit
<1>9. (Slip!OneOrNone(Slip!RestOf(input)))' = Slip!OneOrNone(r)
  BY <1>6 DEF Slip!OneOrNone
<1> QED
  BY <1>1, <1>4, <1>6, <1>7, <1>8, <1>9 DEF HasEnded

LEMMA SlipNext ==
  ASSUME SlipInv, Slip!Next
  PROVE  SlipInv'
<1>1. SlipTypes
  BY DEF SlipInv
<1>2. CASE status = "open"
  <2>1. Follows
    BY <1>2 DEF SlipInv
  <2>2. ASSUME NEW n \in 0 .. MaxChunk, NEW c \in [1 .. n -> SlipBytes],
               Slip!Transform(c)
        PROVE  SlipInv'
    <3>1. c \in Seq(SlipBytes) /\ status' = "open"
      BY <1>2, <2>2 DEF Slip!Transform
    <3>2. SlipTypes' /\ Follows'
      BY <1>1, <2>1, <2>2, <3>1, TransformGoes
    <3> QED
      BY <3>1, <3>2 DEF SlipInv
  <2>3. ASSUME NEW b \in SlipBytes,
               Slip!Unescape(b) \/ Slip!Start(b) \/ Slip!Esc(b) \/ Slip!Data(b)
        PROVE  SlipInv'
    <3>1. status' = "open"
      BY <1>2, <2>3 DEF Slip!Unescape, Slip!Start, Slip!Esc, Slip!Data, Slip!Keep
    <3>2. SlipTypes' /\ Follows'
      BY <1>1, <2>1, <2>3, UnescapeGoes, StartGoes, EscGoes, DataGoes
    <3> QED
      BY <3>1, <3>2 DEF SlipInv
  <2>4. ASSUME NEW b \in SlipBytes, Slip!BadEscape(b) \/ Slip!End(b)
        PROVE  SlipInv'
    <3>1. /\ SlipTypes'
          /\ \/ status' = "open" /\ Follows'
             \/ status' = "failed" /\ HasFailed'
      BY <1>1, <1>2, <2>1, <2>4, BadEscapeGoes, EndGoes
    <3> QED
      BY <3>1 DEF SlipInv
  <2>5. ASSUME Slip!Return PROVE SlipInv'
    <3>1. /\ SlipTypes'
          /\ \/ status' = "open" /\ Follows'
             \/ status' = "failed" /\ HasFailed'
      BY <1>1, <1>2, <2>1, <2>5, SlipReturnGoes
    <3> QED
      BY <3>1 DEF SlipInv
  <2>6. ASSUME Slip!Flush PROVE SlipInv'
    <3>1. SlipTypes' /\ HasEnded' /\ status' = "ended"
      BY <1>1, <2>1, <2>6, SlipFlushGoes
    <3> QED
      BY <3>1 DEF SlipInv
  <2> QED
    BY <2>2, <2>3, <2>4, <2>5, <2>6 DEF Slip!Next
<1>3. CASE status # "open"
  <2>1. ~busy
    BY <1>1, <1>3 DEF SlipInv, SlipTypes, HasEnded, HasFailed
  <2> QED
    BY <1>3, <2>1, Zenon DEF Slip!Next, Slip!Transform, Slip!Unescape, Slip!BadEscape,
       Slip!Start, Slip!Esc, Slip!End, Slip!Data, Slip!Return, Slip!Flush, Slip!Read
<1> QED
  BY <1>2, <1>3

LEMMA EmptyWire ==
  ASSUME coding \in Codings
  PROVE  /\ ~EscapesNext(<<>>)
         /\ WithinNext(<<>>) <=> coding.START = Undefined
         /\ Slip!FramesOf(<<>>) = <<>> /\ Slip!RestOf(<<>>) = <<>>
<1>1. ~EscapesNext(<<>>)
  BY DEF EscapesNext
<1>2. WithinNext(<<>>) <=> coding.START = Undefined
  <2>1. Len(<<>>) = 0 /\ 1 .. (0 + 1) - 1 = {}
    OBVIOUS
  <2> QED
    BY <2>1 DEF WithinNext, Slip!Within
<1>3. Slip!Complete(<<>>) = 0
  <2>1. DOMAIN <<>> = {}
    OBVIOUS
  <2>2. Slip!EndsAt(<<>>) = {} /\ Slip!BadAt(<<>>) = {}
    BY <2>1 DEF Slip!EndsAt, Slip!BadAt
  <2>3. Slip!Cardinality({}) = 0
    BY FS_EmptySet, CardinalityIs
  <2>4. 0 + 0 = 0
    OBVIOUS
  <2> QED
    BY <2>2, <2>3, <2>4 DEF Slip!Complete
<1>4. <<>> \in Seq(Byte) /\ Len(<<>>) = 0
  OBVIOUS
<1>5. Slip!FramesOf(<<>>) = <<>>
  <2>1. FramePieces(<<>>, 0) \in Seq(Seq(Seq(Byte))) /\ Len(FramePieces(<<>>, 0)) = 0
    BY <1>4, FramesAre, Zenon
  <2>2. FramePieces(<<>>, 0) = <<>>
    BY <2>1
  <2> QED
    BY <1>3, <2>2, FramesOfIs, FlattenEmpty
<1>6. Slip!RestOf(<<>>) = <<>>
  <2>1. Pieces(<<>>, 0) \in Seq(Seq(Byte)) /\ Len(Pieces(<<>>, 0)) = 0
        /\ Slip!FrameAt(<<>>, 0) = FlattenSeq(Pieces(<<>>, 0))
    BY <1>4, FrameIs, Zenon
  <2>2. Pieces(<<>>, 0) = <<>>
    BY <2>1
  <2> QED
    BY <1>3, <2>1, <2>2, FlattenEmpty DEF Slip!RestOf
<1> QED
  BY <1>1, <1>2, <1>5, <1>6

LEMMA SlipInit ==
  ASSUME Slip!Init
  PROVE  SlipInv
<1>1. /\ coding \in Codings /\ maxFrameLength \in SlipLimits
      /\ started = FALSE /\ escaped = FALSE /\ decoded = <<>> /\ bytes = <<>>
      /\ output = <<>> /\ status = "open" /\ chunk = <<>> /\ busy = FALSE
      /\ input = <<>>
  BY DEF Slip!Init
<1>2. SlipTypes
  <2>1. \A S : <<>> \in Seq(S)
    OBVIOUS
  <2> QED
    BY <1>1, <2>1, Zenon DEF SlipTypes
<1>3. /\ ~EscapesNext(input)
      /\ WithinNext(input) <=> coding.START = Undefined
      /\ Slip!FramesOf(input) = <<>> /\ Slip!RestOf(input) = <<>>
  BY <1>1, EmptyWire
<1>4. Slip!InFrame <=> coding.START = Undefined
  BY <1>1 DEF Slip!InFrame
<1>5. AllInLimit(output) /\ InLimit(bytes) /\ bytes \o decoded = <<>>
  <2>1. Len(<<>>) = 0 /\ 1 .. 0 = {} /\ <<>> \o <<>> = <<>>
    OBVIOUS
  <2>2. maxFrameLength \in Nat
    BY <1>1, ParserAssumption
  <2>3. 0 <= maxFrameLength
    BY <2>2
  <2> QED
    BY <1>1, <2>1, <2>3 DEF AllInLimit, InLimit
<1> QED
  BY <1>1, <1>2, <1>3, <1>4, <1>5 DEF SlipInv, Follows

LEMMA TooLongIs ==
  ASSUME SlipTypes
  PROVE  /\ Slip!TooLong(Slip!RestOf(input)) <=> ~InLimit(Slip!RestOf(input))
         /\ (\E i \in DOMAIN Slip!FramesOf(input) :
               Slip!TooLong(Slip!FramesOf(input)[i]))
              <=> ~AllInLimit(Slip!FramesOf(input))
<1> DEFINE fs == Slip!FramesOf(input)
           r == Slip!RestOf(input)
           W == Seq(Byte)
<1>1. fs \in Seq(W) /\ r \in W /\ maxFrameLength \in Nat
  BY FramesType, ParserAssumption DEF SlipTypes
<1> HIDE DEF fs, r
<1>2. DOMAIN fs = 1 .. Len(fs) /\ \A i \in 1 .. Len(fs) : fs[i] \in W
  BY <1>1
<1>3. \A frame \in W : Slip!TooLong(frame) <=> ~InLimit(frame)
  <2> TAKE frame \in W
  <2>1. Len(frame) \in Nat
    OBVIOUS
  <2> QED
    BY <1>1, <2>1 DEF Slip!TooLong, InLimit
<1> HIDE DEF W
<1> QED
  BY <1>1, <1>2, <1>3 DEF AllInLimit, fs, r

LEMMA SlipInvSuffices ==
  ASSUME SlipInv
  PROVE  Slip!FramesExact /\ Slip!LimitExact
<1> DEFINE fs == Slip!FramesOf(input)
           r == Slip!RestOf(input)
           W == Seq(Byte)
<1>1. /\ SlipTypes /\ fs \in Seq(W) /\ r \in W /\ output \in Seq(W)
      /\ maxFrameLength \in Nat /\ busy \in BOOLEAN
      /\ status \in {"open", "ended", "failed"}
  BY FramesType, ParserAssumption DEF SlipInv, SlipTypes
<1>2. /\ Slip!TooLong(r) <=> ~InLimit(r)
      /\ (\E i \in DOMAIN fs : Slip!TooLong(fs[i])) <=> ~AllInLimit(fs)
  BY <1>1, TooLongIs
<1>3. CASE status = "open"
  <2>1. /\ output = fs /\ bytes \o decoded = r /\ AllInLimit(output)
        /\ ~busy => decoded = <<>> /\ InLimit(bytes)
    BY <1>3 DEF SlipInv, Follows
  <2>2. ~busy => bytes = r
    <3>1. \A s \in Seq(Byte) : s \o <<>> = s
      OBVIOUS
    <3> QED
      BY <1>1, <2>1, <3>1 DEF SlipTypes
  <2> HIDE DEF fs, r, W
  <2>3. IsPrefix(output, fs)
    <3>1. <<>> \in Seq(W) /\ output \o <<>> = output
      BY <1>1
    <3>2. IsPrefix(output, output \o <<>>)
      BY <1>1, <3>1, PrefixConcat, Zenon
    <3> QED
      BY <2>1, <3>1, <3>2
  <2>4. Slip!FramesExact
    BY <1>1, <1>3, <2>1, <2>2, <2>3
       DEF Slip!FramesExact, fs, r, Slip!IsPrefix, IsPrefix
  <2>5. Slip!LimitExact
    BY <1>1, <1>2, <1>3, <2>1, <2>2 DEF Slip!LimitExact, fs, r
  <2> QED
    BY <2>4, <2>5
<1>4. CASE status = "ended"
  <2>1. /\ ~busy /\ output = fs \o Slip!OneOrNone(r)
        /\ AllInLimit(fs) /\ InLimit(r)
    BY <1>4 DEF SlipInv, HasEnded
  <2> HIDE DEF W
  <2>2. Slip!FramesExact
    BY <1>4, <2>1 DEF Slip!FramesExact
  <2> HIDE DEF fs, r
  <2>3. Slip!LimitExact
    BY <1>1, <1>2, <1>4, <2>1 DEF Slip!LimitExact, fs, r
  <2> QED
    BY <2>2, <2>3
<1>5. CASE status = "failed"
  <2> DEFINE Grown(frame) == fs = Append(output, frame) /\ ~InLimit(frame)
  <2>1. ~busy
        /\ \/ output = fs /\ ~InLimit(r)
           \/ \E frame \in W : Grown(frame)
    BY <1>5 DEF SlipInv, HasFailed
  <2> HIDE DEF fs, r, W
  <2>2. IsPrefix(output, fs) /\ (~InLimit(r) \/ ~AllInLimit(fs))
    <3>1. CASE output = fs /\ ~InLimit(r)
      <4>1. <<>> \in Seq(W) /\ output \o <<>> = output
        BY <1>1
      <4>2. IsPrefix(output, output \o <<>>)
        BY <1>1, <4>1, PrefixConcat, Zenon
      <4> QED
        BY <3>1, <4>1, <4>2
    <3>2. ASSUME NEW frame \in W, Grown(frame)
          PROVE  IsPrefix(output, fs) /\ ~AllInLimit(fs)
      <4>1. fs = output \o <<frame>> /\ <<frame>> \in Seq(W)
        BY <1>1, <3>2, AppendIsConcat
      <4>2. IsPrefix(output, fs)
        BY <1>1, <4>1, PrefixConcat, Zenon
      <4>3. Len(fs) \in 1 .. Len(fs) /\ fs[Len(fs)] = frame
        BY <1>1, <3>2
      <4> QED
        BY <3>2, <4>2, <4>3 DEF AllInLimit
    <3> HIDE DEF Grown
    <3> QED
      BY <2>1, <3>1, <3>2
  <2>3. Slip!FramesExact
    BY <1>5, <2>2 DEF Slip!FramesExact, Slip!IsPrefix, IsPrefix, fs
  <2>4. Slip!LimitExact
    BY <1>2, <1>5, <2>1, <2>2 DEF Slip!LimitExact, fs, r
  <2> QED
    BY <2>3, <2>4
<1> QED
  BY <1>1, <1>3, <1>4, <1>5

(***************************************************************************)
(* The round trip.  What a decoder knows after a wire, and after one byte  *)
(* more.                                                                   *)
(***************************************************************************)
Knows(wire, esc, within, frames, rest) ==
  /\ wire \in Seq(Byte) /\ esc = EscapesNext(wire) /\ (within <=> WithinNext(wire))
  /\ Slip!FramesOf(wire) = frames /\ Slip!RestOf(wire) = rest

LEMMA PlainByte ==
  ASSUME coding \in Codings, NEW wire, NEW frames, NEW rest \in Seq(Byte),
         Knows(wire, FALSE, TRUE, frames, rest),
         NEW b \in SlipBytes, b \notin {coding.START, coding.ESC, coding.END}
  PROVE  Knows(Append(wire, b), FALSE, TRUE, frames, Append(rest, b))
<1> DEFINE w == Append(wire, b)
<1>1. wire \in Seq(Byte) /\ ~EscapesNext(wire) /\ WithinNext(wire) /\ b \in Byte
      /\ Slip!FramesOf(wire) = frames /\ Slip!RestOf(wire) = rest
  BY DEF Knows, Byte
<1>2. ~Completes(wire, b) /\ ~Ending(wire, b) /\ ~Slip!IsEsc(b)
      /\ IsDataNext(wire, b) /\ ValueNext(wire, b) = b
  BY <1>1 DEF Completes, Ending, Spoiling, Slip!IsEnd, Slip!IsEsc, IsDataNext, ValueNext
<1>3. w \in Seq(Byte) /\ WithinNext(w)
  BY <1>1, <1>2, EscapedAppend, WithinAppend
<1>4. Slip!FramesOf(w) = frames /\ Slip!RestOf(w) = rest \o <<b>>
  BY <1>1, <1>2, FramesAppend, Zenon DEF Piece
<1>5. rest \o <<b>> = Append(rest, b)
  BY <1>1, AppendIsConcat
<1>6. ~EscapesNext(w)
  BY <1>1, <1>2, NextEscapes
<1> QED
  BY <1>3, <1>4, <1>5, <1>6 DEF Knows

LEMMA EscapeByte ==
  ASSUME coding \in Codings, NEW wire, NEW frames, NEW rest \in Seq(Byte),
         Knows(wire, FALSE, TRUE, frames, rest),
         coding.ESC # coding.START, coding.ESC # coding.END
  PROVE  Knows(Append(wire, coding.ESC), TRUE, TRUE, frames, rest)
<1> DEFINE b == coding.ESC
           w == Append(wire, b)
<1>1. wire \in Seq(Byte) /\ ~EscapesNext(wire) /\ WithinNext(wire) /\ b \in Byte
      /\ Slip!FramesOf(wire) = frames /\ Slip!RestOf(wire) = rest
  BY ParserAssumption DEF Knows, Byte
<1>2. ~Completes(wire, b) /\ ~Ending(wire, b) /\ Slip!IsEsc(b)
      /\ ~IsDataNext(wire, b)
  BY <1>1 DEF Completes, Ending, Spoiling, Slip!IsEnd, Slip!IsEsc, IsDataNext
<1>3. w \in Seq(Byte) /\ WithinNext(w)
  BY <1>1, <1>2, EscapedAppend, WithinAppend
<1>4. Slip!FramesOf(w) = frames /\ Slip!RestOf(w) = rest \o <<>>
  BY <1>1, <1>2, FramesAppend, Zenon DEF Piece
<1>5. rest \o <<>> = rest
  OBVIOUS
<1>6. EscapesNext(w)
  BY <1>1, <1>2, NextEscapes
<1>7. EscapesNext(w) \in BOOLEAN
  BY DEF EscapesNext
<1> QED
  BY <1>3, <1>4, <1>5, <1>6, <1>7 DEF Knows

LEMMA EscapedByte ==
  ASSUME coding \in Codings, NEW wire, NEW frames, NEW rest \in Seq(Byte),
         Knows(wire, TRUE, TRUE, frames, rest),
         NEW b \in SlipBytes, Slip!Meaning(b) # Undefined
  PROVE  Knows(Append(wire, b), FALSE, TRUE, frames, Append(rest, Slip!Meaning(b)))
<1> DEFINE w == Append(wire, b)
           x == Slip!Meaning(b)
<1>1. wire \in Seq(Byte) /\ EscapesNext(wire) /\ WithinNext(wire) /\ b \in Byte
      /\ Slip!FramesOf(wire) = frames /\ Slip!RestOf(wire) = rest
  BY DEF Knows, Byte
<1>2. ~Completes(wire, b) /\ ~Ending(wire, b)
      /\ IsDataNext(wire, b) /\ ValueNext(wire, b) = x
  BY <1>1 DEF Completes, Ending, Spoiling, IsDataNext, ValueNext
<1>3. w \in Seq(Byte) /\ WithinNext(w)
  BY <1>1, <1>2, EscapedAppend, WithinAppend
<1>4. Slip!FramesOf(w) = frames /\ Slip!RestOf(w) = rest \o <<x>>
  BY <1>1, <1>2, FramesAppend, Zenon DEF Piece
<1>5. rest \o <<x>> = Append(rest, x)
  BY <1>1, AppendIsConcat, MeaningType
<1>6. ~EscapesNext(w)
  BY <1>1, NextEscapes
<1> QED
  BY <1>3, <1>4, <1>5, <1>6 DEF Knows

LEMMA StartByte ==
  ASSUME coding \in Codings, NEW wire, NEW within, NEW frames, NEW rest \in Seq(Byte),
         Knows(wire, FALSE, within, frames, rest), coding.START # Undefined
  PROVE  Knows(Append(wire, coding.START), FALSE, TRUE, frames, rest)
<1> DEFINE b == coding.START
           w == Append(wire, b)
<1>1. wire \in Seq(Byte) /\ ~EscapesNext(wire) /\ b \in Byte
      /\ Slip!FramesOf(wire) = frames /\ Slip!RestOf(wire) = rest
  BY ParserAssumption DEF Knows, Byte
<1>2. ~Completes(wire, b) /\ ~Ending(wire, b) /\ ~Slip!IsEsc(b)
      /\ ~IsDataNext(wire, b)
  BY <1>1 DEF Completes, Ending, Spoiling, Slip!IsEnd, Slip!IsEsc, IsDataNext
<1>3. w \in Seq(Byte) /\ WithinNext(w)
  BY <1>1, <1>2, EscapedAppend, WithinAppend
<1>4. Slip!FramesOf(w) = frames /\ Slip!RestOf(w) = rest \o <<>>
  BY <1>1, <1>2, FramesAppend, Zenon DEF Piece
<1>5. rest \o <<>> = rest
  OBVIOUS
<1>6. ~EscapesNext(w)
  BY <1>1, <1>2, NextEscapes
<1> QED
  BY <1>3, <1>4, <1>5, <1>6 DEF Knows

LEMMA EndByte ==
  ASSUME coding \in Codings, NEW wire, NEW within, NEW frames \in Seq(Seq(Byte)),
         NEW rest \in Seq(Byte), Knows(wire, FALSE, within, frames, rest),
         coding.END \notin {coding.START, coding.ESC}
  PROVE  Knows(Append(wire, coding.END), FALSE, coding.START = Undefined,
               frames \o Slip!OneOrNone(rest), <<>>)
<1> DEFINE b == coding.END
           w == Append(wire, b)
<1>1. wire \in Seq(Byte) /\ ~EscapesNext(wire) /\ b \in Byte
      /\ Slip!FramesOf(wire) = frames /\ Slip!RestOf(wire) = rest
  BY ParserAssumption DEF Knows, Byte
<1>2. Completes(wire, b) /\ Ending(wire, b) /\ ~Slip!IsEsc(b)
      /\ ~IsDataNext(wire, b)
  BY <1>1 DEF Completes, Ending, Spoiling, Slip!IsEnd, Slip!IsEsc, IsDataNext
<1>3. w \in Seq(Byte) /\ (WithinNext(w) <=> coding.START = Undefined)
  BY <1>1, <1>2, EscapedAppend, WithinAppend
<1>4. Slip!FramesOf(w) = frames \o Slip!OneOrNone(rest)
      /\ Slip!RestOf(w) = <<>> \o <<>>
  BY <1>1, <1>2, FramesAppend, Zenon DEF Piece
<1>5. <<>> \o <<>> = <<>>
  OBVIOUS
<1>6. ~EscapesNext(w)
  BY <1>1, <1>2, NextEscapes
<1> QED
  BY <1>3, <1>4, <1>5, <1>6 DEF Knows

LEMMA AppendFacts ==
  ASSUME NEW S, NEW s \in Seq(S), NEW x \in S
  PROVE  /\ Append(s, x) \in Seq(S) /\ Len(Append(s, x)) = Len(s) + 1
         /\ Append(s, x)[Len(s) + 1] = x
         /\ \A i \in 1 .. Len(s) : Append(s, x)[i] = s[i]
OBVIOUS

LEMMA PairIs ==
  ASSUME NEW S, NEW a \in S, NEW c \in S
  PROVE  /\ <<a>> \in Seq(S) /\ <<a, c>> \in Seq(S)
         /\ Append(<<a>>, c) = <<a, c>>
<1>1. <<a>> \in Seq(S) /\ <<a, c>> \in Seq(S) /\ Len(<<a>>) = 1 /\ Len(<<a, c>>) = 2
      /\ <<a>>[1] = a /\ <<a, c>>[1] = a /\ <<a, c>>[2] = c
  OBVIOUS
<1> DEFINE s == Append(<<a>>, c)
           t == <<a, c>>
<1>2. s \in Seq(S) /\ Len(s) = 2 /\ s[1] = a /\ s[2] = c
  <2> DEFINE u == <<a>>
  <2>1. u \in Seq(S) /\ Len(u) = 1 /\ u[1] = a
    BY <1>1
  <2> HIDE DEF u
  <2>2. Append(u, c) \in Seq(S) /\ Len(Append(u, c)) = 2 /\ Append(u, c)[1] = a
        /\ Append(u, c)[2] = c
    <3>1. /\ Append(u, c) \in Seq(S) /\ Len(Append(u, c)) = Len(u) + 1
          /\ Append(u, c)[Len(u) + 1] = c
          /\ \A i \in 1 .. Len(u) : Append(u, c)[i] = u[i]
      BY <2>1, AppendFacts, SMTT(30)
    <3>2. 1 + 1 = 2 /\ 1 \in 1 .. 1
      OBVIOUS
    <3> QED
      BY <2>1, <3>1, <3>2
  <2> QED
    BY <2>2 DEF u
<1>3. t \in Seq(S) /\ Len(t) = 2 /\ t[1] = a /\ t[2] = c
  BY <1>1
<1> HIDE DEF s, t
<1>4. \A i \in 1 .. 2 : s[i] = t[i]
  <2>1. \A i \in 1 .. 2 : i = 1 \/ i = 2
    OBVIOUS
  <2> QED
    BY <1>2, <1>3, <2>1
<1>5. s = t
  BY <1>2, <1>3, <1>4, SeqEqual
<1> QED
  BY <1>1, <1>5 DEF s, t

(* What the encoder writes for a byte has the meaning of the byte.         *)
LEMMA EscapeIs ==
  ASSUME coding \in Codings, Slip!Unambiguous, NEW x \in SlipBytes,
         Slip!StartCoded \/ x # coding.START
  PROVE  IF Slip!Code(x) = Undefined
         THEN /\ Slip!Escape(x) = <<x>>
              /\ x \notin {coding.START, coding.ESC, coding.END}
         ELSE /\ Slip!Escape(x) = <<coding.ESC, Slip!Code(x)>>
              /\ Slip!Code(x) \in SlipBytes /\ Slip!Meaning(Slip!Code(x)) = x
<1>1. /\ coding.ESC \in SlipBytes /\ coding.END \in SlipBytes
      /\ coding.ESC_END \in SlipBytes /\ coding.ESC_ESC \in SlipBytes
      /\ coding.ESC_START \in SlipBytes \cup {Undefined}
      /\ Undefined \notin SlipBytes /\ x # Undefined
  BY ParserAssumption
<1>2. /\ coding.END # coding.ESC /\ coding.START \notin {coding.ESC, coding.END}
      /\ coding.ESC_END # coding.ESC_ESC
      /\ Slip!StartCoded => coding.ESC_START \notin {coding.ESC_END, coding.ESC_ESC}
  BY DEF Slip!Unambiguous
<1>3. Slip!StartCoded => coding.ESC_START \in SlipBytes
  BY <1>1 DEF Slip!StartCoded
<1>4. CASE Slip!StartCoded /\ x = coding.START
  <2>1. Slip!Code(x) = coding.ESC_START
    BY <1>2, <1>4 DEF Slip!Code
  <2>2. Slip!Meaning(coding.ESC_START) = x
    BY <1>2, <1>4 DEF Slip!Meaning
  <2> QED
    BY <1>1, <1>3, <1>4, <2>1, <2>2 DEF Slip!Escape
<1>5. CASE x = coding.END
  <2>1. Slip!Code(x) = coding.ESC_END
    BY <1>2, <1>5 DEF Slip!Code
  <2>2. Slip!Meaning(coding.ESC_END) = x
    BY <1>2, <1>5 DEF Slip!Meaning
  <2> QED
    BY <1>1, <2>1, <2>2 DEF Slip!Escape
<1>6. CASE x = coding.ESC
  <2>1. Slip!Code(x) = coding.ESC_ESC
    BY <1>2, <1>6 DEF Slip!Code
  <2>2. Slip!Meaning(coding.ESC_ESC) = x
    BY <1>2, <1>6 DEF Slip!Meaning
  <2> QED
    BY <1>1, <2>1, <2>2 DEF Slip!Escape
<1>7. CASE x \notin {coding.START, coding.ESC, coding.END}
  <2>1. Slip!Code(x) = Undefined
    BY <1>7 DEF Slip!Code
  <2> QED
    BY <1>7, <2>1 DEF Slip!Escape
<1>8. x = coding.START => Slip!StartCoded
  OBVIOUS
<1> QED
  BY <1>4, <1>5, <1>6, <1>7, <1>8

EscapePieces(message) == [i \in 1 .. Len(message) |-> Slip!Escape(message[i])]

Escaped(message) == FlattenSeq(EscapePieces(message))

Encodes(message) ==
  /\ message \in Seq(SlipBytes)
  /\ Slip!StartCoded \/ \A i \in 1 .. Len(message) : message[i] # coding.START

LEMMA EscapeType ==
  ASSUME coding \in Codings, Slip!Unambiguous, NEW x \in SlipBytes,
         Slip!StartCoded \/ x # coding.START
  PROVE  Slip!Escape(x) \in Seq(Byte)
<1>1. coding.ESC \in Byte /\ x \in Byte
  BY ParserAssumption DEF Byte
<1>2. Slip!Code(x) \in SlipBytes => Slip!Code(x) \in Byte
  BY DEF Byte
<1>3. \/ Slip!Escape(x) = <<x>>
      \/ Slip!Escape(x) = <<coding.ESC, Slip!Code(x)>> /\ Slip!Code(x) \in SlipBytes
  BY EscapeIs
<1> QED
  BY <1>1, <1>2, <1>3, PairIs, Zenon

LEMMA EscapedType ==
  ASSUME coding \in Codings, Slip!Unambiguous, NEW message, Encodes(message)
  PROVE  /\ EscapePieces(message) \in Seq(Seq(Byte))
         /\ Len(EscapePieces(message)) = Len(message)
         /\ Escaped(message) \in Seq(Byte)
<1> DEFINE E(i) == Slip!Escape(message[i])
           B == Seq(Byte)
           L == Len(message)
<1>1. L \in Nat /\ \A i \in 1 .. L : message[i] \in SlipBytes
  BY DEF Encodes
<1>2. \A i \in 1 .. L : E(i) \in B
  BY <1>1, EscapeType DEF Encodes
<1> HIDE DEF E, B, L
<1>3. [i \in 1 .. L |-> E(i)] \in Seq(B) /\ Len([i \in 1 .. L |-> E(i)]) = L
  BY <1>1, <1>2
<1>4. EscapePieces(message) \in Seq(B) /\ Len(EscapePieces(message)) = L
  BY <1>3 DEF EscapePieces, E, L
<1> QED
  BY <1>4, FlattenType DEF Escaped, B, L

LEMMA EscapedOneMore ==
  ASSUME coding \in Codings, Slip!Unambiguous, NEW front, NEW x \in SlipBytes,
         Encodes(front), Encodes(Append(front, x))
  PROVE  Escaped(Append(front, x)) = Escaped(front) \o Slip!Escape(x)
<1> DEFINE m == Append(front, x)
           P == EscapePieces(front)
           Q == EscapePieces(m)
           e == Slip!Escape(x)
           R == Append(P, e)
           B == Seq(Byte)
           L == Len(front)
<1>1. L \in Nat /\ Len(m) = L + 1 /\ m[L + 1] = x
      /\ \A i \in 1 .. L : m[i] = front[i]
  BY DEF Encodes
<1>2. Slip!StartCoded \/ x # coding.START
  <2>1. L + 1 \in 1 .. Len(m)
    BY <1>1
  <2> QED
    BY <1>1, <2>1 DEF Encodes
<1>3. P \in Seq(B) /\ Len(P) = L /\ Q \in Seq(B) /\ Len(Q) = L + 1 /\ e \in B
  <2>1. P \in Seq(B) /\ Len(P) = L
    BY EscapedType
  <2>2. Q \in Seq(B) /\ Len(Q) = Len(m)
    BY EscapedType, Zenon
  <2>3. e \in B
    BY <1>2, EscapeType
  <2> QED
    BY <1>1, <2>1, <2>2, <2>3
<1>4. FlattenSeq(R) = FlattenSeq(P) \o e
  BY <1>3, FlattenAppend, Zenon
<1> HIDE DEF m
<1>5. ASSUME NEW i \in 1 .. L + 1
      PROVE  Q[i] = IF i = L + 1 THEN e ELSE P[i]
  <2>1. i \in 1 .. L \/ i = L + 1
    BY <1>1
  <2>2. Q[i] = Slip!Escape(m[i])
    BY <1>1 DEF EscapePieces
  <2>3. CASE i = L + 1
    BY <1>1, <2>2, <2>3
  <2>4. CASE i # L + 1
    <3>1. i \in 1 .. L
      BY <2>1, <2>4
    <3>2. P[i] = Slip!Escape(front[i])
      BY <3>1 DEF EscapePieces
    <3> QED
      BY <1>1, <2>2, <2>4, <3>1, <3>2
  <2> QED
    BY <2>3, <2>4
<1> HIDE DEF P, Q, e, B, L
<1>6. R \in Seq(B) /\ Len(R) = L + 1
      /\ \A i \in 1 .. L + 1 : R[i] = IF i = L + 1 THEN e ELSE P[i]
  BY <1>1, <1>3
<1> HIDE DEF R
<1>7. Q = R
  BY <1>3, <1>5, <1>6, SeqEqual
<1> QED
  BY <1>4, <1>7 DEF m, P, Q, e, R, Escaped

(* A message, escaped after a wire that has nothing of a frame, is what is *)
(* then kept of the frame.                                                 *)
LEMMA EscapedIsRead ==
  ASSUME coding \in Codings, Slip!Unambiguous, NEW wire, NEW frames,
         Knows(wire, FALSE, TRUE, frames, <<>>), NEW message, Encodes(message)
  PROVE  Knows(wire \o Escaped(message), FALSE, TRUE, frames, message)
<1> DEFINE Good(m) == Knows(wire \o Escaped(m), FALSE, TRUE, frames, m)
           P == {n \in Nat : \A m : Encodes(m) /\ Len(m) = n => Good(m)}
<1>0. wire \in Seq(Byte)
  BY DEF Knows
<1>1. 0 \in P
  <2> SUFFICES ASSUME NEW m, Encodes(m), Len(m) = 0 PROVE Good(m)
    BY Zenon
  <2>1. m = <<>>
    BY DEF Encodes
  <2>2. EscapePieces(m) \in Seq(Seq(Byte)) /\ Len(EscapePieces(m)) = 0
    BY EscapedType
  <2>3. EscapePieces(m) = <<>>
    BY <2>2
  <2>4. Escaped(m) = <<>>
    BY <2>3, FlattenEmpty DEF Escaped
  <2>5. wire \o <<>> = wire
    BY <1>0
  <2> QED
    BY <2>1, <2>4, <2>5, Zenon
<1>2. ASSUME NEW n \in Nat, n \in P PROVE n + 1 \in P
  <2> HIDE DEF Good
  <2>0. n + 1 \in Nat
    OBVIOUS
  <2> SUFFICES ASSUME NEW m, Encodes(m), Len(m) = n + 1 PROVE Good(m)
    BY <2>0
  <2> USE DEF Good
  <2> DEFINE front == SubSeq(m, 0 + 1, 0 + n)
             x == m[n + 1]
  <2>1. m \in Seq(SlipBytes) /\ n + 1 \in 1 .. Len(m) /\ 0 + n <= Len(m)
    BY DEF Encodes
  <2>2. /\ front \in Seq(SlipBytes) /\ Len(front) = n
        /\ \A i \in 1 .. n : front[i] = m[0 + i]
    BY <2>1, SliceIs
  <2>3. \A i \in 1 .. n : 0 + i = i /\ i \in 1 .. n + 1
    OBVIOUS
  <2>4. x \in SlipBytes /\ (Slip!StartCoded \/ x # coding.START)
    BY <2>1 DEF Encodes
  <2> HIDE DEF front, x
  <2>5. m = Append(front, x)
    <3> DEFINE a == Append(front, x)
    <3>1. a \in Seq(SlipBytes) /\ Len(a) = n + 1 /\ a[n + 1] = x
          /\ \A i \in 1 .. n : a[i] = front[i]
      BY <2>2, <2>4
    <3> HIDE DEF a
    <3>2. \A i \in 1 .. n + 1 : m[i] = a[i]
      <4> TAKE i \in 1 .. n + 1
      <4>1. i \in 1 .. n \/ i = n + 1
        OBVIOUS
      <4> QED
        BY <2>2, <2>3, <3>1, <4>1 DEF x
    <3>3. m = a
      BY <2>1, <3>1, <3>2, SeqEqual
    <3> QED
      BY <3>3 DEF a
  <2>6. Encodes(front)
    BY <2>2, <2>3 DEF Encodes
  <2>7. Knows(wire \o Escaped(front), FALSE, TRUE, frames, front)
    BY <1>2, <2>2, <2>6, Zenon
  <2>8. Escaped(m) = Escaped(front) \o Slip!Escape(x)
    BY <2>4, <2>5, <2>6, EscapedOneMore
  <2> DEFINE v == wire \o Escaped(front)
  <2>9. v \in Seq(Byte) /\ Escaped(front) \in Seq(Byte) /\ front \in Seq(Byte)
    <3>1. front \in Seq(Byte)
      BY <2>2 DEF Byte
    <3> QED
      BY <2>6, <2>7, <3>1, EscapedType DEF Knows
  <2>10. coding.ESC \in Byte /\ x \in Byte
    BY <2>4, ParserAssumption DEF Byte
  <2> DEFINE c == Slip!Code(x)
  <2>11. CASE c = Undefined
    <3>1. /\ Slip!Escape(x) = <<x>>
          /\ x \notin {coding.START, coding.ESC, coding.END}
      BY <2>4, <2>11, EscapeIs
    <3>2. Knows(Append(v, x), FALSE, TRUE, frames, Append(front, x))
      BY <2>4, <2>7, <2>9, <3>1, PlainByte, Zenon
    <3>3. wire \o Append(Escaped(front), x) = v \o <<x>>
          /\ Append(Escaped(front), x) = Escaped(front) \o <<x>>
          /\ Append(v, x) = v \o <<x>>
      BY <1>0, <2>9, <2>10, ConcatAppend, AppendIsConcat
    <3> QED
      BY <2>5, <2>8, <3>1, <3>2, <3>3, Zenon
  <2>12. CASE c # Undefined
    <3>1. /\ Slip!Escape(x) = <<coding.ESC, c>>
          /\ c \in SlipBytes /\ Slip!Meaning(c) = x
      BY <2>4, <2>12, EscapeIs
    <3>2. x # Undefined
      BY <2>4, ParserAssumption
    <3>3. coding.ESC # coding.START /\ coding.ESC # coding.END
      BY DEF Slip!Unambiguous
    <3> DEFINE u == Append(v, coding.ESC)
               f == Escaped(front)
    <3> HIDE DEF c, v, f
    <3>4. Knows(u, TRUE, TRUE, frames, front)
      BY <2>7, <2>9, <3>3, EscapeByte, Zenon DEF v
    <3> HIDE DEF u
    <3>5. Knows(Append(u, c), FALSE, TRUE, frames, Append(front, x))
      BY <2>9, <3>1, <3>2, <3>4, EscapedByte, Zenon
    <3>6. wire \o (f \o <<coding.ESC, c>>) = Append(u, c)
      <4>1. c \in Byte /\ f \in Seq(Byte) /\ v = wire \o f
        BY <2>9, <3>1 DEF Byte, f, v
      <4>2. u \in Seq(Byte) /\ u = v \o <<coding.ESC>>
        BY <2>9, <2>10, AppendIsConcat DEF u
      <4> DEFINE g == Append(f, coding.ESC)
      <4>3. g \in Seq(Byte) /\ g = f \o <<coding.ESC>>
        BY <2>10, <4>1, AppendIsConcat
      <4>4. wire \o g = u
        BY <1>0, <2>10, <4>1, <4>2, ConcatAppend
      <4>5. wire \o Append(g, c) = u \o <<c>>
        BY <1>0, <4>1, <4>3, <4>4, ConcatAppend
      <4>6. Append(u, c) = u \o <<c>>
        BY <4>1, <4>2, AppendIsConcat
      <4>7. f \o <<coding.ESC, c>> = Append(g, c)
        <5>1. Append(<<coding.ESC>>, c) = <<coding.ESC, c>>
              /\ <<coding.ESC>> \in Seq(Byte)
          BY <2>10, <4>1, PairIs
        <5>2. f \o Append(<<coding.ESC>>, c) = (f \o <<coding.ESC>>) \o <<c>>
          BY <4>1, <5>1, ConcatAppend
        <5>3. Append(g, c) = g \o <<c>>
          BY <4>1, <4>3, AppendIsConcat
        <5> QED
          BY <4>3, <5>1, <5>2, <5>3
      <4> QED
        BY <4>5, <4>6, <4>7, Zenon
    <3> QED
      BY <2>5, <2>8, <3>1, <3>5, <3>6, Zenon DEF f
  <2> QED
    BY <2>11, <2>12, Zenon
<1> HIDE DEF P
<1>3. Len(message) \in P
  <2>1. Len(message) \in Nat
    BY DEF Encodes
  <2> QED
    BY <1>1, <1>2, <2>1, SetInduction
<1> QED
  BY <1>3, Zenon DEF P

LEMMA EncodedIsRead ==
  ASSUME coding \in Codings, Slip!Unambiguous, NEW message, Encodes(message)
  PROVE  /\ Slip!FramesOf(Slip!Encoded(message)) = Slip!OneOrNone(message)
         /\ Slip!RestOf(Slip!Encoded(message)) = <<>>
<1>1. /\ ~EscapesNext(<<>>) /\ (WithinNext(<<>>) <=> coding.START = Undefined)
      /\ Slip!FramesOf(<<>>) = <<>> /\ Slip!RestOf(<<>>) = <<>>
      /\ <<>> \in Seq(Byte)
  BY EmptyWire
<1>2. Knows(<<>>, FALSE, coding.START = Undefined, <<>>, <<>>)
  BY <1>1 DEF Knows, EscapesNext
<1>3. /\ coding.END \notin {coding.START, coding.ESC}
      /\ coding.END \in Byte /\ coding.START \in Byte
      /\ message \in Seq(Byte)
  <2>1. coding.END \in Byte /\ coding.START \in Byte
    BY ParserAssumption DEF Byte
  <2>2. message \in Seq(Byte)
    BY DEF Encodes, Byte
  <2> QED
    BY <2>1, <2>2 DEF Slip!Unambiguous
<1>4. CASE coding.bluetoothQuirk /\ message = <<>>
  BY <1>1, <1>4 DEF Slip!Encoded, Slip!OneOrNone
<1>5. CASE ~(coding.bluetoothQuirk /\ message = <<>>)
  <2> DEFINE q == IF coding.bluetoothQuirk THEN <<coding.END>> ELSE <<>>
             s == IF coding.START # Undefined THEN <<coding.START>> ELSE <<>>
             e == Escaped(message)
  <2>1. Slip!Encoded(message) = q \o s \o e \o <<coding.END>>
    <3>1. DOMAIN message = 1 .. Len(message)
      BY DEF Encodes
    <3>2. Slip!FlattenSeq([i \in DOMAIN message |-> Slip!Escape(message[i])]) = e
      BY <3>1, FlattenSeqIs DEF Escaped, EscapePieces
    <3> HIDE DEF e
    <3> QED
      BY <1>5, <3>2 DEF Slip!Encoded
  <2>2. q \in Seq(Byte) /\ s \in Seq(Byte) /\ e \in Seq(Byte)
    BY <1>3, EscapedType
  <2>3. Knows(q, FALSE, coding.START = Undefined, <<>>, <<>>)
    <3>1. CASE coding.bluetoothQuirk
      <4>1. Knows(Append(<<>>, coding.END), FALSE, coding.START = Undefined,
                  <<>> \o Slip!OneOrNone(<<>>), <<>>)
        <5>1. <<>> \in Seq(Byte) /\ <<>> \in Seq(Seq(Byte))
          OBVIOUS
        <5> QED
          BY <1>2, <1>3, <5>1, EndByte, Zenon
      <4>2. Append(<<>>, coding.END) = <<coding.END>> /\ <<>> \o <<>> = <<>>
        OBVIOUS
      <4> QED
        BY <3>1, <4>1, <4>2, Zenon DEF Slip!OneOrNone
    <3>2. CASE ~coding.bluetoothQuirk
      BY <1>2, <3>2, Zenon
    <3> QED
      BY <3>1, <3>2, Zenon
  <2> DEFINE qs == q \o s
  <2>4. Knows(qs, FALSE, TRUE, <<>>, <<>>)
    <3>1. CASE coding.START # Undefined
      <4>1. <<>> \in Seq(Byte)
        OBVIOUS
      <4>2. Knows(Append(q, coding.START), FALSE, TRUE, <<>>, <<>>)
        <5> HIDE DEF q, s
        <5> DEFINE within == coding.START = Undefined
        <5>1. Knows(q, FALSE, within, <<>>, <<>>)
          BY <2>3, Zenon
        <5> HIDE DEF within
        <5> QED
          BY <3>1, <4>1, <5>1, StartByte, Zenon
      <4>3. Append(q, coding.START) = q \o <<coding.START>>
        <5> HIDE DEF q, s
        <5> QED
          BY <1>3, <2>2, AppendIsConcat
      <4> QED
        BY <3>1, <4>2, <4>3, Zenon
    <3>2. CASE coding.START = Undefined
      <4>1. q \o <<>> = q
        BY <2>2
      <4>2. Knows(q, FALSE, TRUE, <<>>, <<>>)
        <5> HIDE DEF q
        <5> QED
          BY <2>3, <3>2 DEF Knows
      <4> QED
        BY <3>2, <4>1, <4>2, Zenon
    <3> QED
      BY <3>1, <3>2, Zenon
  <2>5. qs \in Seq(Byte)
    BY <2>4 DEF Knows
  <2> HIDE DEF qs, q, s, e
  <2>6. Knows(qs \o e, FALSE, TRUE, <<>>, message)
    BY <2>4, EscapedIsRead, Zenon DEF e
  <2>7. Knows(Append(qs \o e, coding.END), FALSE, coding.START = Undefined,
              <<>> \o Slip!OneOrNone(message), <<>>)
    <3>1. <<>> \in Seq(Seq(Byte))
      OBVIOUS
    <3> QED
      BY <1>3, <2>6, <3>1, EndByte, Zenon
  <2>8. Append(qs \o e, coding.END) = (qs \o e) \o <<coding.END>>
    <3>1. qs \o e \in Seq(Byte)
      BY <2>2, <2>5, ConcatIs
    <3> QED
      BY <1>3, <3>1, AppendIsConcat
  <2>9. <<>> \o Slip!OneOrNone(message) = Slip!OneOrNone(message)
    <3>1. Slip!OneOrNone(message) \in Seq(Seq(Byte))
      BY <1>3, OneOrNoneType
    <3> QED
      BY <3>1
  <2> QED
    BY <2>1, <2>7, <2>8, <2>9 DEF Knows, qs
<1> QED
  BY <1>4, <1>5

LEMMA RoundTripHolds ==
  ASSUME SlipTypes
  PROVE  Slip!RoundTrip
<1> SUFFICES ASSUME Slip!Encodable(input)
             PROVE  /\ Slip!FramesOf(Slip!Encoded(input)) =
                         IF input = <<>> THEN <<>> ELSE <<input>>
                    /\ Slip!RestOf(Slip!Encoded(input)) = <<>>
  BY DEF Slip!RoundTrip
<1>1. coding \in Codings /\ input \in Seq(SlipBytes) /\ DOMAIN input = 1 .. Len(input)
  BY DEF SlipTypes
<1>2. Slip!Unambiguous /\ Encodes(input)
  BY <1>1 DEF Slip!Encodable, Encodes
<1> QED
  BY <1>1, <1>2, EncodedIsRead DEF Slip!OneOrNone
-----------------------------------------------------------------------------
(***************************************************************************)
(* The delimiter parser.  The number of bytes before a place n of a text,  *)
(* none of them before e, that the delimiter may begin with: one of them,  *)
(* and the greatest.                                                       *)
(***************************************************************************)
Begun(text, e, n, m) ==
  /\ m \in 0 .. Delimited!Size /\ m <= n - e
  /\ \A i \in 1 .. m : text[(n - m) + i] = delimiter[i]

Longest(text, e, n, m) ==
  Begun(text, e, n, m) /\ \A k \in 0 .. Delimited!Size : Begun(text, e, n, k) => k <= m

SizeIs == delimiter \in Seq(Letters) /\ Delimited!Size \in Nat \ {0}

LEMMA DelimiterSize ==
  ASSUME delimiter \in Delimiters
  PROVE  SizeIs /\ Len(delimiter) = Delimited!Size
<1>1. delimiter \in Seq(Letters) /\ delimiter # <<>>
  BY ParserAssumption
<1>2. Len(delimiter) \in Nat /\ Len(delimiter) # 0
  BY <1>1
<1> QED
  BY <1>1, <1>2 DEF SizeIs, Delimited!Size

(* One byte more.                                                          *)
LEMMA BegunGrow ==
  ASSUME SizeIs, NEW text, NEW e \in Int, NEW n \in Int, e <= n,
         NEW m \in 0 .. Delimited!Size - 1
  PROVE  Begun(text, e, n + 1, m + 1) <=>
           Begun(text, e, n, m) /\ text[n + 1] = delimiter[m + 1]
<1> DEFINE S == Delimited!Size
<1>1. S \in Nat /\ m + 1 \in 0 .. S /\ m \in 0 .. S /\ m \in Nat
  BY DEF SizeIs
<1> HIDE DEF S
<1>2. (n + 1) - (m + 1) = n - m /\ (m + 1 <= (n + 1) - e <=> m <= n - e)
      /\ (n - m) + (m + 1) = n + 1
  BY <1>1
<1>3. (\A i \in 1 .. m + 1 : text[(n - m) + i] = delimiter[i])
        <=> (\A i \in 1 .. m : text[(n - m) + i] = delimiter[i])
            /\ text[(n - m) + (m + 1)] = delimiter[m + 1]
  <2>1. \A i \in 1 .. m + 1 : i \in 1 .. m \/ i = m + 1
    BY <1>1
  <2>2. (\A i \in 1 .. m : i \in 1 .. m + 1) /\ m + 1 \in 1 .. m + 1
    BY <1>1
  <2> QED
    BY <2>1, <2>2
<1> QED
  BY <1>1, <1>2, <1>3 DEF Begun, S

LEMMA BegunNothing ==
  ASSUME SizeIs, NEW text, NEW e \in Int, NEW n \in Int, e <= n
  PROVE  Begun(text, e, n, 0)
<1>1. 0 \in 0 .. Delimited!Size /\ 0 <= n - e /\ \A i \in 1 .. 0 : FALSE
  BY DEF SizeIs
<1> QED
  BY <1>1 DEF Begun

(* What ends the text ends the part of the delimiter that ends the text.   *)
LEMMA BegunWithin ==
  ASSUME SizeIs, NEW text, NEW e \in Int, NEW n \in Int,
         NEW m, Begun(text, e, n, m), NEW k \in 0 .. Delimited!Size, k < m
  PROVE  Begun(text, e, n, k) <=> Begun(delimiter, 1, m, k)
<1>1. m \in Nat /\ k \in Nat /\ m <= n - e /\ k <= n - e /\ k <= m - 1
  BY DEF Begun, SizeIs
<1>2. \A i \in 1 .. m : text[(n - m) + i] = delimiter[i]
  BY DEF Begun
<1>3. ASSUME NEW i \in 1 .. k PROVE text[(n - k) + i] = delimiter[(m - k) + i]
  <2>1. (m - k) + i \in 1 .. m /\ (n - m) + ((m - k) + i) = (n - k) + i
    BY <1>1
  <2> QED
    BY <1>2, <2>1
<1> QED
  BY <1>1, <1>3 DEF Begun

(* The table of the matcher, as far as it is known.                        *)
Borders(prefix, m) ==
  \A k \in 1 .. m : prefix[k] \in 0 .. k - 1 /\ Longest(delimiter, 1, k, prefix[k])

Falls(prefix, m, byte, f) ==
  f = [k \in 0 .. m |-> IF k = 0 \/ byte = delimiter[k + 1] THEN k ELSE f[prefix[k]]]

Fall(prefix, m, byte) == CHOOSE f : Falls(prefix, m, byte, f)

LEMMA MatchIs ==
  ASSUME NEW prefix, NEW m, NEW byte
  PROVE  Delimited!Match(prefix, m, byte) =
           IF byte = delimiter[Fall(prefix, m, byte)[m] + 1]
           THEN Fall(prefix, m, byte)[m] + 1 ELSE 0
BY DEF Delimited!Match, Fall, Falls

LEMMA FallFacts ==
  ASSUME NEW prefix, NEW m \in Nat, NEW byte,
         \A k \in 1 .. m : prefix[k] \in 0 .. k - 1
  PROVE  \A k \in 0 .. m :
           Fall(prefix, m, byte)[k] =
             IF k = 0 \/ byte = delimiter[k + 1] THEN k
             ELSE Fall(prefix, m, byte)[prefix[k]]
<1> DEFINE Body(f, k) ==
             IF k = 0 \/ byte = delimiter[k + 1] THEN k ELSE f[prefix[k]]
           Upto(n, f) == /\ DOMAIN f = 0 .. m /\ f = [k \in 0 .. m |-> f[k]]
                         /\ \A k \in 0 .. m : k <= n => f[k] = Body(f, k)
           P == {n \in Nat : \E f : Upto(n, f)}
<1>1. 0 \in P
  <2> DEFINE g == [k \in 0 .. m |-> 0]
  <2>1. \A k \in 0 .. m : k <= 0 => k = 0
    OBVIOUS
  <2>2. Upto(0, g)
    BY <2>1
  <2> QED
    BY <2>2
<1>2. ASSUME NEW n \in Nat, n \in P PROVE n + 1 \in P
  <2>1. PICK f : Upto(n, f)
    BY <1>2
  <2> DEFINE h == [k \in 0 .. m |-> IF k = n + 1 THEN Body(f, n + 1) ELSE f[k]]
  <2>2. DOMAIN h = 0 .. m /\ h = [k \in 0 .. m |-> h[k]]
        /\ \A k \in 0 .. m : h[k] = IF k = n + 1 THEN Body(f, n + 1) ELSE f[k]
    OBVIOUS
  <2> HIDE DEF h
  <2>3. ASSUME NEW k \in 0 .. m, k <= n + 1 PROVE h[k] = Body(h, k)
    <3>1. k = 0 \/ (prefix[k] \in 0 .. m /\ prefix[k] # n + 1)
      BY <2>3
    <3>2. Body(h, k) = Body(f, k)
      BY <2>2, <3>1
    <3>3. k = n + 1 \/ k <= n
      BY <2>3
    <3>4. CASE k = n + 1
      <4> HIDE DEF Body
      <4> QED
        BY <2>2, <3>2, <3>4
    <3>5. CASE k <= n
      <4>1. k # n + 1
        BY <3>5
      <4>2. f[k] = Body(f, k)
        BY <2>1, <3>5
      <4> HIDE DEF Body
      <4> QED
        BY <2>2, <3>2, <4>1, <4>2
    <3> QED
      BY <3>3, <3>4, <3>5
  <2>4. Upto(n + 1, h)
    BY <2>2, <2>3, Zenon
  <2> HIDE DEF Upto
  <2> QED
    BY <2>4
<1> HIDE DEF P
<1>3. m \in P
  BY <1>1, <1>2, SetInduction
<1>4. PICK f : Upto(m, f)
  BY <1>3 DEF P
<1>5. Falls(prefix, m, byte, f)
  <2>1. \A k \in 0 .. m : f[k] = Body(f, k)
    <3>1. \A k \in 0 .. m : k <= m
      OBVIOUS
    <3> HIDE DEF Body
    <3> QED
      BY <1>4, <3>1
  <2>2. f = [k \in 0 .. m |-> f[k]]
    BY <1>4
  <2>3. [k \in 0 .. m |-> f[k]] = [k \in 0 .. m |-> Body(f, k)]
    <3> HIDE DEF Body
    <3> QED
      BY <2>1
  <2> QED
    BY <2>2, <2>3, Zenon DEF Falls
<1> DEFINE v == Fall(prefix, m, byte)
<1>6. Falls(prefix, m, byte, v)
  BY <1>5 DEF Fall
<1> HIDE DEF v
<1> QED
  BY <1>6, Zenon DEF Falls, v

(* Falling back through the borders finds the longest that continues.      *)
LEMMA FallFinds ==
  ASSUME SizeIs, NEW text, NEW e \in Int, NEW n \in Int, e <= n,
         NEW m \in 0 .. Delimited!Size - 1, Longest(text, e, n, m),
         NEW prefix, Borders(prefix, m), NEW byte
  PROVE  LET r == Fall(prefix, m, byte)[m]
         IN  /\ r \in 0 .. m /\ Begun(text, e, n, r)
             /\ r = 0 \/ byte = delimiter[r + 1]
             /\ \A k \in 0 .. Delimited!Size - 1 :
                  Begun(text, e, n, k) /\ byte = delimiter[k + 1] => k <= r
<1> DEFINE f == Fall(prefix, m, byte)
           S == Delimited!Size
           Bound(x) == \A k \in 0 .. S - 1 :
                         Begun(text, e, n, k) /\ byte = delimiter[k + 1] => k <= x
           Found(r) == /\ r \in 0 .. m /\ Begun(text, e, n, r)
                       /\ r = 0 \/ byte = delimiter[r + 1]
                       /\ Bound(r)
           P == {j \in Nat : \A x \in 0 .. m :
                   x <= j /\ Begun(text, e, n, x) /\ Bound(x) => Found(f[x])}
<1>1. S \in Nat \ {0} /\ m \in Nat /\ m < S
  BY DEF SizeIs
<1>2. \A k \in 0 .. m : f[k] = IF k = 0 \/ byte = delimiter[k + 1] THEN k
                               ELSE f[prefix[k]]
  <2>1. \A k \in 1 .. m : prefix[k] \in 0 .. k - 1
    BY DEF Borders
  <2> QED
    BY <1>1, <2>1, FallFacts
<1> HIDE DEF f
<1>3. 0 \in P
  <2>1. \A x \in 0 .. m : x <= 0 => x = 0
    OBVIOUS
  <2>2. f[0] = 0
    BY <1>1, <1>2
  <2> QED
    BY <2>1, <2>2
<1>4. ASSUME NEW j \in Nat, j \in P PROVE j + 1 \in P
  <2> SUFFICES ASSUME NEW x \in 0 .. m, x <= j + 1, Begun(text, e, n, x), Bound(x)
               PROVE  Found(f[x])
    <3> HIDE DEF Bound, Found
    <3>1. j + 1 \in Nat
      OBVIOUS
    <3> QED
      BY <3>1
  <2>1. CASE x = 0 \/ byte = delimiter[x + 1]
    <3>1. f[x] = x
      BY <1>2, <2>1
    <3> HIDE DEF Bound
    <3> QED
      BY <2>1, <3>1
  <2>2. CASE ~(x = 0 \/ byte = delimiter[x + 1])
    <3> DEFINE y == prefix[x]
    <3>1. x \in 1 .. m /\ x \in 0 .. S /\ x \in Nat
      BY <1>1, <2>2
    <3>2. y \in 0 .. x - 1 /\ Longest(delimiter, 1, x, y)
      BY <3>1 DEF Borders
    <3>3. y \in 0 .. m /\ y <= j /\ y \in 0 .. S /\ y < x
      BY <1>1, <3>1, <3>2
    <3>4. Begun(text, e, n, y)
      BY <3>2, <3>3, BegunWithin DEF Longest
    <3>5. Bound(y)
      <4> SUFFICES ASSUME NEW k \in 0 .. S - 1,
                          Begun(text, e, n, k), byte = delimiter[k + 1]
                   PROVE  k <= y
        OBVIOUS
      <4>1. k <= x /\ k # x /\ k \in 0 .. S
        BY <1>1, <2>2
      <4>2. k < x
        BY <3>1, <4>1
      <4>3. Begun(delimiter, 1, x, k)
        BY <4>1, <4>2, BegunWithin
      <4> QED
        BY <3>2, <4>1, <4>3 DEF Longest
    <3>6. Found(f[y])
      <4> HIDE DEF Found, Bound, y
      <4> QED
        BY <1>4, <3>3, <3>4, <3>5
    <3>7. f[x] = f[y]
      BY <1>2, <2>2
    <3> HIDE DEF Found
    <3> QED
      BY <3>6, <3>7
  <2> QED
    BY <2>1, <2>2
<1>5. m \in P
  <2> HIDE DEF P
  <2> QED
    BY <1>1, <1>3, <1>4, SetInduction
<1>6. Begun(text, e, n, m) /\ Bound(m) /\ m \in 0 .. m
  <2>1. \A k \in 0 .. S - 1 : k \in 0 .. S
    BY <1>1
  <2> QED
    BY <1>1, <2>1 DEF Longest
<1>7. Found(f[m])
  <2>1. m <= m
    BY <1>1
  <2> HIDE DEF Found, Bound
  <2> QED
    BY <1>5, <1>6, <2>1
<1> QED
  BY <1>7 DEF f

(* One more byte, matched.                                                 *)
LEMMA MatchGrows ==
  ASSUME SizeIs, NEW text, NEW e \in Int, NEW n \in Int, e <= n,
         NEW m \in 0 .. Delimited!Size - 1, Longest(text, e, n, m),
         NEW prefix, Borders(prefix, m)
  PROVE  Longest(text, e, n + 1, Delimited!Match(prefix, m, text[n + 1]))
<1> DEFINE byte == text[n + 1]
           S == Delimited!Size
           r == Fall(prefix, m, byte)[m]
           v == Delimited!Match(prefix, m, byte)
<1>1. S \in Nat \ {0} /\ m \in Nat /\ m < S
  BY DEF SizeIs
<1>2. /\ r \in 0 .. m /\ Begun(text, e, n, r)
      /\ r = 0 \/ byte = delimiter[r + 1]
      /\ \A k \in 0 .. S - 1 :
           Begun(text, e, n, k) /\ byte = delimiter[k + 1] => k <= r
  BY FallFinds, Zenon
<1>3. v = IF byte = delimiter[r + 1] THEN r + 1 ELSE 0
  BY MatchIs
<1>4. \A k \in 0 .. S - 1 :
        Begun(text, e, n + 1, k + 1) <=>
          Begun(text, e, n, k) /\ byte = delimiter[k + 1]
  BY BegunGrow
<1>5. Begun(text, e, n + 1, 0)
  <2>1. n + 1 \in Int /\ e <= n + 1
    OBVIOUS
  <2> QED
    BY <2>1, BegunNothing
<1> HIDE DEF S, r, v, byte
<1>6. r \in 0 .. S - 1
  BY <1>1, <1>2
<1>7. Begun(text, e, n + 1, v)
  BY <1>2, <1>3, <1>4, <1>5, <1>6
<1>8. ASSUME NEW k \in 0 .. S, Begun(text, e, n + 1, k) PROVE k <= v
  <2>1. v \in Nat
    BY <1>3, <1>6
  <2>2. CASE k = 0
    BY <2>1, <2>2
  <2>3. CASE k # 0
    <3> DEFINE j == k - 1
    <3>1. j \in 0 .. S - 1 /\ k = j + 1
      BY <1>1, <2>3
    <3> HIDE DEF j
    <3>2. Begun(text, e, n, j) /\ byte = delimiter[j + 1]
      BY <1>4, <1>8, <3>1
    <3>3. j <= r
      BY <1>2, <3>1, <3>2
    <3>4. r = 0 => j = 0
      BY <3>1, <3>3
    <3>5. byte = delimiter[r + 1]
      BY <1>2, <3>2, <3>4
    <3> QED
      BY <1>3, <1>6, <3>1, <3>3, <3>5
  <2> QED
    BY <2>2, <2>3
<1> QED
  BY <1>7, <1>8 DEF Longest, S, v, byte

(* The table of the matcher, built from its first entry.                   *)
TableBody(table, n) ==
  IF n = 1 THEN <<0>>
  ELSE Append(table[n - 1],
              Delimited!Match(table[n - 1], table[n - 1][n - 1], delimiter[n]))

Tables(table) ==
  table = [n \in 1 .. Delimited!Size |-> TableBody(table, n)]

Table == CHOOSE table : Tables(table)

LEMMA PrefixIs ==
  Delimited!Prefix = Table[Delimited!Size]
BY DEF Delimited!Prefix, Table, Tables, TableBody

LEMMA TableFacts ==
  ASSUME SizeIs
  PROVE  \A n \in 1 .. Delimited!Size : Table[n] = TableBody(Table, n)
<1> DEFINE S == Delimited!Size
           Upto(n, f) == /\ DOMAIN f = 1 .. S /\ f = [k \in 1 .. S |-> f[k]]
                         /\ \A k \in 1 .. S : k <= n => f[k] = TableBody(f, k)
           P == {n \in Nat : \E f : Upto(n, f)}
<1>0. S \in Nat
  BY DEF SizeIs
<1> HIDE DEF S
<1>1. 0 \in P
  <2> DEFINE g == [k \in 1 .. S |-> 0]
  <2>1. \A k \in 1 .. S : ~(k <= 0)
    OBVIOUS
  <2>2. Upto(0, g)
    BY <2>1
  <2> QED
    BY <2>2, Zenon
<1>2. ASSUME NEW n \in Nat, n \in P PROVE n + 1 \in P
  <2>1. PICK f : Upto(n, f)
    BY <1>2
  <2> DEFINE b == TableBody(f, n + 1)
  <2> HIDE DEF b
  <2> DEFINE h == [k \in 1 .. S |-> IF k = n + 1 THEN b ELSE f[k]]
  <2>2. DOMAIN h = 1 .. S /\ h = [k \in 1 .. S |-> h[k]]
        /\ \A k \in 1 .. S : h[k] = IF k = n + 1 THEN b ELSE f[k]
    OBVIOUS
  <2> HIDE DEF h
  <2>3. ASSUME NEW k \in 1 .. S, k <= n + 1 PROVE h[k] = TableBody(h, k)
    <3>1. k = 1 \/ (k - 1 \in 1 .. S /\ k - 1 # n + 1)
      BY <1>0, <2>3
    <3>2. TableBody(h, k) = TableBody(f, k)
      BY <2>2, <3>1 DEF TableBody
    <3>3. k = n + 1 \/ k <= n
      BY <2>3
    <3>4. CASE k = n + 1
      BY <2>2, <3>2, <3>4 DEF b
    <3>5. CASE k <= n
      <4>1. k # n + 1
        BY <3>5
      <4>2. f[k] = TableBody(f, k)
        BY <2>1, <3>5
      <4> QED
        BY <2>2, <3>2, <4>1, <4>2
    <3> QED
      BY <3>3, <3>4, <3>5
  <2>4. Upto(n + 1, h)
    BY <2>2, <2>3
  <2> HIDE DEF Upto
  <2> QED
    BY <2>4
<1> HIDE DEF P
<1>3. S \in P
  BY <1>0, <1>1, <1>2, SetInduction
<1>4. PICK f : Upto(S, f)
  BY <1>3 DEF P
<1>5. Tables(f)
  <2>1. \A k \in 1 .. S : f[k] = TableBody(f, k)
    <3>1. \A k \in 1 .. S : k <= S
      OBVIOUS
    <3> QED
      BY <1>4, <3>1
  <2>2. f = [k \in 1 .. S |-> f[k]]
    BY <1>4
  <2>3. [k \in 1 .. S |-> f[k]] = [k \in 1 .. S |-> TableBody(f, k)]
    BY <2>1
  <2> QED
    BY <2>2, <2>3 DEF Tables, S
<1>6. Tables(Table)
  BY <1>5 DEF Table
<1> DEFINE v == Table
<1> HIDE DEF v
<1>7. v = [n \in 1 .. S |-> TableBody(v, n)]
  BY <1>6, Zenon DEF Tables, S, v
<1>8. \A n \in 1 .. S : v[n] = TableBody(v, n)
  BY <1>7, Zenon
<1> QED
  BY <1>8 DEF S, v

LEMMA BordersKnown ==
  ASSUME SizeIs
  PROVE  Borders(Delimited!Prefix, Delimited!Size)
<1> DEFINE S == Delimited!Size
           t == Table
           Good(n) == t[n] \in Seq(Nat) /\ Len(t[n]) = n /\ Borders(t[n], n)
           P == {n \in Nat : n \in 1 .. S => Good(n)}
<1>0. S \in Nat \ {0}
  BY DEF SizeIs
<1>1. \A n \in 1 .. S : t[n] = TableBody(t, n)
  BY TableFacts
<1> HIDE DEF S, t
<1>2. 0 \in P
  OBVIOUS
<1>3. ASSUME NEW n \in Nat, n \in P PROVE n + 1 \in P
  <2> HIDE DEF Good
  <2> SUFFICES ASSUME n + 1 \in 1 .. S PROVE Good(n + 1)
    OBVIOUS
  <2> USE DEF Good
  <2>1. CASE n = 0
    <3>1. 1 \in 1 .. S /\ n + 1 = 1
      BY <1>0, <2>1
    <3>2. t[1] = <<0>>
      BY <1>1, <3>1 DEF TableBody
    <3>3. Longest(delimiter, 1, 1, 0)
      <4>1. Begun(delimiter, 1, 1, 0)
        BY BegunNothing
      <4>2. \A k \in 0 .. Delimited!Size : Begun(delimiter, 1, 1, k) => k <= 0
        BY DEF Begun
      <4> QED
        BY <4>1, <4>2 DEF Longest
    <3>4. t[1] \in Seq(Nat) /\ Len(t[1]) = 1 /\ t[1][1] = 0
      BY <3>2
    <3>5. Borders(t[1], 1)
      <4>1. \A k \in 1 .. 1 : k = 1
        OBVIOUS
      <4>2. 0 \in 0 .. 1 - 1
        OBVIOUS
      <4> QED
        BY <3>3, <3>4, <4>1, <4>2 DEF Borders
    <3> QED
      BY <3>1, <3>4, <3>5, Zenon
  <2>2. CASE n # 0
    <3> DEFINE u == t[n]
               m == u[n]
               v == Delimited!Match(u, m, delimiter[n + 1])
    <3>1. n \in 1 .. S /\ Good(n) /\ n \in 1 .. n
      BY <1>0, <1>3, <2>2
    <3>2. t[n + 1] = Append(u, v)
      <4>1. n + 1 # 1 /\ (n + 1) - 1 = n
        BY <2>2
      <4> QED
        BY <1>1, <4>1, Zenon DEF TableBody
    <3> HIDE DEF u
    <3>3. u \in Seq(Nat) /\ Len(u) = n /\ Borders(u, n)
      BY <3>1 DEF u
    <3>4. m \in 0 .. n - 1 /\ Longest(delimiter, 1, n, m)
      BY <3>1, <3>3 DEF Borders
    <3>5. m \in 0 .. S - 1 /\ Borders(u, m) /\ n \in Int /\ 1 <= n /\ 1 \in Int
      <4>1. \A k \in 1 .. m : k \in 1 .. n
        BY <3>4
      <4> QED
        BY <1>0, <2>2, <3>3, <3>4, <4>1 DEF Borders
    <3>6. Longest(delimiter, 1, n + 1, v)
      BY <3>4, <3>5, MatchGrows DEF S
    <3>7. v \in 0 .. (n + 1) - 1
      BY <3>6 DEF Longest, Begun
    <3> HIDE DEF m, v
    <3>8. v \in Nat
      BY <3>7
    <3> DEFINE w == Append(u, v)
    <3>9. w \in Seq(Nat) /\ Len(w) = n + 1 /\ w[n + 1] = v
          /\ \A k \in 1 .. n : w[k] = u[k]
      BY <3>3, <3>8
    <3> HIDE DEF w
    <3>10. Borders(w, n + 1)
      <4> SUFFICES ASSUME NEW k \in 1 .. n + 1
                   PROVE  w[k] \in 0 .. k - 1 /\ Longest(delimiter, 1, k, w[k])
        BY DEF Borders
      <4>1. k = n + 1 \/ k \in 1 .. n
        OBVIOUS
      <4>2. CASE k = n + 1
        BY <3>6, <3>7, <3>9, <4>2
      <4>3. CASE k \in 1 .. n
        BY <3>3, <3>9, <4>3 DEF Borders
      <4> QED
        BY <4>1, <4>2, <4>3
    <3> QED
      BY <3>2, <3>9, <3>10 DEF w
  <2> QED
    BY <2>1, <2>2
<1> HIDE DEF P
<1>4. S \in P
  BY <1>0, <1>2, <1>3, SetInduction
<1>5. Good(S)
  <2>1. S \in 1 .. S
    BY <1>0
  <2> HIDE DEF Good
  <2> QED
    BY <1>4, <2>1 DEF P
<1> QED
  BY <1>5, PrefixIs DEF S, t

LEMMA AdvanceGrows ==
  ASSUME SizeIs, NEW text, NEW e \in Int, NEW n \in Int, e <= n,
         NEW m \in 0 .. Delimited!Size - 1, Longest(text, e, n, m)
  PROVE  Longest(text, e, n + 1, Delimited!Advance(m, text[n + 1]))
<1>1. Borders(Delimited!Prefix, m)
  <2>1. \A k \in 1 .. m : k \in 1 .. Delimited!Size
    BY DEF SizeIs
  <2> QED
    BY <2>1, BordersKnown DEF Borders
<1> QED
  BY <1>1, MatchGrows DEF Delimited!Advance

(* What is matched along the chunk.                                        *)
RunBody(from, m, run, n) ==
  IF n = 0 THEN m
  ELSE Delimited!Advance(IF run[n - 1] = Delimited!Size THEN 0 ELSE run[n - 1],
                         chunk[from + n])

Runs(from, m, run) ==
  run = [n \in 0 .. Len(chunk) - from |-> RunBody(from, m, run, n)]

LEMMA RunIs ==
  ASSUME NEW from, NEW m
  PROVE  Delimited!Run(from, m) = CHOOSE run : Runs(from, m, run)
BY DEF Delimited!Run, Runs, RunBody

LEMMA RunFacts ==
  ASSUME NEW from, NEW m, Len(chunk) - from \in Nat
  PROVE  /\ DOMAIN Delimited!Run(from, m) = 0 .. Len(chunk) - from
         /\ \A n \in 0 .. Len(chunk) - from :
              Delimited!Run(from, m)[n] =
                RunBody(from, m, Delimited!Run(from, m), n)
<1> DEFINE S == Len(chunk) - from
           Upto(n, f) == /\ DOMAIN f = 0 .. S /\ f = [k \in 0 .. S |-> f[k]]
                         /\ \A k \in 0 .. S : k <= n => f[k] = RunBody(from, m, f, k)
           P == {n \in Nat : \E f : Upto(n, f)}
<1>0. S \in Nat
  OBVIOUS
<1> HIDE DEF S
<1>1. 0 \in P
  <2> DEFINE g == [k \in 0 .. S |-> m]
  <2>1. \A k \in 0 .. S : k <= 0 => k = 0
    OBVIOUS
  <2>2. Upto(0, g)
    BY <2>1 DEF RunBody
  <2> QED
    BY <2>2, Zenon
<1>2. ASSUME NEW n \in Nat, n \in P PROVE n + 1 \in P
  <2>1. PICK f : Upto(n, f)
    BY <1>2
  <2> DEFINE b == RunBody(from, m, f, n + 1)
  <2> HIDE DEF b
  <2> DEFINE h == [k \in 0 .. S |-> IF k = n + 1 THEN b ELSE f[k]]
  <2>2. DOMAIN h = 0 .. S /\ h = [k \in 0 .. S |-> h[k]]
        /\ \A k \in 0 .. S : h[k] = IF k = n + 1 THEN b ELSE f[k]
    OBVIOUS
  <2> HIDE DEF h
  <2>3. ASSUME NEW k \in 0 .. S, k <= n + 1 PROVE h[k] = RunBody(from, m, h, k)
    <3>1. k = 0 \/ (k - 1 \in 0 .. S /\ k - 1 # n + 1)
      BY <1>0, <2>3
    <3>2. RunBody(from, m, h, k) = RunBody(from, m, f, k)
      BY <2>2, <3>1 DEF RunBody
    <3>3. k = n + 1 \/ k <= n
      BY <2>3
    <3>4. CASE k = n + 1
      BY <2>2, <3>2, <3>4 DEF b
    <3>5. CASE k <= n
      <4>1. k # n + 1
        BY <3>5
      <4>2. f[k] = RunBody(from, m, f, k)
        BY <2>1, <3>5
      <4> QED
        BY <2>2, <3>2, <4>1, <4>2
    <3> QED
      BY <3>3, <3>4, <3>5
  <2>4. Upto(n + 1, h)
    BY <2>2, <2>3
  <2> HIDE DEF Upto
  <2> QED
    BY <2>4
<1> HIDE DEF P
<1>3. S \in P
  BY <1>1, <1>2, SetInduction DEF S
<1>4. PICK f : Upto(S, f)
  BY <1>3 DEF P
<1>5. Runs(from, m, f)
  <2>1. \A k \in 0 .. S : f[k] = RunBody(from, m, f, k)
    <3>1. \A k \in 0 .. S : k <= S
      BY DEF S
    <3> QED
      BY <1>4, <3>1
  <2>2. f = [k \in 0 .. S |-> f[k]]
    BY <1>4
  <2>3. [k \in 0 .. S |-> f[k]] = [k \in 0 .. S |-> RunBody(from, m, f, k)]
    BY <2>1
  <2> QED
    BY <2>2, <2>3 DEF Runs, S
<1> DEFINE v == Delimited!Run(from, m)
<1>6. Runs(from, m, v)
  BY <1>5, RunIs
<1> HIDE DEF v
<1>7. v = [n \in 0 .. S |-> RunBody(from, m, v, n)]
  BY <1>6 DEF Runs, S
<1>8. DOMAIN v = 0 .. S /\ \A n \in 0 .. S : v[n] = RunBody(from, m, v, n)
  BY <1>7, Zenon
<1> QED
  BY <1>8 DEF S, v

(* The text that the chunk continues, from the place at on.                *)
Continues(text, at, from) ==
  /\ at \in Int
  /\ \A n \in 1 .. Len(chunk) - from : text[at + n] = chunk[from + n]

LEMMA RunGrows ==
  ASSUME SizeIs, NEW from, Len(chunk) - from \in Nat,
         NEW text, NEW at, Continues(text, at, from), NEW e \in Int, e <= at,
         NEW m \in 0 .. Delimited!Size - 1, Longest(text, e, at, m)
  PROVE  \A n \in 0 .. Len(chunk) - from :
           (\A k \in 0 .. n - 1 : Delimited!Run(from, m)[k] # Delimited!Size)
             => Longest(text, e, at + n, Delimited!Run(from, m)[n])
<1> DEFINE L == Len(chunk) - from
           r == Delimited!Run(from, m)
           S == Delimited!Size
           P == {n \in Nat : n \in 0 .. L /\ (\A k \in 0 .. n - 1 : r[k] # S)
                               => Longest(text, e, at + n, r[n])}
<1>1. \A n \in 0 .. L : r[n] = RunBody(from, m, r, n)
  BY RunFacts
<1>2. at \in Int /\ \A n \in 1 .. L : text[at + n] = chunk[from + n]
  BY DEF Continues
<1>3. S \in Nat \ {0}
  BY DEF SizeIs
<1> HIDE DEF L, r, S
<1>4. 0 \in P
  <2>1. 0 \in 0 .. L => r[0] = m
    BY <1>1 DEF RunBody
  <2>2. at + 0 = at
    BY <1>2
  <2> QED
    BY <2>1, <2>2
<1>5. ASSUME NEW n \in Nat, n \in P PROVE n + 1 \in P
  <2> SUFFICES ASSUME n + 1 \in 0 .. L, \A k \in 0 .. (n + 1) - 1 : r[k] # S
               PROVE  Longest(text, e, at + (n + 1), r[n + 1])
    OBVIOUS
  <2>1. n \in 0 .. L /\ n + 1 \in 1 .. L /\ (n + 1) - 1 = n /\ n + 1 # 0
        /\ n \in 0 .. (n + 1) - 1 /\ \A k \in 0 .. n - 1 : k \in 0 .. (n + 1) - 1
    BY DEF L
  <2>2. Longest(text, e, at + n, r[n]) /\ r[n] # S
    BY <1>5, <2>1
  <2>3. r[n] \in 0 .. S - 1
    BY <1>3, <2>2 DEF Longest, Begun, S
  <2>4. r[n + 1] = Delimited!Advance(r[n], chunk[from + (n + 1)])
    BY <1>1, <2>1, <2>2 DEF RunBody, S
  <2>5. chunk[from + (n + 1)] = text[(at + n) + 1] /\ (at + n) + 1 = at + (n + 1)
        /\ at + n \in Int /\ e <= at + n
    BY <1>2, <2>1
  <2>6. Longest(text, e, (at + n) + 1, Delimited!Advance(r[n], text[(at + n) + 1]))
    BY <2>2, <2>3, <2>5, AdvanceGrows DEF S
  <2> QED
    BY <2>4, <2>5, <2>6
<1> HIDE DEF P
<1>6. \A n \in Nat : n \in P
  BY <1>4, <1>5, SetInduction, Zenon
<1>7. \A n \in 0 .. L : n \in P
  BY <1>6
<1> QED
  BY <1>7 DEF P, L, r, S

(* The reference: where the last frame before a place ended.               *)
DelimiterAtEnd(wire, e, n) ==
  /\ n - Delimited!Size >= e
  /\ SubSeq(wire, n - Delimited!Size + 1, n) = delimiter

LastBody(wire, last, n) ==
  IF n = 0 THEN 0
  ELSE IF DelimiterAtEnd(wire, last[n - 1], n) THEN n ELSE last[n - 1]

Lasts(wire, last) == last = [n \in 0 .. Len(wire) |-> LastBody(wire, last, n)]

LEMMA LastEndIs ==
  ASSUME NEW wire
  PROVE  Delimited!LastEnd(wire) = CHOOSE last : Lasts(wire, last)
BY DEF Delimited!LastEnd, Lasts, LastBody, DelimiterAtEnd

LEMMA LastEndBody ==
  ASSUME NEW wire, Len(wire) \in Nat
  PROVE  \A n \in 0 .. Len(wire) :
           Delimited!LastEnd(wire)[n] = LastBody(wire, Delimited!LastEnd(wire), n)
<1> DEFINE S == Len(wire)
           Upto(n, f) == /\ DOMAIN f = 0 .. S /\ f = [k \in 0 .. S |-> f[k]]
                         /\ \A k \in 0 .. S : k <= n => f[k] = LastBody(wire, f, k)
           P == {n \in Nat : \E f : Upto(n, f)}
<1>0. S \in Nat
  OBVIOUS
<1> HIDE DEF S
<1>1. 0 \in P
  <2> DEFINE g == [k \in 0 .. S |-> 0]
  <2>1. \A k \in 0 .. S : k <= 0 => k = 0
    OBVIOUS
  <2>2. Upto(0, g)
    BY <2>1 DEF LastBody
  <2> QED
    BY <2>2, Zenon
<1>2. ASSUME NEW n \in Nat, n \in P PROVE n + 1 \in P
  <2>1. PICK f : Upto(n, f)
    BY <1>2
  <2> DEFINE b == LastBody(wire, f, n + 1)
  <2> HIDE DEF b
  <2> DEFINE h == [k \in 0 .. S |-> IF k = n + 1 THEN b ELSE f[k]]
  <2>2. DOMAIN h = 0 .. S /\ h = [k \in 0 .. S |-> h[k]]
        /\ \A k \in 0 .. S : h[k] = IF k = n + 1 THEN b ELSE f[k]
    OBVIOUS
  <2> HIDE DEF h
  <2>3. ASSUME NEW k \in 0 .. S, k <= n + 1 PROVE h[k] = LastBody(wire, h, k)
    <3>1. k = 0 \/ (k - 1 \in 0 .. S /\ k - 1 # n + 1)
      BY <1>0, <2>3
    <3>2. LastBody(wire, h, k) = LastBody(wire, f, k)
      BY <2>2, <3>1 DEF LastBody
    <3>3. k = n + 1 \/ k <= n
      BY <2>3
    <3>4. CASE k = n + 1
      BY <2>2, <3>2, <3>4 DEF b
    <3>5. CASE k <= n
      <4>1. k # n + 1
        BY <3>5
      <4>2. f[k] = LastBody(wire, f, k)
        BY <2>1, <3>5
      <4> QED
        BY <2>2, <3>2, <4>1, <4>2
    <3> QED
      BY <3>3, <3>4, <3>5
  <2>4. Upto(n + 1, h)
    BY <2>2, <2>3
  <2> HIDE DEF Upto
  <2> QED
    BY <2>4
<1> HIDE DEF P
<1>3. S \in P
  BY <1>0, <1>1, <1>2, SetInduction
<1>4. PICK f : Upto(S, f)
  BY <1>3 DEF P
<1>5. Lasts(wire, f)
  <2>1. \A k \in 0 .. S : f[k] = LastBody(wire, f, k)
    <3>1. \A k \in 0 .. S : k <= S
      BY <1>0
    <3> QED
      BY <1>4, <3>1
  <2>2. f = [k \in 0 .. S |-> f[k]]
    BY <1>4
  <2>3. [k \in 0 .. S |-> f[k]] = [k \in 0 .. S |-> LastBody(wire, f, k)]
    BY <2>1
  <2> QED
    BY <2>2, <2>3 DEF Lasts, S
<1> DEFINE v == Delimited!LastEnd(wire)
<1>6. Lasts(wire, v)
  BY <1>5, LastEndIs
<1> HIDE DEF v
<1>7. v = [n \in 0 .. S |-> LastBody(wire, v, n)]
  BY <1>6 DEF Lasts, S
<1>8. \A n \in 0 .. S : v[n] = LastBody(wire, v, n)
  BY <1>7, Zenon
<1> QED
  BY <1>8 DEF S, v

(* A delimiter ends where all of it is matched.                            *)
LEMMA DelimiterIsBegun ==
  ASSUME delimiter \in Delimiters, NEW wire \in Seq(Letters), NEW e \in Nat,
         NEW n \in 1 .. Len(wire)
  PROVE  DelimiterAtEnd(wire, e, n) <=> Begun(wire, e, n, Delimited!Size)
<1> DEFINE S == Delimited!Size
           L == Len(wire)
<1>1. S \in Nat \ {0} /\ L \in Nat /\ delimiter \in Seq(Letters) /\ Len(delimiter) = S
  BY DelimiterSize DEF SizeIs
<1>2. n - S >= e <=> S <= n - e
  BY <1>1
<1>3. ASSUME n - S >= e
      PROVE  SubSeq(wire, n - S + 1, n) = delimiter
               <=> \A i \in 1 .. S : wire[(n - S) + i] = delimiter[i]
  <2> DEFINE k == n - S
             w == SubSeq(wire, k + 1, k + S)
  <2>1. k \in Nat /\ k + S <= Len(wire) /\ k + S = n
    BY <1>1, <1>3
  <2> HIDE DEF S, k
  <2>2. w \in Seq(Letters) /\ Len(w) = S /\ \A i \in 1 .. S : w[i] = wire[k + i]
    BY <1>1, <2>1, SliceIs
  <2> HIDE DEF w
  <2>3. w = delimiter <=> \A i \in 1 .. S : w[i] = delimiter[i]
    BY <1>1, <2>2, SeqEqual
  <2>4. w = delimiter <=> \A i \in 1 .. S : wire[k + i] = delimiter[i]
    BY <2>2, <2>3
  <2> QED
    BY <2>1, <2>4, Zenon DEF w, k, S
<1>4. S \in 0 .. S
  BY <1>1
<1> QED
  BY <1>2, <1>3, <1>4 DEF DelimiterAtEnd, Begun

LEMMA LastEndFacts ==
  ASSUME delimiter \in Delimiters, NEW wire \in Seq(Letters)
  PROVE  /\ Delimited!LastEnd(wire)[0] = 0
         /\ \A n \in 0 .. Len(wire) : Delimited!LastEnd(wire)[n] \in 0 .. n
         /\ \A n \in 1 .. Len(wire) :
              Delimited!LastEnd(wire)[n] =
                IF Begun(wire, Delimited!LastEnd(wire)[n - 1], n, Delimited!Size)
                THEN n ELSE Delimited!LastEnd(wire)[n - 1]
<1> DEFINE L == Len(wire)
           v == Delimited!LastEnd(wire)
           P == {n \in Nat : n \in 0 .. L => v[n] \in 0 .. n}
<1>1. L \in Nat
  OBVIOUS
<1>2. \A n \in 0 .. L : v[n] = LastBody(wire, v, n)
  BY <1>1, LastEndBody
<1> HIDE DEF v, L
<1>3. v[0] = 0
  BY <1>1, <1>2 DEF LastBody
<1>4. 0 \in P
  BY <1>3
<1>5. ASSUME NEW n \in Nat, n \in P PROVE n + 1 \in P
  <2> SUFFICES ASSUME n + 1 \in 0 .. L PROVE v[n + 1] \in 0 .. n + 1
    OBVIOUS
  <2>1. n \in 0 .. L /\ n + 1 # 0 /\ (n + 1) - 1 = n
    BY <1>1
  <2>2. v[n + 1] = n + 1 \/ v[n + 1] = v[n]
    BY <1>2, <2>1 DEF LastBody
  <2>3. v[n] \in 0 .. n
    BY <1>5, <2>1
  <2> QED
    BY <2>2, <2>3
<1> HIDE DEF P
<1>6. \A n \in Nat : n \in P
  BY <1>4, <1>5, SetInduction
<1>7. \A n \in 0 .. L : v[n] \in 0 .. n
  BY <1>6 DEF P
<1>8. ASSUME NEW n \in 1 .. L
      PROVE  v[n] = IF Begun(wire, v[n - 1], n, Delimited!Size)
                    THEN n ELSE v[n - 1]
  <2>1. n \in 0 .. L /\ n # 0 /\ n - 1 \in 0 .. L
    BY <1>1
  <2>2. v[n - 1] \in Nat
    BY <1>7, <2>1
  <2>3. v[n] = IF DelimiterAtEnd(wire, v[n - 1], n) THEN n ELSE v[n - 1]
    BY <1>2, <2>1 DEF LastBody
  <2> QED
    BY <2>2, <2>3, DelimiterIsBegun DEF L
<1> QED
  BY <1>3, <1>7, <1>8 DEF v, L

(* Only what comes before a place matters.                                 *)
LEMMA LastEndPrefix ==
  ASSUME delimiter \in Delimiters,
         NEW u \in Seq(Letters), NEW t \in Seq(Letters), Len(u) <= Len(t),
         \A i \in 1 .. Len(u) : u[i] = t[i]
  PROVE  \A n \in 0 .. Len(u) :
           Delimited!LastEnd(u)[n] = Delimited!LastEnd(t)[n]
<1> DEFINE L == Len(u)
           v == Delimited!LastEnd(u)
           w == Delimited!LastEnd(t)
           P == {n \in Nat : n \in 0 .. L => v[n] = w[n]}
<1>1. L \in Nat /\ Len(t) \in Nat /\ L <= Len(t)
  OBVIOUS
<1>2. /\ v[0] = 0
      /\ \A n \in 0 .. L : v[n] \in 0 .. n
      /\ \A n \in 1 .. L : v[n] = IF Begun(u, v[n - 1], n, Delimited!Size)
                                  THEN n ELSE v[n - 1]
  BY LastEndFacts, Zenon
<1>3. /\ w[0] = 0
      /\ \A n \in 1 .. Len(t) : w[n] = IF Begun(t, w[n - 1], n, Delimited!Size)
                                       THEN n ELSE w[n - 1]
  BY LastEndFacts
<1>4. ASSUME NEW n \in 1 .. L, NEW e \in Nat
      PROVE  Begun(u, e, n, Delimited!Size) <=> Begun(t, e, n, Delimited!Size)
  <2> DEFINE S == Delimited!Size
  <2>0. S \in Nat
    BY DelimiterSize DEF SizeIs
  <2> HIDE DEF S
  <2>1. S <= n - e => \A i \in 1 .. S : u[(n - S) + i] = t[(n - S) + i]
    <3> SUFFICES ASSUME S <= n - e, NEW i \in 1 .. S
                 PROVE  u[(n - S) + i] = t[(n - S) + i]
      OBVIOUS
    <3>1. (n - S) + i \in 1 .. L
      BY <1>1, <2>0
    <3> QED
      BY <3>1
  <2> QED
    BY <2>1 DEF Begun, S
<1> HIDE DEF v, w, L
<1>5. 0 \in P
  BY <1>2, <1>3
<1>6. ASSUME NEW n \in Nat, n \in P PROVE n + 1 \in P
  <2> SUFFICES ASSUME n + 1 \in 0 .. L PROVE v[n + 1] = w[n + 1]
    OBVIOUS
  <2>1. n \in 0 .. L /\ n + 1 \in 1 .. L /\ n + 1 \in 1 .. Len(t) /\ (n + 1) - 1 = n
    BY <1>1
  <2>2. v[n] = w[n] /\ v[n] \in Nat
    BY <1>2, <1>6, <2>1
  <2> QED
    BY <1>2, <1>3, <1>4, <2>1, <2>2
<1> HIDE DEF P
<1>7. \A n \in 0 .. L : n \in P
  BY <1>5, <1>6, SetInduction
<1> QED
  BY <1>7 DEF P, v, w, L

(* Where no delimiter is completed, the last frame ended where it did.     *)
Quiet(text, e, a, b) == \A n \in a + 1 .. b : ~Begun(text, e, n, Delimited!Size)

LEMMA QuietLast ==
  ASSUME delimiter \in Delimiters, NEW text \in Seq(Letters),
         NEW a \in Nat, NEW b \in Nat, b <= Len(text),
         NEW e, e = Delimited!LastEnd(text)[a], Quiet(text, e, a, b)
  PROVE  \A n \in a .. b : Delimited!LastEnd(text)[n] = e
<1> DEFINE v == Delimited!LastEnd(text)
           P == {n \in Nat : n \in a .. b => v[n] = e}
<1>1. \A n \in 1 .. Len(text) :
        v[n] = IF Begun(text, v[n - 1], n, Delimited!Size) THEN n ELSE v[n - 1]
  BY LastEndFacts
<1>2. e = v[a] /\ Len(text) \in Nat
  OBVIOUS
<1> HIDE DEF v
<1>3. 0 \in P
  <2>1. 0 \in a .. b => 0 = a
    OBVIOUS
  <2> QED
    BY <1>2, <2>1
<1>4. ASSUME NEW n \in Nat, n \in P PROVE n + 1 \in P
  <2> SUFFICES ASSUME n + 1 \in a .. b PROVE v[n + 1] = e
    OBVIOUS
  <2>1. CASE n + 1 = a
    BY <1>2, <2>1
  <2>2. CASE n + 1 # a
    <3>1. n \in a .. b /\ n + 1 \in 1 .. Len(text) /\ (n + 1) - 1 = n
          /\ n + 1 \in a + 1 .. b
      BY <1>2, <2>2
    <3>2. v[n] = e
      BY <1>4, <3>1
    <3> QED
      BY <1>1, <3>1, <3>2 DEF Quiet
  <2> QED
    BY <2>1, <2>2
<1> HIDE DEF P
<1>5. \A n \in Nat : n \in P
  BY <1>3, <1>4, SetInduction, Zenon
<1> QED
  BY <1>5 DEF P, v

LEMMA LongestFull ==
  ASSUME SizeIs, NEW text, NEW e, NEW n, NEW m, Longest(text, e, n, m)
  PROVE  /\ m \in 0 .. Delimited!Size
         /\ Begun(text, e, n, Delimited!Size) <=> m = Delimited!Size
<1>1. m \in 0 .. Delimited!Size /\ Delimited!Size \in 0 .. Delimited!Size
  BY DEF Longest, Begun, SizeIs
<1> QED
  BY <1>1 DEF Longest, SizeIs

(* What begins before a place and goes on after it has begun at the place. *)
LEMMA BegunEarlier ==
  ASSUME SizeIs, NEW text, NEW e \in Int, NEW n \in Int, NEW k, Begun(text, e, n, k),
         NEW q \in Int, n - k < q, q <= n
  PROVE  /\ k - (n - q) \in 1 .. Delimited!Size
         /\ Begun(text, e, q, k - (n - q))
<1> DEFINE j == k - (n - q)
           S == Delimited!Size
<1>1. k \in 0 .. S /\ k <= n - e /\ S \in Nat
      /\ \A i \in 1 .. k : text[(n - k) + i] = delimiter[i]
  BY DEF Begun, SizeIs
<1> HIDE DEF S
<1>2. j \in 1 .. S /\ j \in 0 .. S /\ j <= q - e /\ q - j = n - k
  BY <1>1
<1>3. \A i \in 1 .. j : i \in 1 .. k
  BY <1>1
<1> HIDE DEF j
<1>4. Begun(text, e, q, j)
  BY <1>1, <1>2, <1>3 DEF Begun, S
<1> QED
  BY <1>2, <1>4 DEF j, S

(***************************************************************************)
(* The search of a chunk, in the text that the input and the rest of the   *)
(* chunk are.                                                              *)
(***************************************************************************)
Searches(text, at, e) ==
  /\ delimiter \in Delimiters /\ chunk \in Seq(Letters) /\ text \in Seq(Letters)
  /\ offset \in 0 .. Len(chunk) /\ at \in Nat
  /\ Len(text) = at + (Len(chunk) - offset)
  /\ Continues(text, at, offset)
  /\ e \in 0 .. at /\ matched \in 0 .. Delimited!Size - 1
  /\ Longest(text, e, at, matched)

PlaceOf(at, c) == at + (c - offset)

LEMMA MinIsLeast ==
  ASSUME NEW K \in SUBSET Nat, K # {}
  PROVE  Delimited!Min(K) \in K /\ \A k \in K : Delimited!Min(K) <= k
<1>1. Delimited!Min(K) = Packets!Min(K)
  BY DEF Delimited!Min, Packets!Min
<1> QED
  BY <1>1, LeastExists

LEMMA ResumedFinds ==
  ASSUME NEW text, NEW at, NEW e, Searches(text, at, e)
  PROVE  LET c == Delimited!Resumed.from
             m == Delimited!Resumed.matched
         IN  /\ c \in offset .. Len(chunk)
             /\ Longest(text, e, PlaceOf(at, c), m)
             /\ Quiet(text, e, at, PlaceOf(at, c) - 1)
             /\ m = Delimited!Size => c > offset
             /\ m \in {0, Delimited!Size} \/ c = Len(chunk)
<1> DEFINE L == Len(chunk) - offset
           S == Delimited!Size
           r == Delimited!Run(offset, matched)
           K == {k \in DOMAIN r : k = Len(chunk) - offset \/ r[k] \in {0, S}}
           n == Delimited!Min(K)
<1>1. /\ L \in Nat /\ S \in Nat \ {0} /\ SizeIs /\ at \in Int /\ e \in Int /\ e <= at
      /\ offset \in Nat /\ Len(chunk) \in Nat /\ offset + L = Len(chunk)
  BY DelimiterSize DEF Searches, SizeIs
<1>2. DOMAIN r = 0 .. L /\ r[0] = matched
  <2>1. DOMAIN r = 0 .. L /\ \A k \in 0 .. L : r[k] = RunBody(offset, matched, r, k)
    BY <1>1, RunFacts
  <2> HIDE DEF r
  <2> QED
    BY <1>1, <2>1 DEF RunBody
<1>3. \A k \in 0 .. L :
        (\A j \in 0 .. k - 1 : r[j] # S) => Longest(text, e, at + k, r[k])
  BY <1>1, RunGrows, Zenon DEF Searches
<1>4. Delimited!Resumed = [from |-> offset + n, matched |-> r[n]]
  BY DEF Delimited!Resumed
<1> HIDE DEF r, S, L
<1>5. K \in SUBSET Nat /\ L \in K
  BY <1>1, <1>2 DEF L
<1>6. n \in K /\ \A k \in K : n <= k
  BY <1>5, MinIsLeast, Zenon
<1> HIDE DEF n
<1>7. n \in 0 .. L /\ (n = L \/ r[n] \in {0, S})
  BY <1>2, <1>6 DEF L
<1>8. ASSUME NEW k \in 0 .. n - 1 PROVE r[k] # S
  <2>1. k \in 0 .. L /\ ~(n <= k)
    BY <1>1, <1>7
  <2> QED
    BY <1>2, <1>6, <2>1
<1>9. ASSUME NEW k \in 0 .. n PROVE Longest(text, e, at + k, r[k])
  <2>1. k \in 0 .. L /\ \A j \in 0 .. k - 1 : j \in 0 .. n - 1
    BY <1>1, <1>7
  <2> QED
    BY <1>3, <1>8, <2>1
<1>10. PlaceOf(at, offset + n) = at + n
  BY <1>1, <1>7 DEF PlaceOf
<1>11. Quiet(text, e, at, (at + n) - 1)
  <2> SUFFICES ASSUME NEW x \in at + 1 .. (at + n) - 1
               PROVE  ~Begun(text, e, x, S)
    BY DEF Quiet, S
  <2> DEFINE k == x - at
  <2>1. k \in 0 .. n - 1 /\ k \in 0 .. n /\ x = at + k
    BY <1>1, <1>7
  <2> HIDE DEF k
  <2>2. Longest(text, e, x, r[k]) /\ r[k] # S
    BY <1>8, <1>9, <2>1
  <2> QED
    BY <1>1, <2>2, LongestFull DEF S
<1>12. r[n] = S => offset + n > offset
  <2>1. n = 0 => r[n] # S
    BY <1>1, <1>2 DEF Searches, S
  <2> QED
    BY <1>1, <1>7, <2>1
<1>13. offset + n \in offset .. Len(chunk) /\ (n = L => offset + n = Len(chunk))
  BY <1>1, <1>7
<1>14. Longest(text, e, at + n, r[n])
  BY <1>7, <1>9
<1> QED
  BY <1>4, <1>7, <1>10, <1>11, <1>12, <1>13, <1>14 DEF S

(* Where nothing is matched, what is searched is the chunk.                *)
LEMMA EndsInIs ==
  ASSUME NEW text, NEW at, NEW e, Searches(text, at, e),
         NEW from \in offset .. Len(chunk), Longest(text, e, PlaceOf(at, from), 0)
  PROVE  \A c \in from + 1 .. Len(chunk) :
           Begun(text, e, PlaceOf(at, c), Delimited!Size) <=> c \in Delimited!EndsIn(from)
<1> DEFINE S == Delimited!Size
           q == PlaceOf(at, from)
<1>1. /\ S \in Nat \ {0} /\ SizeIs /\ at \in Nat /\ e \in Nat /\ e <= at
      /\ offset \in Nat /\ Len(chunk) \in Nat /\ from \in Nat
      /\ chunk \in Seq(Letters) /\ delimiter \in Seq(Letters) /\ Len(delimiter) = S
      /\ from >= offset
  BY DelimiterSize DEF Searches, SizeIs
<1>2. \A n \in 1 .. Len(chunk) - offset : text[at + n] = chunk[offset + n]
  BY DEF Searches, Continues
<1>3. q \in Int /\ q >= e
  BY <1>1 DEF PlaceOf
<1> SUFFICES ASSUME NEW c \in from + 1 .. Len(chunk)
             PROVE  Begun(text, e, PlaceOf(at, c), S) <=> c \in Delimited!EndsIn(from)
  OBVIOUS
<1> DEFINE n == PlaceOf(at, c)
<1>4. n \in Int /\ n - q = c - from /\ c \in Nat /\ c > from /\ c <= Len(chunk)
  BY <1>1 DEF PlaceOf
<1>5. Delimited!EndsIn(from) =
        {x \in from + S .. Len(chunk) : SubSeq(chunk, x - S + 1, x) = delimiter}
  BY DEF Delimited!EndsIn
<1> HIDE DEF S
<1>6. CASE c < from + S
  <2>1. c \notin Delimited!EndsIn(from)
    BY <1>1, <1>5, <1>6
  <2>2. ASSUME Begun(text, e, n, S) PROVE FALSE
    <3> DEFINE j == S - (n - q)
    <3>1. n - S < q /\ q <= n
      <4> HIDE DEF n, q
      <4> QED
        BY <1>1, <1>3, <1>4, <1>6
    <3>2. j \in 1 .. Delimited!Size /\ Begun(text, e, q, j)
      <4> HIDE DEF n, q
      <4> QED
        BY <1>1, <1>3, <1>4, <2>2, <3>1, BegunEarlier DEF S
    <3> HIDE DEF j
    <3>3. j \in 0 .. Delimited!Size /\ ~(j <= 0)
      BY <3>2
    <3> QED
      BY <3>2, <3>3 DEF Longest
  <2> QED
    BY <2>1, <2>2
<1>7. CASE c >= from + S
  <2> DEFINE k == c - S
             w == SubSeq(chunk, k + 1, k + S)
  <2>1. k \in Nat /\ k + S = c /\ k + S <= Len(chunk) /\ k >= from
    BY <1>1, <1>4, <1>7
  <2> HIDE DEF k
  <2>2. w \in Seq(Letters) /\ Len(w) = S /\ \A i \in 1 .. S : w[i] = chunk[k + i]
    BY <1>1, <2>1, SliceIs
  <2> HIDE DEF w
  <2>3. w = delimiter <=> \A i \in 1 .. S : chunk[k + i] = delimiter[i]
    <3>1. w = delimiter <=> \A i \in 1 .. S : w[i] = delimiter[i]
      BY <1>1, <2>2, SeqEqual
    <3> QED
      BY <2>2, <3>1
  <2>4. ASSUME NEW i \in 1 .. S PROVE text[(n - S) + i] = chunk[k + i]
    <3> DEFINE x == (k + i) - offset
    <3>1. x \in 1 .. Len(chunk) - offset /\ at + x = (n - S) + i /\ offset + x = k + i
      BY <1>1, <1>4, <2>1 DEF PlaceOf
    <3> HIDE DEF x
    <3> QED
      BY <1>2, <3>1
  <2>5. S \in 0 .. S /\ S <= n - e
    BY <1>1, <1>4, <2>1 DEF PlaceOf
  <2>6. Begun(text, e, n, S) <=> \A i \in 1 .. S : chunk[k + i] = delimiter[i]
    <3> HIDE DEF n
    <3> QED
      BY <2>4, <2>5 DEF Begun, S
  <2>7. c \in Delimited!EndsIn(from) <=> w = delimiter
    <3>1. k + 1 = c - S + 1 /\ k + S = c /\ c \in from + S .. Len(chunk)
      BY <1>1, <1>4, <1>7, <2>1
    <3> QED
      BY <1>5, <3>1 DEF w
  <2> QED
    BY <2>3, <2>6, <2>7
<1> QED
  BY <1>1, <1>4, <1>6, <1>7

(* The last bytes of a chunk without a delimiter.                          *)
LEMMA SuffixFinds ==
  ASSUME NEW text, NEW at, NEW e, Searches(text, at, e),
         NEW from \in offset .. Len(chunk), from # Len(chunk),
         Longest(text, e, PlaceOf(at, from), 0),
         Quiet(text, e, PlaceOf(at, from), Len(text))
  PROVE  /\ Longest(text, e, Len(text), Delimited!Suffix(from))
         /\ Delimited!Suffix(from) \in 0 .. Delimited!Size - 1
<1> DEFINE S == Delimited!Size
           C == Len(chunk)
           N == Len(text)
           first == Delimited!Max({from, C - S + 1})
           L == C - first
           g == PlaceOf(at, first)
           q == PlaceOf(at, from)
           r == Delimited!Run(first, 0)
           sfx == Delimited!Suffix(from)
<1>1. /\ S \in Nat \ {0} /\ SizeIs /\ at \in Nat /\ e \in Nat /\ e <= at
      /\ offset \in Nat /\ C \in Nat /\ from \in Nat /\ from >= offset
      /\ from < C /\ N = at + (C - offset) /\ N \in Nat
  BY DelimiterSize DEF Searches, SizeIs
<1>2. first = IF from >= C - S + 1 THEN from ELSE C - S + 1
  <2>1. Delimited!Max({from, C - S + 1}) = Packets!Max({from, C - S + 1})
    BY DEF Delimited!Max, Packets!Max
  <2>2. from \in Int /\ C - S + 1 \in Int
    BY <1>1
  <2> HIDE DEF C, S
  <2> QED
    BY <2>1, <2>2, MaxOfTwo
<1>3. sfx = r[L]
  BY DEF Delimited!Suffix
<1>4. Continues(text, at, offset)
  BY DEF Searches
<1> HIDE DEF first, S, C, N
<1>5. /\ first \in Nat /\ first >= from /\ first >= offset /\ first <= C
      /\ L \in Nat /\ L < S /\ g \in Int /\ g + L = N /\ g >= q /\ q >= at
      /\ g = at + (first - offset) /\ q \in Int
  BY <1>1, <1>2 DEF PlaceOf
<1>6. Continues(text, g, first)
  <2> SUFFICES ASSUME NEW n \in 1 .. Len(chunk) - first
               PROVE  text[g + n] = chunk[first + n]
    BY <1>5 DEF Continues
  <2> DEFINE x == (first - offset) + n
  <2>1. x \in 1 .. Len(chunk) - offset /\ at + x = g + n /\ offset + x = first + n
    BY <1>1, <1>5 DEF C
  <2> HIDE DEF x
  <2> QED
    BY <1>4, <2>1 DEF Continues
<1> HIDE DEF g
<1>7. Longest(text, g, g, 0)
  <2>1. Begun(text, g, g, 0)
    BY <1>1, <1>5, BegunNothing
  <2>2. \A k \in 0 .. Delimited!Size : Begun(text, g, g, k) => k <= 0
    BY <1>5 DEF Begun
  <2> QED
    BY <2>1, <2>2 DEF Longest
<1>8. \A n \in 0 .. L :
        (\A k \in 0 .. n - 1 : r[k] # S) => Longest(text, g, g + n, r[n])
  <2>1. Len(chunk) - first \in Nat /\ 0 \in 0 .. Delimited!Size - 1
    BY <1>1, <1>5 DEF C, S
  <2>2. g <= g
    BY <1>5
  <2> QED
    BY <1>1, <1>5, <1>6, <1>7, <2>1, <2>2, RunGrows, Zenon DEF C, S
<1> HIDE DEF r, L
<1>9. \A n \in 0 .. L : r[n] # S /\ Longest(text, g, g + n, r[n])
  <2> DEFINE P == {n \in Nat : \A k \in 0 .. n :
                     k \in 0 .. L => r[k] # S /\ Longest(text, g, g + k, r[k])}
  <2>1. ASSUME NEW n \in 0 .. L, Longest(text, g, g + n, r[n]) PROVE r[n] # S
    <3>1. r[n] <= (g + n) - g
      BY <2>1 DEF Longest, Begun
    <3> QED
      BY <1>1, <1>5, <3>1
  <2>2. 0 \in P
    <3> SUFFICES ASSUME NEW k \in 0 .. 0, k \in 0 .. L
                 PROVE  r[k] # S /\ Longest(text, g, g + k, r[k])
      OBVIOUS
    <3>1. \A j \in 0 .. k - 1 : r[j] # S
      OBVIOUS
    <3> QED
      BY <1>8, <2>1, <3>1
  <2>3. ASSUME NEW n \in Nat, n \in P PROVE n + 1 \in P
    <3> SUFFICES ASSUME NEW k \in 0 .. n + 1, k \in 0 .. L
                 PROVE  r[k] # S /\ Longest(text, g, g + k, r[k])
      OBVIOUS
    <3>1. \A j \in 0 .. k - 1 : j \in 0 .. n /\ j \in 0 .. L
      BY <1>5
    <3>2. \A j \in 0 .. k - 1 : r[j] # S
      BY <2>3, <3>1
    <3> QED
      BY <1>8, <2>1, <3>2
  <2> HIDE DEF P
  <2>4. L \in P
    BY <1>5, <2>2, <2>3, SetInduction, Zenon
  <2> QED
    BY <1>5, <2>4 DEF P
<1>10. L \in 0 .. L /\ sfx # S /\ Longest(text, g, N, sfx)
  <2>1. L \in 0 .. L
    BY <1>5
  <2> QED
    BY <1>3, <1>5, <1>9, <2>1
<1> HIDE DEF sfx, q
<1>11. sfx \in 0 .. S - 1
  BY <1>1, <1>10, LongestFull DEF S
<1>12. Begun(text, e, N, sfx)
  <2>1. Begun(text, g, N, sfx)
    BY <1>10 DEF Longest
  <2> QED
    BY <1>1, <1>5, <1>11, <2>1 DEF Begun
<1>13. ASSUME NEW k \in 0 .. S, Begun(text, e, N, k) PROVE k <= sfx
  <2>1. k # S
    <3>1. N \in q + 1 .. N
      BY <1>1, <1>5 DEF q, PlaceOf
    <3> QED
      BY <1>13, <3>1 DEF Quiet, S, N, q
  <2>2. CASE k <= N - g
    <3>1. Begun(text, g, N, k)
      BY <1>13, <2>2 DEF Begun
    <3> QED
      BY <1>10, <3>1 DEF Longest, S
  <2>3. CASE ~(k <= N - g)
    <3>1. first = from
      BY <1>1, <1>2, <1>5, <2>1, <2>3
    <3>2. g = q
      BY <3>1 DEF g, q
    <3> DEFINE j == k - (N - q)
    <3>3. N - k < q /\ q <= N
      BY <1>1, <1>5, <2>3, <3>2
    <3>4. j \in 1 .. Delimited!Size /\ Begun(text, e, q, j)
      BY <1>1, <1>5, <1>13, <3>3, BegunEarlier
    <3> HIDE DEF j
    <3>5. j \in 0 .. Delimited!Size /\ ~(j <= 0)
      BY <3>4
    <3> QED
      BY <3>4, <3>5 DEF Longest, q
  <2> QED
    BY <2>2, <2>3
<1> QED
  BY <1>11, <1>12, <1>13 DEF Longest, S, N, sfx

(* What find says of the text.                                             *)
LEMMA FindFinds ==
  ASSUME NEW text, NEW at, NEW e, Searches(text, at, e)
  PROVE  LET found == Delimited!Find
         IN  \/ /\ found.end \in offset + 1 .. Len(chunk) /\ found.matched = 0
                /\ Quiet(text, e, at, PlaceOf(at, found.end) - 1)
                /\ Begun(text, e, PlaceOf(at, found.end), Delimited!Size)
             \/ /\ found.end = -1 /\ Quiet(text, e, at, Len(text))
                /\ found.matched \in 0 .. Delimited!Size - 1
                /\ Longest(text, e, Len(text), found.matched)
<1> DEFINE S == Delimited!Size
           C == Len(chunk)
           N == Len(text)
           from == Delimited!Resumed.from
           m == Delimited!Resumed.matched
           q == PlaceOf(at, from)
           E == Delimited!EndsIn(from)
           found == Delimited!Find
<1>1. /\ S \in Nat \ {0} /\ SizeIs /\ at \in Nat /\ e \in Nat /\ e <= at
      /\ offset \in Nat /\ C \in Nat
      /\ N = at + (C - offset) /\ N \in Nat
  BY DelimiterSize DEF Searches, SizeIs
<1>2. /\ from \in offset .. C /\ Longest(text, e, q, m)
      /\ Quiet(text, e, at, q - 1)
      /\ m = S => from > offset
      /\ m \in {0, S} \/ from = C
  BY ResumedFinds
<1>3. m \in 0 .. S /\ (Begun(text, e, q, S) <=> m = S)
  BY <1>1, <1>2, LongestFull
<1>4. found = CASE m = S -> [end |-> from, matched |-> 0]
                [] m # S /\ from = C -> [end |-> -1, matched |-> m]
                [] m # S /\ from < C /\ E # {} ->
                     [end |-> Delimited!Min(E), matched |-> 0]
                [] OTHER -> [end |-> -1, matched |-> Delimited!Suffix(from)]
  BY DEF Delimited!Find
<1>5. E \subseteq from + S .. C
  BY DEF Delimited!EndsIn
<1> HIDE DEF found, from, m, E, S, C, N
<1>6. q \in Int /\ q >= at /\ (from = C => q = N) /\ q = at + (from - offset)
  BY <1>1, <1>2 DEF PlaceOf
<1>7. m # S => Quiet(text, e, at, q)
  <2> SUFFICES ASSUME m # S, NEW n \in at + 1 .. q PROVE ~Begun(text, e, n, S)
    BY DEF Quiet, S
  <2>1. n = q \/ n \in at + 1 .. q - 1
    BY <1>1, <1>6
  <2> HIDE DEF q
  <2> QED
    BY <1>2, <1>3, <2>1 DEF Quiet, S
<1>8. CASE m = S
  <2>1. found = [end |-> from, matched |-> 0]
    BY <1>4, <1>8
  <2>2. from \in offset + 1 .. C
    BY <1>1, <1>2, <1>8
  <2> QED
    BY <1>2, <1>3, <1>8, <2>1, <2>2 DEF S, C, found
<1>9. CASE m # S /\ from = C
  <2>0. ~(m = S) /\ m # S /\ from = C /\ ~(from < C)
    BY <1>1, <1>9
  <2>1. found = [end |-> -1, matched |-> m]
    BY <1>4, <2>0
  <2>2. m \in 0 .. S - 1
    BY <1>1, <1>3, <1>9
  <2> QED
    BY <1>2, <1>6, <1>7, <1>9, <2>1, <2>2 DEF S, N, found
<1>10. CASE m # S /\ from # C
  <2>1. m = 0 /\ from < C /\ from \in Nat
    BY <1>1, <1>2, <1>10
  <2>2. Longest(text, e, PlaceOf(at, from), 0) /\ from \in offset .. Len(chunk)
    BY <1>2, <2>1 DEF C
  <2>3. \A c \in from + 1 .. C : Begun(text, e, PlaceOf(at, c), S) <=> c \in E
    BY <2>2, EndsInIs DEF S, C, E
  <2>4. ASSUME NEW c \in from .. C, \A x \in E : x > c
        PROVE  Quiet(text, e, at, PlaceOf(at, c))
    <3> SUFFICES ASSUME NEW n \in at + 1 .. PlaceOf(at, c)
                 PROVE  ~Begun(text, e, n, S)
      BY DEF Quiet, S
    <3>1. CASE n <= q
      <4>1. n \in at + 1 .. q
        BY <1>1, <1>6, <3>1 DEF PlaceOf
      <4> HIDE DEF q
      <4> QED
        BY <1>7, <1>10, <4>1 DEF Quiet, S
    <3>2. CASE ~(n <= q)
      <4> DEFINE x == offset + (n - at)
      <4>1. x \in from + 1 .. C /\ n = PlaceOf(at, x) /\ ~(x > c)
        BY <1>1, <1>6, <2>1, <3>2 DEF PlaceOf
      <4> HIDE DEF x
      <4> QED
        BY <2>3, <2>4, <4>1
    <3> QED
      BY <3>1, <3>2
  <2>5. CASE E # {}
    <3> DEFINE c == Delimited!Min(E)
    <3>1. found = [end |-> c, matched |-> 0]
      BY <1>4, <1>10, <2>1, <2>5
    <3>2. E \in SUBSET Nat
      BY <1>1, <1>5, <2>1
    <3>3. c \in E /\ \A x \in E : c <= x
      BY <2>5, <3>2, MinIsLeast
    <3> HIDE DEF c
    <3>4. c \in from + 1 .. C /\ c \in offset + 1 .. C /\ c - 1 \in from .. C
      BY <1>1, <1>2, <1>5, <2>1, <3>3
    <3>5. Begun(text, e, PlaceOf(at, c), S)
      BY <2>3, <3>3, <3>4
    <3>6. \A x \in E : x > c - 1
      BY <3>2, <3>3
    <3>7. Quiet(text, e, at, PlaceOf(at, c - 1))
      BY <2>4, <3>4, <3>6
    <3>8. PlaceOf(at, c - 1) = PlaceOf(at, c) - 1
      BY <1>1, <3>4 DEF PlaceOf
    <3> QED
      BY <3>1, <3>4, <3>5, <3>7, <3>8 DEF S, C, found
  <2>6. CASE E = {}
    <3>1. found = [end |-> -1, matched |-> Delimited!Suffix(from)]
      BY <1>4, <1>10, <2>1, <2>6
    <3>2. C \in from .. C /\ PlaceOf(at, C) = N
      BY <1>1, <2>1 DEF PlaceOf
    <3>3. Quiet(text, e, at, N)
      BY <2>4, <2>6, <3>2
    <3>4. Quiet(text, e, q, N)
      <4>1. \A n \in q + 1 .. N : n \in at + 1 .. N
        BY <1>1, <1>6
      <4> QED
        BY <3>3, <4>1 DEF Quiet
    <3>5. /\ Longest(text, e, N, Delimited!Suffix(from))
          /\ Delimited!Suffix(from) \in 0 .. S - 1
      BY <1>10, <2>2, <3>4, SuffixFinds DEF C, N, S
    <3> QED
      BY <3>1, <3>3, <3>5 DEF S, N, found
  <2> QED
    BY <2>5, <2>6
<1> QED
  BY <1>8, <1>9, <1>10

(***************************************************************************)
(* The frames of the delimiter parser, place by place.                     *)
(***************************************************************************)
DelimitedPiece(wire, n) ==
  IF n \in Delimited!Ends(wire) THEN Delimited!OneOrNone(Delimited!FrameAt(wire, n))
  ELSE <<>>

DelimitedPieces(wire, n) == [i \in 1 .. n |-> DelimitedPiece(wire, i)]

LEMMA DelimitedFramesAre ==
  ASSUME NEW wire \in Seq(Letters)
  PROVE  Delimited!FramesOf(wire) = FlattenSeq(DelimitedPieces(wire, Len(wire)))
<1>1. DOMAIN wire = 1 .. Len(wire)
  OBVIOUS
<1>2. \A s : Delimited!FlattenSeq(s) = FlattenSeq(s)
  BY DEF Delimited!FlattenSeq, FlattenSeq
<1> QED
  BY <1>1, <1>2 DEF Delimited!FramesOf, DelimitedPieces, DelimitedPiece

LEMMA EndsAre ==
  ASSUME delimiter \in Delimiters, NEW wire \in Seq(Letters), NEW n \in 1 .. Len(wire)
  PROVE  n \in Delimited!Ends(wire) <=>
           Begun(wire, Delimited!LastEnd(wire)[n - 1], n, Delimited!Size)
<1> DEFINE v == Delimited!LastEnd(wire)
<1>1. v[n] = IF Begun(wire, v[n - 1], n, Delimited!Size) THEN n ELSE v[n - 1]
  BY LastEndFacts
<1>2. v[n - 1] \in 0 .. n - 1
  <2>1. n - 1 \in 0 .. Len(wire)
    OBVIOUS
  <2> QED
    BY <2>1, LastEndFacts
<1>3. n \in Delimited!Ends(wire) <=> v[n] = n
  BY DEF Delimited!Ends
<1> HIDE DEF v
<1>4. v[n - 1] # n
  BY <1>2
<1> QED
  BY <1>1, <1>3, <1>4 DEF v

(* A frame that is complete is a part of the text.                         *)
LEMMA FrameAtIs ==
  ASSUME delimiter \in Delimiters, includeDelimiter \in BOOLEAN,
         NEW wire \in Seq(Letters), NEW n \in 1 .. Len(wire), NEW e \in Nat,
         e = Delimited!LastEnd(wire)[n - 1],
         Begun(wire, e, n, Delimited!Size)
  PROVE  /\ (n - e) - Delimited!Excluded \in Nat
         /\ e + ((n - e) - Delimited!Excluded) <= n
         /\ Delimited!FrameAt(wire, n) =
              SubSeq(wire, e + 1, e + ((n - e) - Delimited!Excluded))
<1>1. Delimited!Size \in Nat /\ Delimited!Size <= n - e
  BY DelimiterSize DEF Begun, SizeIs
<1>2. Delimited!Excluded \in Nat /\ Delimited!Excluded <= n - e
  BY <1>1 DEF Delimited!Excluded
<1> DEFINE x == Delimited!Excluded
<1>3. Delimited!FrameAt(wire, n) = SubSeq(wire, e + 1, n - x)
  BY DEF Delimited!FrameAt
<1> HIDE DEF x
<1>4. x \in Nat /\ x <= n - e
  BY <1>2 DEF x
<1>5. n - x = e + ((n - e) - x)
  BY <1>4
<1>6. (n - e) - x \in Nat /\ e + ((n - e) - x) <= n
  BY <1>4
<1>7. Delimited!FrameAt(wire, n) = SubSeq(wire, e + 1, e + ((n - e) - x))
  BY <1>3, <1>5, Zenon
<1> QED
  BY <1>6, <1>7 DEF x

LEMMA DelimitedPieceIs ==
  ASSUME delimiter \in Delimiters, includeDelimiter \in BOOLEAN,
         NEW wire \in Seq(Letters), NEW n \in 1 .. Len(wire)
  PROVE  DelimitedPiece(wire, n) \in Seq(Seq(Letters))
<1> DEFINE e == Delimited!LastEnd(wire)[n - 1]
           k == (n - e) - Delimited!Excluded
           f == Delimited!FrameAt(wire, n)
<1>1. CASE n \in Delimited!Ends(wire)
  <2>1. n - 1 \in 0 .. Len(wire)
    OBVIOUS
  <2>2. e \in Nat
    BY <2>1, LastEndFacts
  <2>3. Begun(wire, e, n, Delimited!Size)
    BY <1>1, EndsAre
  <2>4. k \in Nat /\ e + k <= n /\ f = SubSeq(wire, e + 1, e + k)
    BY <2>2, <2>3, FrameAtIs, Zenon
  <2> HIDE DEF e, k, f
  <2>5. f \in Seq(Letters)
    BY <2>2, <2>4, SliceIs
  <2>6. Delimited!OneOrNone(f) \in Seq(Seq(Letters))
    BY <2>5 DEF Delimited!OneOrNone
  <2> QED
    BY <1>1, <2>6 DEF DelimitedPiece, f
<1>2. CASE n \notin Delimited!Ends(wire)
  BY <1>2 DEF DelimitedPiece
<1> QED
  BY <1>1, <1>2

LEMMA DelimitedPiecesAre ==
  ASSUME delimiter \in Delimiters, includeDelimiter \in BOOLEAN,
         NEW wire \in Seq(Letters), NEW n \in 0 .. Len(wire)
  PROVE  /\ DelimitedPieces(wire, n) \in Seq(Seq(Seq(Letters)))
         /\ Len(DelimitedPieces(wire, n)) = n
         /\ FlattenSeq(DelimitedPieces(wire, n)) \in Seq(Seq(Letters))
<1> DEFINE F(i) == DelimitedPiece(wire, i)
           B == Seq(Seq(Letters))
<1>1. \A i \in 1 .. n : F(i) \in B
  <2> TAKE i \in 1 .. n
  <2>1. i \in 1 .. Len(wire)
    OBVIOUS
  <2> QED
    BY <2>1, DelimitedPieceIs
<1>2. n \in Nat
  OBVIOUS
<1> HIDE DEF F, B
<1>3. [i \in 1 .. n |-> F(i)] \in Seq(B) /\ Len([i \in 1 .. n |-> F(i)]) = n
  BY <1>1, <1>2
<1>4. DelimitedPieces(wire, n) \in Seq(B) /\ Len(DelimitedPieces(wire, n)) = n
  BY <1>3 DEF DelimitedPieces, F
<1> QED
  BY <1>4, FlattenType DEF B

LEMMA OneMorePlace ==
  ASSUME delimiter \in Delimiters, includeDelimiter \in BOOLEAN,
         NEW wire \in Seq(Letters), NEW n \in 1 .. Len(wire)
  PROVE  FlattenSeq(DelimitedPieces(wire, n)) =
           FlattenSeq(DelimitedPieces(wire, n - 1)) \o DelimitedPiece(wire, n)
<1> DEFINE P == DelimitedPieces(wire, n - 1)
           Q == DelimitedPieces(wire, n)
           x == DelimitedPiece(wire, n)
           R == Append(P, x)
           B == Seq(Seq(Letters))
<1>1. P \in Seq(B) /\ Len(P) = n - 1 /\ Q \in Seq(B) /\ Len(Q) = n /\ x \in B
  <2>1. n - 1 \in 0 .. Len(wire) /\ n \in 0 .. Len(wire)
    OBVIOUS
  <2>2. Q \in Seq(B) /\ Len(Q) = n
    BY <2>1, DelimitedPiecesAre
  <2>3. P \in Seq(B) /\ Len(P) = n - 1
    BY <2>1, DelimitedPiecesAre, Zenon
  <2>4. x \in B
    BY DelimitedPieceIs
  <2> QED
    BY <2>2, <2>3, <2>4
<1>2. \A i \in 1 .. n - 1 : Q[i] = P[i]
  <2>1. \A i \in 1 .. n - 1 : i \in 1 .. n
    OBVIOUS
  <2> QED
    BY <2>1 DEF DelimitedPieces
<1>3. Q[n] = x
  <2>1. n \in 1 .. n
    OBVIOUS
  <2> QED
    BY <2>1 DEF DelimitedPieces
<1>4. FlattenSeq(Append(P, x)) = FlattenSeq(P) \o x
  BY <1>1, FlattenAppend, Zenon
<1> HIDE DEF P, Q, x, B
<1>5. R \in Seq(B) /\ Len(R) = n /\ R[n] = x
      /\ \A i \in 1 .. n - 1 : R[i] = P[i]
  BY <1>1
<1>6. \A i \in 1 .. n : Q[i] = R[i]
  <2> TAKE i \in 1 .. n
  <2>1. i = n \/ i \in 1 .. n - 1
    OBVIOUS
  <2> QED
    BY <1>2, <1>3, <1>5, <2>1
<1> HIDE DEF R
<1>7. Q = R
  BY <1>1, <1>5, <1>6, SeqEqual
<1> QED
  BY <1>4, <1>7 DEF R, Q, P, x

(***************************************************************************)
(* A text that begins with another one has its frames.                     *)
(***************************************************************************)
BeginsWith(t, u) ==
  /\ delimiter \in Delimiters /\ includeDelimiter \in BOOLEAN
  /\ u \in Seq(Letters) /\ t \in Seq(Letters) /\ Len(u) <= Len(t)
  /\ \A i \in 1 .. Len(u) : u[i] = t[i]

LEMMA BegunSame ==
  ASSUME NEW t, NEW u, BeginsWith(t, u),
         NEW e \in Nat, NEW n \in 0 .. Len(u), NEW k
  PROVE  Begun(u, e, n, k) <=> Begun(t, e, n, k)
<1> DEFINE S == Delimited!Size
<1>1. S \in Nat /\ Len(u) \in Nat /\ \A i \in 1 .. Len(u) : u[i] = t[i]
  BY DelimiterSize DEF SizeIs, BeginsWith
<1>2. ASSUME k \in 0 .. S, k <= n - e, NEW i \in 1 .. k
      PROVE  u[(n - k) + i] = t[(n - k) + i]
  <2> DEFINE x == (n - k) + i
  <2>1. x \in 1 .. Len(u)
    BY <1>1, <1>2
  <2> HIDE DEF x
  <2>2. u[x] = t[x]
    BY <1>1, <2>1
  <2> QED
    BY <2>2 DEF x
<1> QED
  BY <1>2, Zenon DEF Begun, S

LEMMA LongestSame ==
  ASSUME NEW t, NEW u, BeginsWith(t, u),
         NEW e \in Nat, NEW n \in 0 .. Len(u), NEW k
  PROVE  Longest(u, e, n, k) <=> Longest(t, e, n, k)
BY BegunSame DEF Longest

LEMMA LastEndSame ==
  ASSUME NEW t, NEW u, BeginsWith(t, u), NEW n \in 0 .. Len(u)
  PROVE  /\ Delimited!LastEnd(u)[n] = Delimited!LastEnd(t)[n]
         /\ Delimited!LastEnd(u)[n] \in 0 .. n
BY LastEndPrefix, LastEndFacts DEF BeginsWith

LEMMA EndsSame ==
  ASSUME NEW t, NEW u, BeginsWith(t, u), NEW n \in 1 .. Len(u)
  PROVE  /\ n - 1 \in 0 .. Len(u) /\ n \in 1 .. Len(t)
         /\ n \in Delimited!Ends(u) <=> n \in Delimited!Ends(t)
<1>1. n - 1 \in 0 .. Len(u) /\ n \in 1 .. Len(t) /\ n \in 0 .. Len(u)
  BY DEF BeginsWith
<1> DEFINE e == Delimited!LastEnd(u)[n - 1]
<1>2. e \in Nat /\ e = Delimited!LastEnd(t)[n - 1]
  BY <1>1, LastEndSame
<1>3. n \in Delimited!Ends(u) <=> Begun(u, e, n, Delimited!Size)
  BY EndsAre DEF BeginsWith
<1>4. n \in Delimited!Ends(t) <=> Begun(t, Delimited!LastEnd(t)[n - 1], n, Delimited!Size)
  BY <1>1, EndsAre DEF BeginsWith
<1> HIDE DEF e
<1>5. Begun(u, e, n, Delimited!Size) <=> Begun(t, e, n, Delimited!Size)
  BY <1>1, <1>2, BegunSame
<1> QED
  BY <1>1, <1>2, <1>3, <1>4, <1>5

LEMMA SliceSame ==
  ASSUME NEW t, NEW u, BeginsWith(t, u),
         NEW a \in Nat, NEW k \in Nat, a + k <= Len(u)
  PROVE  SubSeq(u, a + 1, a + k) = SubSeq(t, a + 1, a + k)
<1> DEFINE v == SubSeq(u, a + 1, a + k)
           w == SubSeq(t, a + 1, a + k)
<1>1. u \in Seq(Letters) /\ t \in Seq(Letters) /\ a + k <= Len(t)
      /\ Len(u) \in Nat /\ \A i \in 1 .. Len(u) : u[i] = t[i]
  BY DEF BeginsWith
<1>2. v \in Seq(Letters) /\ Len(v) = k /\ \A i \in 1 .. k : v[i] = u[a + i]
  BY <1>1, SliceIs, SMTT(30)
<1>3. w \in Seq(Letters) /\ Len(w) = k /\ \A i \in 1 .. k : w[i] = t[a + i]
  BY <1>1, SliceIs, SMTT(30)
<1> HIDE DEF v, w
<1>4. \A i \in 1 .. k : a + i \in 1 .. Len(u)
  BY <1>1
<1>5. \A i \in 1 .. k : v[i] = w[i]
  BY <1>1, <1>2, <1>3, <1>4, Zenon
<1>6. v = w
  BY <1>2, <1>3, <1>5, SeqEqual
<1> QED
  BY <1>6 DEF v, w

LEMMA PieceSame ==
  ASSUME NEW t, NEW u, BeginsWith(t, u), NEW n \in 1 .. Len(u)
  PROVE  DelimitedPiece(u, n) = DelimitedPiece(t, n)
<1>1. n - 1 \in 0 .. Len(u) /\ n \in 1 .. Len(t) /\ n \in 0 .. Len(u)
      /\ (n \in Delimited!Ends(u) <=> n \in Delimited!Ends(t))
  <2>1. n \in 0 .. Len(u)
    OBVIOUS
  <2> QED
    BY <2>1, EndsSame
<1>2. ASSUME n \in Delimited!Ends(u)
      PROVE  Delimited!FrameAt(u, n) = Delimited!FrameAt(t, n)
  <2> DEFINE e == Delimited!LastEnd(u)[n - 1]
             k == (n - e) - Delimited!Excluded
  <2>1. e \in Nat /\ e = Delimited!LastEnd(t)[n - 1]
    BY <1>1, LastEndSame
  <2>2. Begun(u, e, n, Delimited!Size)
    BY <1>2, EndsAre DEF BeginsWith
  <2> HIDE DEF e
  <2>3. Begun(t, e, n, Delimited!Size)
    BY <1>1, <2>1, <2>2, BegunSame
  <2>4. k \in Nat /\ e + k <= n
        /\ Delimited!FrameAt(u, n) = SubSeq(u, e + 1, e + k)
    BY <2>1, <2>2, FrameAtIs, Zenon DEF BeginsWith, e
  <2>5. Delimited!FrameAt(t, n) = SubSeq(t, e + 1, e + k)
    BY <1>1, <2>1, <2>3, FrameAtIs, Zenon DEF BeginsWith
  <2> HIDE DEF k
  <2>6. e + k <= Len(u)
    BY <1>1, <2>1, <2>4
  <2>7. SubSeq(u, e + 1, e + k) = SubSeq(t, e + 1, e + k)
    BY <2>1, <2>4, <2>6, SliceSame, ZenonT(60)
  <2> QED
    BY <2>4, <2>5, <2>7, Zenon
<1> QED
  BY <1>1, <1>2 DEF DelimitedPiece

LEMMA PiecesSame ==
  ASSUME NEW t, NEW u, BeginsWith(t, u)
  PROVE  DelimitedPieces(u, Len(u)) = DelimitedPieces(t, Len(u))
BY PieceSame DEF DelimitedPieces

LEMMA QuietFrames ==
  ASSUME NEW t, NEW u, BeginsWith(t, u),
         NEW e, e = Delimited!LastEnd(u)[Len(u)],
         NEW b \in Len(u) .. Len(t), Quiet(t, e, Len(u), b)
  PROVE  /\ e \in 0 .. Len(u) /\ Delimited!LastEnd(t)[b] = e
         /\ \A n \in Len(u) + 1 .. b : n \notin Delimited!Ends(t)
         /\ FlattenSeq(DelimitedPieces(t, b)) = Delimited!FramesOf(u)
<1> DEFINE L == Len(u)
           D(n) == FlattenSeq(DelimitedPieces(t, n))
           P == {n \in Nat : n \in L .. b => D(n) = Delimited!FramesOf(u)}
<1>1. L \in Nat /\ Len(t) \in Nat /\ b \in Nat /\ b <= Len(t) /\ L <= b /\ L \in 0 .. L
  BY DEF BeginsWith
<1>2. e \in 0 .. L /\ e = Delimited!LastEnd(t)[L]
  BY <1>1, LastEndSame
<1>3. \A n \in L .. b : Delimited!LastEnd(t)[n] = e
  BY <1>1, <1>2, QuietLast DEF BeginsWith
<1>4. ASSUME NEW n \in L + 1 .. b PROVE n \notin Delimited!Ends(t) /\ n \in 1 .. Len(t)
  <2>1. n \in 1 .. Len(t) /\ n \in L .. b /\ e # n
    BY <1>1, <1>2
  <2>2. Delimited!LastEnd(t)[n] = e
    BY <1>3, <2>1
  <2> QED
    BY <2>1, <2>2 DEF Delimited!Ends
<1>5. 0 \in P
  <2> SUFFICES ASSUME 0 \in L .. b PROVE D(0) = Delimited!FramesOf(u)
    OBVIOUS
  <2>1. L = 0
    BY <1>1
  <2>2. Delimited!FramesOf(u) = FlattenSeq(DelimitedPieces(u, L))
    BY DelimitedFramesAre DEF BeginsWith
  <2> QED
    BY <2>1, <2>2, PiecesSame
<1>6. ASSUME NEW n \in Nat, n \in P PROVE n + 1 \in P
  <2> SUFFICES ASSUME n + 1 \in L .. b PROVE D(n + 1) = Delimited!FramesOf(u)
    OBVIOUS
  <2>1. CASE n + 1 = L
    <3>1. Delimited!FramesOf(u) = FlattenSeq(DelimitedPieces(u, L))
      BY DelimitedFramesAre DEF BeginsWith
    <3>2. Delimited!FramesOf(u) = FlattenSeq(DelimitedPieces(t, L))
      BY <3>1, PiecesSame
    <3> HIDE DEF L
    <3> QED
      BY <2>1, <3>2
  <2>2. CASE n + 1 # L
    <3>1. n \in L .. b /\ n + 1 \in L + 1 .. b /\ (n + 1) - 1 = n
      BY <1>1, <2>2
    <3>2. DelimitedPiece(t, n + 1) = <<>> /\ n + 1 \in 1 .. Len(t)
      BY <1>4, <3>1 DEF DelimitedPiece
    <3>3. D(n + 1) = D(n) \o DelimitedPiece(t, n + 1)
      BY <3>1, <3>2, OneMorePlace DEF BeginsWith
    <3>4. n \in 0 .. Len(t)
      BY <1>1, <3>1
    <3>5. D(n) \in Seq(Seq(Letters))
      BY <3>4, DelimitedPiecesAre DEF BeginsWith
    <3>6. D(n) = Delimited!FramesOf(u)
      BY <1>6, <3>1
    <3> HIDE DEF D
    <3>7. D(n) \o <<>> = D(n)
      BY <3>5
    <3> QED
      BY <3>2, <3>3, <3>6, <3>7, Zenon
  <2> QED
    BY <2>1, <2>2
<1> HIDE DEF P
<1>7. b \in P
  BY <1>1, <1>5, <1>6, SetInduction, Zenon
<1>8. b \in L .. b
  BY <1>1
<1> QED
  BY <1>2, <1>3, <1>4, <1>7, <1>8 DEF P

PayloadTooLong(wire) ==
  \E n \in Delimited!Ends(wire) :
    n - Delimited!Size - Delimited!LastEnd(wire)[n - 1] > maxFrameLength

LEMMA TooLongQuiet ==
  ASSUME NEW t, NEW u, BeginsWith(t, u),
         NEW b \in Len(u) .. Len(t),
         \A n \in Len(u) + 1 .. b : n \notin Delimited!Ends(t)
  PROVE  PayloadTooLong(u) <=>
           \E n \in 1 .. b :
             /\ n \in Delimited!Ends(t)
             /\ n - Delimited!Size - Delimited!LastEnd(t)[n - 1] > maxFrameLength
<1> DEFINE Q(w, n) ==
      n - Delimited!Size - Delimited!LastEnd(w)[n - 1] > maxFrameLength
<1>1. Len(u) \in Nat /\ Len(t) \in Nat /\ b \in Nat /\ Len(u) <= b
  BY DEF BeginsWith
<1>2. PayloadTooLong(u) <=> \E n \in 1 .. Len(u) : n \in Delimited!Ends(u) /\ Q(u, n)
  <2>1. Delimited!Ends(u) \subseteq 1 .. Len(u)
    <3>1. DOMAIN u = 1 .. Len(u)
      BY DEF BeginsWith
    <3> QED
      BY <3>1 DEF Delimited!Ends
  <2> QED
    BY <2>1 DEF PayloadTooLong
<1>3. ASSUME NEW n \in 1 .. Len(u)
      PROVE  (n \in Delimited!Ends(u) <=> n \in Delimited!Ends(t)) /\ (Q(u, n) <=> Q(t, n))
  <2>1. n - 1 \in 0 .. Len(u) /\ (n \in Delimited!Ends(u) <=> n \in Delimited!Ends(t))
    BY EndsSame
  <2>2. Delimited!LastEnd(u)[n - 1] = Delimited!LastEnd(t)[n - 1]
    BY <2>1, LastEndSame
  <2> QED
    BY <2>1, <2>2
<1>4. \A n \in 1 .. b : n \in 1 .. Len(u) \/ n \in Len(u) + 1 .. b
  BY <1>1
<1>5. \A n \in 1 .. Len(u) : n \in 1 .. b
  BY <1>1
<1> HIDE DEF Q
<1>6. PayloadTooLong(u) <=> \E n \in 1 .. b : n \in Delimited!Ends(t) /\ Q(t, n)
  BY <1>2, <1>3, <1>4, <1>5
<1> QED
  BY <1>6 DEF Q

(* The text goes on without the end of a delimiter.                        *)
LEMMA TextQuiet ==
  ASSUME NEW t, NEW u, BeginsWith(t, u),
         NEW e, e = Delimited!LastEnd(u)[Len(u)],
         Quiet(t, e, Len(u), Len(t))
  PROVE  /\ Delimited!FramesOf(t) = Delimited!FramesOf(u)
         /\ Delimited!LastEnd(t)[Len(t)] = e
         /\ PayloadTooLong(t) <=> PayloadTooLong(u)
<1>1. Len(t) \in Len(u) .. Len(t) /\ t \in Seq(Letters) /\ DOMAIN t = 1 .. Len(t)
  BY DEF BeginsWith
<1>2. /\ Delimited!LastEnd(t)[Len(t)] = e
      /\ \A n \in Len(u) + 1 .. Len(t) : n \notin Delimited!Ends(t)
      /\ FlattenSeq(DelimitedPieces(t, Len(t))) = Delimited!FramesOf(u)
  BY <1>1, QuietFrames
<1>3. Delimited!Ends(t) \subseteq 1 .. Len(t)
  BY <1>1 DEF Delimited!Ends
<1>4. PayloadTooLong(u) <=> PayloadTooLong(t)
  BY <1>1, <1>2, <1>3, TooLongQuiet, Zenon DEF PayloadTooLong
<1> QED
  BY <1>1, <1>2, <1>4, DelimitedFramesAre

(* The text goes on up to the end of the next delimiter.                   *)
LEMMA TextEnds ==
  ASSUME NEW t, NEW u, BeginsWith(t, u), Len(u) < Len(t),
         NEW e, e = Delimited!LastEnd(u)[Len(u)],
         Quiet(t, e, Len(u), Len(t) - 1),
         Begun(t, e, Len(t), Delimited!Size)
  PROVE  LET k == (Len(t) - e) - Delimited!Excluded
         IN  /\ k \in Nat /\ e + k <= Len(t) /\ e \in Nat
             /\ Delimited!FramesOf(t) =
                  Delimited!FramesOf(u) \o Delimited!OneOrNone(SubSeq(t, e + 1, e + k))
             /\ Delimited!LastEnd(t)[Len(t)] = Len(t)
             /\ PayloadTooLong(t) <=>
                  PayloadTooLong(u) \/ Len(t) - Delimited!Size - e > maxFrameLength
<1> DEFINE b == Len(t) - 1
           N == Len(t)
           k == (N - e) - Delimited!Excluded
           Q(n) == /\ n \in Delimited!Ends(t)
                   /\ n - Delimited!Size - Delimited!LastEnd(t)[n - 1] > maxFrameLength
<1>1. /\ b \in Len(u) .. N /\ t \in Seq(Letters) /\ DOMAIN t = 1 .. N
      /\ N \in 1 .. N /\ N \in Nat /\ b + 1 = N /\ b \in Nat
  BY DEF BeginsWith
<1>2. /\ Delimited!LastEnd(t)[b] = e /\ e \in 0 .. Len(u)
      /\ \A n \in Len(u) + 1 .. b : n \notin Delimited!Ends(t)
      /\ FlattenSeq(DelimitedPieces(t, b)) = Delimited!FramesOf(u)
  BY <1>1, QuietFrames
<1>3. Delimited!Ends(t) \subseteq 1 .. N
  BY <1>1 DEF Delimited!Ends
<1>4. PayloadTooLong(u) <=> \E n \in 1 .. b : Q(n)
  BY <1>1, <1>2, TooLongQuiet, Zenon
<1>5. PayloadTooLong(t) <=> \E n \in 1 .. N : Q(n)
  BY <1>3 DEF PayloadTooLong
<1>6. N \in Delimited!Ends(t) /\ Delimited!LastEnd(t)[N] = N
  <2>1. N \in Delimited!Ends(t)
    BY <1>1, <1>2, EndsAre DEF BeginsWith
  <2> QED
    BY <2>1 DEF Delimited!Ends
<1>7. Q(N) <=> N - Delimited!Size - e > maxFrameLength
  BY <1>2, <1>6
<1>8. e \in Nat /\ k \in Nat /\ e + k <= N
      /\ Delimited!FrameAt(t, N) = SubSeq(t, e + 1, e + k)
  <2>1. e \in Nat
    BY <1>1, <1>2 DEF BeginsWith
  <2> QED
    BY <1>1, <1>2, <2>1, FrameAtIs, Zenon DEF BeginsWith
<1>9. DelimitedPiece(t, N) = Delimited!OneOrNone(SubSeq(t, e + 1, e + k))
  BY <1>6, <1>8 DEF DelimitedPiece
<1>10. FlattenSeq(DelimitedPieces(t, N)) =
         FlattenSeq(DelimitedPieces(t, b)) \o DelimitedPiece(t, N)
  BY <1>1, OneMorePlace, Zenon DEF BeginsWith
<1>11. Delimited!FramesOf(t) =
         Delimited!FramesOf(u) \o Delimited!OneOrNone(SubSeq(t, e + 1, e + k))
  BY <1>1, <1>2, <1>9, <1>10, DelimitedFramesAre, Zenon
<1> HIDE DEF Q, b
<1>12. \A n \in 1 .. N : n = N \/ n \in 1 .. b
  <2>1. b \in Nat /\ N \in Nat /\ b + 1 = N
    BY <1>1, Zenon
  <2> HIDE DEF N
  <2> QED
    BY <2>1
<1>13. \A n \in 1 .. b : n \in 1 .. N
  BY <1>1
<1>14. PayloadTooLong(t) <=> PayloadTooLong(u) \/ Q(N)
  BY <1>1, <1>4, <1>5, <1>12, <1>13, Zenon
<1> QED
  BY <1>6, <1>7, <1>8, <1>11, <1>14, Zenon

(* The rest, which is not complete.                                        *)
LEMMA LastEndWithin ==
  ASSUME delimiter \in Delimiters, NEW wire \in Seq(Letters)
  PROVE  /\ Delimited!LastEnd(wire)[Len(wire)] \in 0 .. Len(wire)
         /\ Delimited!LastEnd(wire)[Len(wire)] \in Nat
<1>1. Len(wire) \in 0 .. Len(wire)
  OBVIOUS
<1> QED
  BY <1>1, LastEndFacts

LEMMA DelimitedRestIs ==
  ASSUME delimiter \in Delimiters, NEW wire \in Seq(Letters),
         NEW e \in Nat, e = Delimited!LastEnd(wire)[Len(wire)]
  PROVE  /\ e \in 0 .. Len(wire) /\ Len(wire) - e \in Nat
         /\ Delimited!RestOf(wire) \in Seq(Letters)
         /\ Len(Delimited!RestOf(wire)) = Len(wire) - e
         /\ Delimited!RestOf(wire) = SubSeq(wire, e + 1, e + (Len(wire) - e))
         /\ \A i \in 1 .. Len(wire) - e : Delimited!RestOf(wire)[i] = wire[e + i]
<1> DEFINE k == Len(wire) - e
<1>1. e \in 0 .. Len(wire)
  BY LastEndWithin
<1>2. k \in Nat /\ e + k = Len(wire) /\ e \in Nat
  BY <1>1
<1>3. Delimited!RestOf(wire) = SubSeq(wire, e + 1, Len(wire))
  BY DEF Delimited!RestOf
<1> HIDE DEF k
<1>4. Delimited!RestOf(wire) = SubSeq(wire, e + 1, e + k)
  BY <1>2, <1>3, Zenon
<1>5. /\ SubSeq(wire, e + 1, e + k) \in Seq(Letters)
      /\ Len(SubSeq(wire, e + 1, e + k)) = k
      /\ \A i \in 1 .. k : SubSeq(wire, e + 1, e + k)[i] = wire[e + i]
  <2>1. e + k <= Len(wire) /\ e \in Nat /\ k \in Nat
    BY <1>2
  <2> QED
    BY <2>1, SliceIs, SMTT(30)
<1> QED
  BY <1>1, <1>2, <1>4, <1>5, Zenon DEF k

LEMMA RestNone ==
  ASSUME delimiter \in Delimiters, NEW wire \in Seq(Letters),
         Delimited!LastEnd(wire)[Len(wire)] = Len(wire)
  PROVE  Delimited!RestOf(wire) = <<>>
<1>1. Len(Delimited!RestOf(wire)) = Len(wire) - Len(wire)
      /\ Delimited!RestOf(wire) \in Seq(Letters)
  BY LastEndWithin, DelimitedRestIs
<1> QED
  BY <1>1

(* A text that goes on, and its tail.                                       *)
IsTail(r, u, e) ==
  Len(u) = e + Len(r) /\ \A i \in 1 .. Len(r) : r[i] = u[e + i]

SameTail(r, u, w, e, k) ==
  SubSeq(r \o w, 1, k) = SubSeq(u \o w, e + 1, e + k)

LEMMA TailThen ==
  ASSUME NEW S, NEW u \in Seq(S), NEW r \in Seq(S), NEW w \in Seq(S), NEW e \in Nat,
         IsTail(r, u, e), NEW k \in Nat, k <= Len(r) + Len(w)
  PROVE  SameTail(r, u, w, e, k)
<1> DEFINE t == u \o w
           x == r \o w
           a == SubSeq(x, 0 + 1, 0 + k)
           b == SubSeq(t, e + 1, e + k)
           n == Len(r)
           m == Len(u)
<1>1. n \in Nat /\ m \in Nat /\ Len(w) \in Nat /\ k <= n + Len(w)
  OBVIOUS
<1>10. m = e + n
  BY DEF IsTail
<1>11. \A i \in 1 .. n : r[i] = u[e + i]
  BY DEF IsTail
<1>2. /\ t \in Seq(S) /\ Len(t) = m + Len(w)
      /\ \A i \in 1 .. m : t[i] = u[i]
      /\ \A j \in 1 .. Len(w) : t[m + j] = w[j]
  BY ConcatIs
<1>3. /\ x \in Seq(S) /\ Len(x) = n + Len(w)
      /\ \A i \in 1 .. n : x[i] = r[i]
      /\ \A j \in 1 .. Len(w) : x[n + j] = w[j]
  BY ConcatIs
<1> HIDE DEF t, x, n, m
<1>4. 0 + k <= Len(x) /\ e + k <= Len(t) /\ 0 \in Nat
  <2>1. Len(t) = m + Len(w) /\ Len(x) = n + Len(w)
    BY <1>2, <1>3
  <2> QED
    BY <1>1, <1>10, <2>1
<1>5. a \in Seq(S) /\ Len(a) = k /\ \A i \in 1 .. k : a[i] = x[0 + i]
  BY <1>3, <1>4, SliceIs
<1>6. b \in Seq(S) /\ Len(b) = k /\ \A i \in 1 .. k : b[i] = t[e + i]
  BY <1>2, <1>4, SliceIs
<1> HIDE DEF a, b
<1>7. ASSUME NEW i \in 1 .. k PROVE a[i] = b[i]
  <2>1. a[i] = x[i] /\ b[i] = t[e + i]
    BY <1>5, <1>6
  <2>2. CASE i <= n
    <3>1. i \in 1 .. n /\ e + i \in 1 .. m
      BY <1>1, <1>10, <2>2
    <3> QED
      BY <1>2, <1>3, <1>11, <2>1, <3>1
  <2>3. CASE ~(i <= n)
    <3> DEFINE j == i - n
    <3>1. j \in 1 .. Len(w) /\ n + j = i
      BY <1>1, <2>3
    <3>2. m + j = e + i
      BY <1>1, <1>10
    <3> HIDE DEF j
    <3> QED
      BY <1>2, <1>3, <2>1, <3>1, <3>2, Zenon
  <2> QED
    BY <2>2, <2>3
<1>8. a = b
  BY <1>5, <1>6, <1>7, SeqEqual
<1>9. 0 + 1 = 1 /\ 0 + k = k
  OBVIOUS
<1> QED
  BY <1>8, <1>9, Zenon DEF a, b, x, t, SameTail

(* A part of a text that goes on, from the end of the last frame.          *)
LEMMA RestThen ==
  ASSUME delimiter \in Delimiters, NEW u \in Seq(Letters), NEW w \in Seq(Letters),
         NEW e \in Nat, e = Delimited!LastEnd(u)[Len(u)],
         NEW k \in Nat, e + k <= Len(u) + Len(w)
  PROVE  SubSeq(Delimited!RestOf(u) \o w, 1, k) = SubSeq(u \o w, e + 1, e + k)
<1> DEFINE r == Delimited!RestOf(u)
<1>1. /\ e \in 0 .. Len(u) /\ r \in Seq(Letters) /\ Len(r) = Len(u) - e
      /\ \A i \in 1 .. Len(u) - e : r[i] = u[e + i]
  BY DelimitedRestIs, Zenon
<1> HIDE DEF r
<1>2. Len(u) \in Nat /\ Len(w) \in Nat /\ Len(r) = Len(u) - e
  BY <1>1
<1>6. Len(u) = e + Len(r) /\ k <= Len(r) + Len(w)
  BY <1>2, SMTT(30)
<1>3. IsTail(r, u, e)
  BY <1>1, <1>6, Zenon DEF IsTail
<1>4. r \in Seq(Letters)
  BY <1>1
<1>7. k <= Len(r) + Len(w)
  BY <1>6
<1>5. SameTail(r, u, w, e, k)
  BY <1>3, <1>4, <1>7, TailThen
<1> QED
  BY <1>5, Zenon DEF r, SameTail

LEMMA RestGrows ==
  ASSUME delimiter \in Delimiters, NEW u \in Seq(Letters), NEW w \in Seq(Letters),
         Delimited!LastEnd(u \o w)[Len(u \o w)] = Delimited!LastEnd(u)[Len(u)]
  PROVE  Delimited!RestOf(u \o w) = Delimited!RestOf(u) \o w
<1> DEFINE r == Delimited!RestOf(u)
           e == Delimited!LastEnd(u)[Len(u)]
           t == u \o w
           x == r \o w
           k == Len(t) - e
<1>1. e \in 0 .. Len(u) /\ r \in Seq(Letters) /\ Len(r) = Len(u) - e /\ e \in Nat
  BY LastEndWithin, DelimitedRestIs
<1>2. t \in Seq(Letters) /\ Len(t) = Len(u) + Len(w)
  BY ConcatIs
<1>3. k \in Nat /\ Delimited!RestOf(t) = SubSeq(t, e + 1, e + k)
  BY <1>1, <1>2, DelimitedRestIs, Zenon
<1>4. k \in Nat /\ e + k <= Len(u) + Len(w) /\ k = Len(r) + Len(w)
  BY <1>1, <1>2
<1>5. SubSeq(x, 1, k) = SubSeq(t, e + 1, e + k)
  BY <1>1, <1>4, RestThen, Zenon
<1> HIDE DEF r, k
<1>6. SubSeq(x, 1, k) = x
  <2>1. x \in Seq(Letters) /\ Len(x) = k
    BY <1>1, <1>4, ConcatIs, Zenon
  <2> HIDE DEF x
  <2> QED
    BY <2>1
<1> QED
  BY <1>3, <1>5, <1>6, Zenon DEF r

(* What may become a delimiter at the end of the rest is what is matched.  *)
LEMMA GreatestIs ==
  ASSUME NEW S \in SUBSET Int, NEW m \in S, \A y \in S : y <= m
  PROVE  Delimited!Max(S) = m
<1>1. \A x \in S : (\A y \in S : x >= y) => x = m
  OBVIOUS
<1>2. \A y \in S : m >= y
  OBVIOUS
<1> QED
  BY <1>1, <1>2, Zenon DEF Delimited!Max

LEMMA PartialIs ==
  ASSUME delimiter \in Delimiters, NEW wire \in Seq(Letters),
         NEW m \in 0 .. Delimited!Size - 1,
         Longest(wire, Delimited!LastEnd(wire)[Len(wire)], Len(wire), m)
  PROVE  Delimited!Partial(Delimited!RestOf(wire)) = m
<1> DEFINE r == Delimited!RestOf(wire)
           e == Delimited!LastEnd(wire)[Len(wire)]
           N == Len(wire)
           S == Delimited!Size
           K == {n \in 0 .. S - 1 :
                  /\ n <= Len(r)
                  /\ SubSeq(r, Len(r) - n + 1, Len(r)) = SubSeq(delimiter, 1, n)}
<1>1. /\ e \in 0 .. N /\ N - e \in Nat /\ r \in Seq(Letters) /\ Len(r) = N - e
      /\ \A i \in 1 .. N - e : r[i] = wire[e + i]
  BY LastEndWithin, DelimitedRestIs, Zenon
<1>2. S \in Nat \ {0} /\ N \in Nat /\ delimiter \in Seq(Letters) /\ Len(delimiter) = S
  BY DelimiterSize DEF SizeIs
<1>3. Delimited!Partial(r) = Delimited!Max(K)
  BY DEF Delimited!Partial
<1>4. Longest(wire, e, N, m)
  OBVIOUS
<1> HIDE DEF r, e, N, S
<1>5. ASSUME NEW n \in 0 .. S - 1 PROVE n \in K <=> Begun(wire, e, N, n)
  <2>1. CASE n <= N - e
    <3> DEFINE k == (N - e) - n
               a == SubSeq(r, k + 1, k + n)
               d == SubSeq(delimiter, 0 + 1, 0 + n)
    <3>1. k \in Nat /\ k + n = Len(r) /\ n \in Nat /\ 0 + n <= S /\ n \in 0 .. S
          /\ e + k = N - n /\ k + n = N - e /\ e \in Nat
      BY <1>1, <1>2, <2>1
    <3> HIDE DEF k
    <3>2. a \in Seq(Letters) /\ Len(a) = n /\ \A i \in 1 .. n : a[i] = r[k + i]
      <4>1. k + n <= Len(r)
        BY <1>1, <3>1
      <4> QED
        BY <1>1, <3>1, <4>1, SliceIs
    <3>3. d \in Seq(Letters) /\ Len(d) = n /\ \A i \in 1 .. n : d[i] = delimiter[0 + i]
      <4>1. 0 + n <= Len(delimiter) /\ 0 \in Nat
        BY <1>2, <3>1
      <4> QED
        BY <1>2, <3>1, <4>1, SliceIs
    <3>4. n \in K <=> a = d
      <4>1. Len(r) - n + 1 = k + 1 /\ Len(r) = k + n /\ 0 + 1 = 1 /\ 0 + n = n
            /\ n <= Len(r)
        BY <1>1, <2>1, <3>1
      <4>2. n \in K <=>
              SubSeq(r, Len(r) - n + 1, Len(r)) = SubSeq(delimiter, 1, n)
        BY <4>1, Zenon
      <4> HIDE DEF K
      <4> QED
        BY <4>1, <4>2, Zenon
    <3> HIDE DEF a, d
    <3>5. a = d <=> \A i \in 1 .. n : a[i] = d[i]
      BY <3>2, <3>3, SeqEqual
    <3>6. ASSUME NEW i \in 1 .. n
          PROVE  a[i] = wire[(N - n) + i] /\ d[i] = delimiter[i]
      <4>1. k + i \in 1 .. N - e /\ e + (k + i) = (N - n) + i /\ 0 + i = i
        BY <1>1, <1>2, <3>1
      <4>2. a[i] = r[k + i] /\ d[i] = delimiter[i]
        BY <3>2, <3>3, <4>1
      <4> QED
        BY <1>1, <4>1, <4>2
    <3>7. a = d <=> \A i \in 1 .. n : wire[(N - n) + i] = delimiter[i]
      BY <3>5, <3>6
    <3> QED
      BY <2>1, <3>1, <3>4, <3>7, Zenon DEF Begun, S
  <2>2. CASE ~(n <= N - e)
    BY <1>1, <2>2 DEF Begun
  <2> QED
    BY <2>1, <2>2
<1>6. m \in 0 .. S - 1 /\ 0 \in 0 .. S - 1
  BY <1>2 DEF S
<1>7. m \in K /\ K \in SUBSET Int
  BY <1>4, <1>5, <1>6 DEF Longest
<1>8. \A n \in K : n <= m
  <2> TAKE n \in K
  <2>1. n \in 0 .. S - 1 /\ n \in 0 .. S
    BY <1>2
  <2>2. Begun(wire, e, N, n)
    BY <1>5, <2>1
  <2> QED
    BY <1>4, <2>1, <2>2 DEF Longest, S
<1> HIDE DEF K
<1>9. Delimited!Max(K) = m
  BY <1>7, <1>8, GreatestIs
<1> QED
  BY <1>3, <1>9 DEF r

LEMMA SameDelimiter ==
  ASSUME UNCHANGED <<delimiter, includeDelimiter, maxFrameLength>>
  PROVE  /\ Delimited!Size' = Delimited!Size
         /\ \A w : Delimited!FramesOf(w)' = Delimited!FramesOf(w)
         /\ \A w : Delimited!RestOf(w)' = Delimited!RestOf(w)
         /\ \A w : Delimited!Partial(w)' = Delimited!Partial(w)
         /\ \A w : Delimited!LastEnd(w)' = Delimited!LastEnd(w)
         /\ \A w : PayloadTooLong(w)' <=> PayloadTooLong(w)
         /\ \A w, e, n, m : Longest(w, e, n, m)' <=> Longest(w, e, n, m)
<1>1. Delimited!Size' = Delimited!Size /\ Delimited!Excluded' = Delimited!Excluded
  BY DEF Delimited!Size, Delimited!Excluded
<1>2. \A w : Delimited!LastEnd(w)' = Delimited!LastEnd(w)
  BY DEF Delimited!LastEnd, Delimited!Size
<1>3. \A w : Delimited!Ends(w)' = Delimited!Ends(w)
  BY DEF Delimited!Ends, Delimited!LastEnd, Delimited!Size
<1>4. \A w : Delimited!FramesOf(w)' = Delimited!FramesOf(w)
  BY DEF Delimited!FramesOf, Delimited!Ends, Delimited!FrameAt, Delimited!Excluded,
         Delimited!LastEnd, Delimited!Size
<1>5. \A w : Delimited!RestOf(w)' = Delimited!RestOf(w)
  BY DEF Delimited!RestOf, Delimited!LastEnd, Delimited!Size
<1>6. \A w : Delimited!Partial(w)' = Delimited!Partial(w)
  BY DEF Delimited!Partial, Delimited!Size
<1>7. \A w : PayloadTooLong(w)' <=> PayloadTooLong(w)
  BY DEF PayloadTooLong, Delimited!Ends, Delimited!LastEnd, Delimited!Size
<1>8. \A w, e, n, m : Longest(w, e, n, m)' <=> Longest(w, e, n, m)
  BY DEF Longest, Begun, Delimited!Size
<1> QED
  BY <1>1, <1>2, <1>4, <1>5, <1>6, <1>7, <1>8

(***************************************************************************)
(* What holds of the delimiter parser: while it is open, it has emitted    *)
(* the frames of the input so far, keeps the rest, and knows how much of   *)
(* the delimiter ends it.                                                  *)
(***************************************************************************)
DelimitedTypes ==
  /\ delimiter \in Delimiters /\ includeDelimiter \in BOOLEAN
  /\ maxFrameLength \in DelimiterLimits
  /\ bytes \in Seq(Letters) /\ output \in Seq(Seq(Letters))
  /\ chunk \in Seq(Letters) /\ input \in Seq(Letters) /\ busy \in BOOLEAN
  /\ offset \in 0 .. Len(chunk) /\ matched \in 0 .. Delimited!Size - 1
  /\ status \in {"open", "ended", "failed", "flushFailed"}

Tracks(wire, m) == Longest(wire, Delimited!LastEnd(wire)[Len(wire)], Len(wire), m)

Searching ==
  /\ output = Delimited!FramesOf(input) /\ bytes = Delimited!RestOf(input)
  /\ Tracks(input, matched) /\ ~PayloadTooLong(input)
  /\ ~busy => chunk = <<>> /\ offset = 0 /\ Len(bytes) - matched <= maxFrameLength

RestTooLong(rest) == Len(rest) - Delimited!Partial(rest) > maxFrameLength

DelimitedEnded ==
  /\ ~busy
  /\ output = Delimited!FramesOf(input) \o Delimited!OneOrNone(Delimited!RestOf(input))
  /\ ~PayloadTooLong(input) /\ Len(Delimited!RestOf(input)) <= maxFrameLength

DelimitedFailed ==
  /\ ~busy /\ IsPrefix(output, Delimited!FramesOf(input))
  /\ PayloadTooLong(input) \/ RestTooLong(Delimited!RestOf(input))

FlushFailed ==
  /\ ~busy /\ IsPrefix(output, Delimited!FramesOf(input))
  /\ Len(Delimited!RestOf(input)) > maxFrameLength

DelimitedInv ==
  /\ DelimitedTypes
  /\ status = "open" => Searching
  /\ status = "ended" => DelimitedEnded
  /\ status = "failed" => DelimitedFailed
  /\ status = "flushFailed" => FlushFailed

LEMMA DelimitedValues ==
  ASSUME UNCHANGED <<delimiter, includeDelimiter, maxFrameLength>>, NEW w, input' = w
  PROVE  /\ Delimited!Size' = Delimited!Size
         /\ Delimited!FramesOf(input)' = Delimited!FramesOf(w)
         /\ Delimited!RestOf(input)' = Delimited!RestOf(w)
         /\ PayloadTooLong(input)' <=> PayloadTooLong(w)
         /\ RestTooLong(Delimited!RestOf(input))' <=> RestTooLong(Delimited!RestOf(w))
         /\ Tracks(input, matched)' <=> Tracks(w, matched')
<1>1. \A x : RestTooLong(x)' <=> RestTooLong(x)
  BY SameDelimiter DEF RestTooLong
<1>2. \A x, m : Tracks(x, m)' <=> Tracks(x, m)
  BY SameDelimiter DEF Tracks
<1> QED
  BY <1>1, <1>2, SameDelimiter

LEMMA PrefixItself ==
  ASSUME NEW S, NEW s \in Seq(S)
  PROVE  IsPrefix(s, s)
<1>1. <<>> \in Seq(S) /\ s \o <<>> = s
  OBVIOUS
<1>2. IsPrefix(s, s \o <<>>)
  BY <1>1, PrefixConcat, Zenon
<1> QED
  BY <1>1, <1>2

LEMMA DelimitedFramesType ==
  ASSUME delimiter \in Delimiters, includeDelimiter \in BOOLEAN, NEW wire \in Seq(Letters)
  PROVE  Delimited!FramesOf(wire) \in Seq(Seq(Letters))
<1>1. Len(wire) \in 0 .. Len(wire)
  OBVIOUS
<1> QED
  BY <1>1, DelimitedFramesAre, DelimitedPiecesAre

(* The input and what is left of the chunk are a text that is searched.    *)
Left == SubSeq(chunk, offset + 1, Len(chunk))

LEMMA SearchText ==
  ASSUME DelimitedTypes, Searching
  PROVE  /\ Left \in Seq(Letters) /\ Len(Left) = Len(chunk) - offset
         /\ input \o Left \in Seq(Letters)
         /\ Len(input \o Left) = Len(input) + (Len(chunk) - offset)
         /\ BeginsWith(input \o Left, input)
         /\ Searches(input \o Left, Len(input),
                     Delimited!LastEnd(input)[Len(input)])
<1> DEFINE k == Len(chunk) - offset
           t == input \o Left
           e == Delimited!LastEnd(input)[Len(input)]
           at == Len(input)
<1>1. /\ delimiter \in Delimiters /\ includeDelimiter \in BOOLEAN
      /\ chunk \in Seq(Letters) /\ input \in Seq(Letters)
      /\ offset \in 0 .. Len(chunk) /\ matched \in 0 .. Delimited!Size - 1
  BY DEF DelimitedTypes
<1>2. offset \in Nat /\ k \in Nat /\ offset + k = Len(chunk) /\ at \in Nat
  BY <1>1
<1> HIDE DEF k
<1>3. /\ SubSeq(chunk, offset + 1, offset + k) \in Seq(Letters)
      /\ Len(SubSeq(chunk, offset + 1, offset + k)) = k
      /\ \A i \in 1 .. k : SubSeq(chunk, offset + 1, offset + k)[i] = chunk[offset + i]
  <2>1. ASSUME NEW q \in Nat, q + k <= Len(chunk)
        PROVE  /\ SubSeq(chunk, q + 1, q + k) \in Seq(Letters)
               /\ Len(SubSeq(chunk, q + 1, q + k)) = k
               /\ \A i \in 1 .. k : SubSeq(chunk, q + 1, q + k)[i] = chunk[q + i]
    <3>1. chunk \in Seq(Letters) /\ k \in Nat
      BY <1>1, <1>2
    <3> QED
      BY <2>1, <3>1, SliceIs
  <2>2. offset + k <= Len(chunk)
    BY <1>1, <1>2
  <2> QED
    BY <1>2, <2>1, <2>2
<1>4. Left = SubSeq(chunk, offset + 1, offset + k)
  BY <1>2 DEF Left
<1>5. Left \in Seq(Letters) /\ Len(Left) = k /\ \A i \in 1 .. k : Left[i] = chunk[offset + i]
  BY <1>3, <1>4
<1> HIDE DEF Left
<1>6. /\ t \in Seq(Letters) /\ Len(t) = at + k
      /\ \A i \in 1 .. at : t[i] = input[i]
      /\ \A j \in 1 .. k : t[at + j] = Left[j]
  <2>1. /\ t \in Seq(Letters) /\ Len(t) = at + Len(Left)
        /\ \A i \in 1 .. at : t[i] = input[i]
        /\ \A j \in 1 .. Len(Left) : t[at + j] = Left[j]
    <3>1. input \in Seq(Letters) /\ Left \in Seq(Letters)
      BY <1>1, <1>5
    <3> QED
      BY <3>1, ConcatIs
  <2> HIDE DEF t, at
  <2> QED
    BY <1>5, <2>1
<1> HIDE DEF t
<1>7. BeginsWith(t, input)
  <2>1. Len(input) <= Len(t)
    <3>1. Len(t) = at + k
      BY <1>6
    <3> QED
      BY <1>2, <3>1
  <2> QED
    BY <1>1, <1>6, <2>1 DEF BeginsWith
<1>8. e \in 0 .. at /\ e \in Nat
  BY <1>1, LastEndWithin
<1>9. Longest(t, e, at, matched)
  <2>1. at \in 0 .. Len(input) /\ Longest(input, e, at, matched)
    BY <1>2 DEF Searching, Tracks
  <2> HIDE DEF at, e
  <2> QED
    BY <1>7, <1>8, <2>1, LongestSame
<1>10. Continues(t, at, offset)
  BY <1>5, <1>6 DEF Continues, k
<1> HIDE DEF at, e
<1>11. Searches(t, at, e)
  BY <1>1, <1>2, <1>6, <1>8, <1>9, <1>10 DEF Searches, k
<1> QED
  BY <1>5, <1>6, <1>7, <1>11 DEF k, t, at, e

(* The search is quiet to the end of the chunk.                            *)
LEMMA DelimitedRetainGoes ==
  ASSUME DelimitedInv, status = "open", Delimited!Retain
  PROVE  DelimitedInv'
<1> DEFINE found == Delimited!Find
           at == Len(input)
           t == input \o Left
           e == Delimited!LastEnd(input)[at]
           m == found.matched
           size == Len(bytes) + Len(chunk) - offset
<1>1. /\ DelimitedTypes /\ Searching
  BY DEF DelimitedInv
<1>2. /\ busy /\ found.end = -1 /\ matched' = m
      /\ \/ size - m > maxFrameLength /\ Delimited!Overflow("failed", Len(chunk))
         \/ /\ size - m <= maxFrameLength
            /\ bytes' = bytes \o Left /\ input' = t
            /\ busy' = FALSE /\ chunk' = <<>> /\ offset' = 0
            /\ UNCHANGED <<delimiter, includeDelimiter, maxFrameLength, output, status>>
  BY Zenon DEF Delimited!Retain, Delimited!PendingBytes, Delimited!settings, Left
<1>3. /\ Left \in Seq(Letters) /\ t \in Seq(Letters)
      /\ Len(t) = at + (Len(chunk) - offset)
      /\ BeginsWith(t, input) /\ Searches(t, at, e)
  BY <1>1, SearchText
<1>4. found.end \notin offset + 1 .. Len(chunk)
  BY <1>1, <1>2 DEF DelimitedTypes
<1>5. /\ Quiet(t, e, at, Len(t)) /\ m \in 0 .. Delimited!Size - 1
      /\ Longest(t, e, Len(t), m)
  BY <1>3, <1>4, FindFinds, Zenon
<1>6. input' = t
      /\ UNCHANGED <<delimiter, includeDelimiter, maxFrameLength, output>>
  BY <1>2, Zenon DEF Delimited!Overflow, Delimited!settings, Left
<1> HIDE DEF found, m, t
<1>7. /\ Delimited!FramesOf(t) = Delimited!FramesOf(input)
      /\ Delimited!LastEnd(t)[Len(t)] = e
      /\ PayloadTooLong(t) <=> PayloadTooLong(input)
  BY <1>3, <1>5, TextQuiet
<1>8. /\ delimiter \in Delimiters /\ input \in Seq(Letters)
      /\ bytes = Delimited!RestOf(input) /\ output = Delimited!FramesOf(input)
      /\ ~PayloadTooLong(input) /\ bytes \in Seq(Letters)
      /\ output \in Seq(Seq(Letters))
  BY <1>1 DEF DelimitedTypes, Searching
<1>9. Delimited!RestOf(t) = bytes \o Left
  BY <1>3, <1>7, <1>8, RestGrows, Zenon DEF t
<1>10. Tracks(t, m)
  BY <1>5, <1>7 DEF Tracks
<1>11. Delimited!Partial(Delimited!RestOf(t)) = m
  BY <1>3, <1>5, <1>8, <1>10, PartialIs DEF Tracks
<1>12. Len(Delimited!RestOf(t)) = size
  <2>1. Len(Left) = Len(chunk) - offset
    BY <1>1, SearchText
  <2>2. Len(bytes \o Left) = Len(bytes) + Len(Left)
    BY <1>3, <1>8, ConcatIs
  <2>3. Len(bytes) \in Nat /\ Len(chunk) \in Nat /\ offset \in Nat
    BY <1>1 DEF DelimitedTypes
  <2> QED
    BY <1>9, <2>1, <2>2, <2>3
<1> HIDE DEF size
<1>13. /\ Delimited!Size' = Delimited!Size
       /\ Delimited!FramesOf(input)' = Delimited!FramesOf(t)
       /\ Delimited!RestOf(input)' = Delimited!RestOf(t)
       /\ PayloadTooLong(input)' <=> PayloadTooLong(t)
       /\ RestTooLong(Delimited!RestOf(input))' <=> RestTooLong(Delimited!RestOf(t))
       /\ Tracks(input, matched)' <=> Tracks(t, matched')
  BY <1>6, DelimitedValues
<1>14. busy' = FALSE /\ chunk' = <<>> /\ offset' = 0
  BY <1>2 DEF Delimited!Overflow
<1>15. (delimiter \in Delimiters)' /\ (includeDelimiter \in BOOLEAN)'
       /\ (maxFrameLength \in DelimiterLimits)' /\ (output \in Seq(Seq(Letters)))'
       /\ (chunk \in Seq(Letters))' /\ (input \in Seq(Letters))' /\ (busy \in BOOLEAN)'
       /\ (offset \in 0 .. Len(chunk))' /\ (matched \in 0 .. Delimited!Size - 1)'
  <2>1. <<>> \in Seq(Letters) /\ 0 \in 0 .. Len(<<>>)
    OBVIOUS
  <2>2. matched' \in 0 .. Delimited!Size - 1
    BY <1>2, <1>5
  <2>3. (matched \in 0 .. Delimited!Size - 1)'
    BY <1>13, <2>2
  <2> QED
    BY <1>1, <1>3, <1>6, <1>14, <2>1, <2>3, Zenon DEF DelimitedTypes
<1>16. CASE size - m > maxFrameLength
  <2>1. Delimited!Overflow("failed", Len(chunk))
    <3>1. size \in Int /\ m \in Int /\ maxFrameLength \in Int
      <4>1. Delimited!RestOf(t) \in Seq(Letters) /\ maxFrameLength \in Nat
        BY <1>1, <1>3, <1>8, <1>9, ConcatIs, ParserAssumption DEF DelimitedTypes
      <4>2. m \in Int
        BY <1>5, DelimiterSize, <1>8 DEF SizeIs
      <4>3. Len(Delimited!RestOf(t)) \in Int
        BY <4>1
      <4> QED
        BY <1>12, <4>1, <4>2, <4>3
    <3>2. ~(size - m <= maxFrameLength)
      BY <1>16, <3>1
    <3> QED
      BY <1>2, <3>2
  <2>2. status' = "failed" /\ bytes' = <<>>
    BY <2>1 DEF Delimited!Overflow
  <2>3. RestTooLong(Delimited!RestOf(t))
    BY <1>11, <1>12, <1>16 DEF RestTooLong
  <2>4. IsPrefix(output', Delimited!FramesOf(input)')
    BY <1>6, <1>7, <1>8, <1>13, PrefixItself
  <2>5. DelimitedFailed'
    BY <1>13, <1>14, <2>3, <2>4 DEF DelimitedFailed, IsPrefix
  <2>6. DelimitedTypes'
    BY <1>15, <2>2 DEF DelimitedTypes
  <2> QED
    BY <2>2, <2>5, <2>6 DEF DelimitedInv
<1>17. CASE ~(size - m > maxFrameLength)
  <2>1. bytes' = bytes \o Left /\ status' = status /\ size - m <= maxFrameLength
    BY <1>2, <1>17
  <2>2. Searching'
    <3>1. Len(bytes') - matched' <= maxFrameLength'
      BY <1>2, <1>6, <1>9, <1>12, <2>1
    <3>2. Tracks(input, matched)'
      BY <1>2, <1>10, <1>13
    <3>3. (output = Delimited!FramesOf(input))' /\ (bytes = Delimited!RestOf(input))'
          /\ ~PayloadTooLong(input)'
      BY <1>6, <1>7, <1>8, <1>9, <1>13, <2>1
    <3> QED
      BY <1>14, <3>1, <3>2, <3>3 DEF Searching
  <2>3. bytes' \in Seq(Letters)
    BY <1>3, <1>8, <2>1, ConcatIs
  <2>4. DelimitedTypes'
    BY <1>15, <2>1, <2>3 DEF DelimitedTypes
  <2> QED
    BY <2>1, <2>2, <2>4 DEF DelimitedInv
<1> QED
  BY <1>16, <1>17

(* The text up to a place of the chunk.                                    *)
LEMMA SearchPart ==
  ASSUME DelimitedTypes, Searching, NEW c \in offset .. Len(chunk)
  PROVE  LET v == SubSeq(chunk, offset + 1, c)
         IN  /\ v \in Seq(Letters) /\ Len(v) = c - offset
             /\ input \o v \in Seq(Letters)
             /\ Len(input \o v) = PlaceOf(Len(input), c)
             /\ BeginsWith(input \o v, input)
             /\ BeginsWith(input \o Left, input \o v)
<1> DEFINE k == c - offset
           v == SubSeq(chunk, offset + 1, c)
           u == input \o v
           t == input \o Left
           at == Len(input)
<1>1. /\ delimiter \in Delimiters /\ includeDelimiter \in BOOLEAN
      /\ chunk \in Seq(Letters) /\ input \in Seq(Letters)
      /\ offset \in 0 .. Len(chunk)
  BY DEF DelimitedTypes
<1>2. /\ offset \in Nat /\ k \in Nat /\ c \in Nat /\ offset + k = c /\ c <= Len(chunk)
      /\ at \in Nat /\ k <= Len(chunk) - offset /\ PlaceOf(at, c) = at + k
  BY <1>1 DEF PlaceOf
<1> HIDE DEF k
<1>3. /\ Left \in Seq(Letters) /\ Len(Left) = Len(chunk) - offset
      /\ t \in Seq(Letters) /\ BeginsWith(t, input)
      /\ Len(t) = at + (Len(chunk) - offset)
      /\ Continues(t, at, offset)
  BY SearchText DEF Searches
<1>4. /\ v \in Seq(Letters) /\ Len(v) = k
      /\ \A i \in 1 .. k : v[i] = chunk[offset + i]
  <2>1. ASSUME NEW q \in Nat, q + k <= Len(chunk)
        PROVE  /\ SubSeq(chunk, q + 1, q + k) \in Seq(Letters)
               /\ Len(SubSeq(chunk, q + 1, q + k)) = k
               /\ \A i \in 1 .. k : SubSeq(chunk, q + 1, q + k)[i] = chunk[q + i]
    <3>1. chunk \in Seq(Letters) /\ k \in Nat
      BY <1>1, <1>2
    <3> QED
      BY <2>1, <3>1, SliceIs
  <2>2. offset + k <= Len(chunk)
    BY <1>2
  <2>3. v = SubSeq(chunk, offset + 1, offset + k)
    BY <1>2
  <2> HIDE DEF v
  <2> QED
    BY <1>2, <2>1, <2>2, <2>3, Zenon
<1> HIDE DEF v
<1>5. /\ u \in Seq(Letters) /\ Len(u) = at + k
      /\ \A i \in 1 .. at : u[i] = input[i]
      /\ \A j \in 1 .. k : u[at + j] = v[j]
  <2>1. input \in Seq(Letters) /\ v \in Seq(Letters)
    BY <1>1, <1>4
  <2>2. /\ u \in Seq(Letters) /\ Len(u) = at + Len(v)
        /\ \A i \in 1 .. at : u[i] = input[i]
        /\ \A j \in 1 .. Len(v) : u[at + j] = v[j]
    BY <2>1, ConcatIs
  <2> HIDE DEF u, at
  <2> QED
    BY <1>4, <2>2
<1> HIDE DEF u, t, at
<1>6. BeginsWith(u, input)
  <2>1. Len(input) <= Len(u)
    <3>1. Len(u) = at + k /\ at \in Nat /\ k \in Nat
      BY <1>2, <1>5
    <3> QED
      BY <3>1 DEF at
  <2> QED
    BY <1>1, <1>5, <2>1 DEF BeginsWith, at
<1>7. BeginsWith(t, u)
  <2>1. Len(u) <= Len(t)
    <3>1. Len(u) = at + k /\ Len(t) = at + (Len(chunk) - offset)
      BY <1>3, <1>5
    <3>2. Len(chunk) \in Nat
      BY <1>1
    <3> QED
      BY <1>2, <3>1, <3>2
  <2>2. ASSUME NEW i \in 1 .. Len(u) PROVE u[i] = t[i]
    <3>1. CASE i <= at
      <4>1. i \in 1 .. at
        BY <1>2, <3>1
      <4>2. t[i] = input[i]
        BY <1>3, <4>1 DEF BeginsWith, at
      <4> QED
        BY <1>5, <4>1, <4>2
    <3>2. CASE ~(i <= at)
      <4> DEFINE j == i - at
      <4>0. Len(u) = at + k
        BY <1>5
      <4>1. j \in 1 .. k /\ at + j = i
        BY <1>2, <3>2, <4>0
      <4>2. j \in 1 .. Len(chunk) - offset
        <5>1. Len(chunk) \in Nat
          BY <1>1
        <5> QED
          BY <1>2, <4>1, <5>1
      <4> HIDE DEF j
      <4>3. t[at + j] = chunk[offset + j]
        BY <1>3, <4>2 DEF Continues
      <4>4. u[at + j] = chunk[offset + j]
        BY <1>4, <1>5, <4>1
      <4> QED
        BY <4>1, <4>3, <4>4
    <3> QED
      BY <3>1, <3>2
  <2> QED
    BY <1>1, <1>3, <1>5, <2>1, <2>2 DEF BeginsWith
<1> QED
  BY <1>2, <1>4, <1>5, <1>6, <1>7 DEF v, u, t, at, k

(* The search finds the end of the next delimiter.                         *)
LEMMA FrameFinds ==
  ASSUME DelimitedTypes, Searching, NEW c, Delimited!Find.end = c, c # -1
  PROVE  LET u == input \o SubSeq(chunk, offset + 1, c)
             e == Delimited!LastEnd(input)[Len(input)]
         IN  /\ c \in offset + 1 .. Len(chunk) /\ Delimited!Find.matched = 0
             /\ Len(u) > Len(input)
             /\ Quiet(u, e, Len(input), Len(u) - 1)
             /\ Begun(u, e, Len(u), Delimited!Size)
<1> DEFINE u == input \o SubSeq(chunk, offset + 1, c)
           e == Delimited!LastEnd(input)[Len(input)]
           at == Len(input)
           t == input \o Left
           n == PlaceOf(at, c)
           S == Delimited!Size
<1>1. Searches(t, at, e)
  BY SearchText
<1>2. /\ c \in offset + 1 .. Len(chunk) /\ Delimited!Find.matched = 0
      /\ Quiet(t, e, at, n - 1) /\ Begun(t, e, n, S)
  BY <1>1, FindFinds
<1>3. /\ offset \in Nat /\ c \in Nat /\ c \in offset .. Len(chunk) /\ at \in Nat
      /\ n \in Nat /\ n > at
  BY <1>2 DEF DelimitedTypes, PlaceOf
<1>4. Len(u) = n /\ BeginsWith(t, u)
  BY <1>3, SearchPart
<1>5. e \in Nat
  BY LastEndWithin DEF DelimitedTypes
<1> HIDE DEF u, t, e, n, at
<1>6. \A q \in 0 .. Len(u) : Begun(u, e, q, S) <=> Begun(t, e, q, S)
  BY <1>4, <1>5, BegunSame
<1>7. \A q \in at + 1 .. n - 1 : q \in 0 .. n
  BY <1>3
<1>8. n \in 0 .. n
  BY <1>3
<1>9. Quiet(u, e, at, n - 1)
  BY <1>2, <1>4, <1>6, <1>7 DEF Quiet, S
<1>10. Begun(u, e, n, S)
  BY <1>2, <1>4, <1>6, <1>8
<1> QED
  BY <1>2, <1>3, <1>4, <1>9, <1>10 DEF u, e, at, S

LEMMA DelimitedFrameGoes ==
  ASSUME DelimitedInv, status = "open", Delimited!Frame
  PROVE  DelimitedInv'
<1> DEFINE found == Delimited!Find
           c == found.end
           v == SubSeq(chunk, offset + 1, c)
           u == input \o v
           e == Delimited!LastEnd(input)[Len(input)]
           size == Len(bytes) + c - offset
           S == Delimited!Size
           k == (Len(u) - e) - Delimited!Excluded
           frame == SubSeq(u, e + 1, e + k)
           fs == Delimited!FramesOf(input)
<1>1. /\ DelimitedTypes /\ Searching
  BY DEF DelimitedInv
<1>2. /\ busy /\ c # -1 /\ matched' = found.matched
      /\ \/ size - S > maxFrameLength /\ Delimited!Overflow("failed", c)
         \/ /\ size - S <= maxFrameLength
            /\ output' = Delimited!Pushed(SubSeq(bytes \o v, 1, size - Delimited!Excluded))
            /\ bytes' = <<>> /\ offset' = c /\ input' = u
            /\ UNCHANGED <<delimiter, includeDelimiter, maxFrameLength, status, chunk, busy>>
  BY Zenon DEF Delimited!Frame, Delimited!settings
<1>3. input' = u /\ UNCHANGED <<delimiter, includeDelimiter, maxFrameLength>>
  BY <1>2, Zenon DEF Delimited!Overflow, Delimited!settings
<1>4. /\ c \in offset + 1 .. Len(chunk) /\ found.matched = 0
      /\ Len(u) > Len(input)
      /\ Quiet(u, e, Len(input), Len(u) - 1) /\ Begun(u, e, Len(u), S)
  BY <1>1, <1>2, FrameFinds, Zenon
<1> HIDE DEF found, c
<1>5. /\ delimiter \in Delimiters /\ includeDelimiter \in BOOLEAN
      /\ maxFrameLength \in Nat
      /\ chunk \in Seq(Letters) /\ input \in Seq(Letters)
      /\ offset \in Nat /\ Len(chunk) \in Nat /\ Len(input) \in Nat
      /\ bytes = Delimited!RestOf(input) /\ output = fs
      /\ ~PayloadTooLong(input) /\ bytes \in Seq(Letters)
      /\ output \in Seq(Seq(Letters)) /\ c \in Nat
  BY <1>1, <1>4, ParserAssumption DEF DelimitedTypes, Searching
<1>6. /\ v \in Seq(Letters) /\ Len(v) = c - offset
      /\ u \in Seq(Letters) /\ Len(u) = Len(input) + (c - offset)
      /\ BeginsWith(u, input)
  <2>1. c \in offset .. Len(chunk)
    BY <1>4, <1>5
  <2> QED
    BY <1>1, <2>1, SearchPart DEF PlaceOf
<1>7. e \in Nat /\ e <= Len(input) /\ Len(bytes) = Len(input) - e
  BY <1>5, LastEndWithin, DelimitedRestIs
<1>8. size = Len(u) - e /\ size \in Nat
  <2>1. size = Len(bytes) + c - offset
    OBVIOUS
  <2>2. c >= offset
    BY <1>4, <1>5
  <2>3. Len(u) = Len(input) + (c - offset)
    BY <1>6
  <2> HIDE DEF size, u, e
  <2> QED
    BY <1>5, <1>7, <2>1, <2>2, <2>3
<1> HIDE DEF size
<1>9. /\ k \in Nat /\ e + k <= Len(u)
      /\ Delimited!FramesOf(u) = fs \o Delimited!OneOrNone(frame)
      /\ Delimited!LastEnd(u)[Len(u)] = Len(u)
      /\ PayloadTooLong(u) <=>
           PayloadTooLong(input) \/ Len(u) - S - e > maxFrameLength
  <2>1. /\ Len(input) < Len(u) /\ BeginsWith(u, input)
        /\ e = Delimited!LastEnd(input)[Len(input)]
        /\ Quiet(u, e, Len(input), Len(u) - 1)
        /\ Begun(u, e, Len(u), Delimited!Size)
    BY <1>4, <1>5, <1>6
  <2> HIDE DEF u, e
  <2> QED
    BY <2>1, TextEnds, Zenon
<1> HIDE DEF u, v, e, k, fs
<1>10. /\ Delimited!Size' = Delimited!Size
       /\ Delimited!FramesOf(input)' = Delimited!FramesOf(u)
       /\ Delimited!RestOf(input)' = Delimited!RestOf(u)
       /\ PayloadTooLong(input)' <=> PayloadTooLong(u)
       /\ RestTooLong(Delimited!RestOf(input))' <=> RestTooLong(Delimited!RestOf(u))
       /\ Tracks(input, matched)' <=> Tracks(u, matched')
  BY <1>3, DelimitedValues
<1>11. frame \in Seq(Letters)
  BY <1>6, <1>7, <1>9, SliceIs, Zenon
<1>12. Delimited!OneOrNone(frame) \in Seq(Seq(Letters))
  BY <1>11 DEF Delimited!OneOrNone
<1>13. S \in Nat \ {0}
  BY <1>5, DelimiterSize DEF SizeIs
<1>14. (delimiter \in Delimiters)' /\ (includeDelimiter \in BOOLEAN)'
       /\ (maxFrameLength \in DelimiterLimits)'
       /\ (input \in Seq(Letters))' /\ (matched \in 0 .. Delimited!Size - 1)'
  <2>1. matched' = 0
    BY <1>2, <1>4
  <2>2. 0 \in 0 .. Delimited!Size - 1
    BY <1>13
  <2>3. (matched \in 0 .. Delimited!Size - 1)'
    BY <1>10, <2>1, <2>2
  <2> QED
    BY <1>1, <1>3, <1>6, <2>3 DEF DelimitedTypes
<1>15. CASE size - S > maxFrameLength
  <2>1. ~(size - S <= maxFrameLength)
    BY <1>5, <1>8, <1>13, <1>15
  <2>2. Delimited!Overflow("failed", c)
    BY <1>2, <2>1, Zenon
  <2>3. status' = "failed" /\ bytes' = <<>> /\ output' = output
        /\ busy' = FALSE /\ chunk' = <<>> /\ offset' = 0
    BY <2>2 DEF Delimited!Overflow
  <2>4. PayloadTooLong(u)
    <3>1. Len(u) - S - e = size - S
      BY <1>5, <1>6, <1>7, <1>8, <1>13
    <3> QED
      BY <1>9, <1>15, <3>1
  <2>5. IsPrefix(output, Delimited!FramesOf(u))
    BY <1>5, <1>9, <1>12, PrefixConcat
  <2>6. DelimitedFailed'
    BY <1>10, <2>3, <2>4, <2>5 DEF DelimitedFailed, IsPrefix
  <2>7. (chunk \in Seq(Letters))' /\ (busy \in BOOLEAN)' /\ (offset \in 0 .. Len(chunk))'
        /\ (bytes \in Seq(Letters))' /\ (output \in Seq(Seq(Letters)))'
    <3>1. <<>> \in Seq(Letters) /\ 0 \in 0 .. Len(<<>>)
      OBVIOUS
    <3> QED
      BY <1>5, <2>3, <3>1, Zenon
  <2>8. DelimitedTypes'
    BY <1>14, <2>3, <2>7 DEF DelimitedTypes
  <2> QED
    BY <2>3, <2>6, <2>8 DEF DelimitedInv
<1>16. CASE ~(size - S > maxFrameLength)
  <2>1. /\ size - S <= maxFrameLength
        /\ output' = Delimited!Pushed(SubSeq(bytes \o v, 1, size - Delimited!Excluded))
        /\ bytes' = <<>> /\ offset' = c
        /\ UNCHANGED <<delimiter, includeDelimiter, maxFrameLength, status, chunk, busy>>
    BY <1>2, <1>16, Zenon
  <2>2. SubSeq(bytes \o v, 1, size - Delimited!Excluded) = frame
    <3>1. size - Delimited!Excluded = k
      BY <1>8 DEF k
    <3>2. e + k <= Len(input) + Len(v)
      <4>1. Len(u) = Len(input) + (c - offset) /\ Len(v) = c - offset
        BY <1>6
      <4> QED
        BY <1>9, <4>1
    <3>3. SubSeq(Delimited!RestOf(input) \o v, 1, k) = SubSeq(input \o v, e + 1, e + k)
      <4>1. ASSUME NEW q \in Nat, q = Delimited!LastEnd(input)[Len(input)],
                   q + k <= Len(input) + Len(v)
            PROVE  SameTail(Delimited!RestOf(input), input, v, q, k)
        <5>1. v \in Seq(Letters) /\ k \in Nat /\ delimiter \in Delimiters
              /\ input \in Seq(Letters)
          BY <1>5, <1>6, <1>9
        <5> QED
          BY <4>1, <5>1, RestThen, Zenon DEF SameTail
      <4>2. SameTail(Delimited!RestOf(input), input, v, e, k)
        BY <1>7, <3>2, <4>1 DEF e
      <4> QED
        BY <4>2, Zenon DEF SameTail
    <3> QED
      BY <1>5, <3>1, <3>3, Zenon DEF u
  <2> HIDE DEF frame
  <2>3. output' = Delimited!FramesOf(u)
    <3>1. output' = IF frame = <<>> THEN output ELSE Append(output, frame)
      BY <2>1, <2>2, Zenon DEF Delimited!Pushed
    <3>2. CASE frame = <<>>
      <4>1. fs \o <<>> = fs
        BY <1>5
      <4> QED
        BY <1>5, <1>9, <3>1, <3>2, <4>1 DEF Delimited!OneOrNone
    <3>3. CASE frame # <<>>
      <4>1. Append(output, frame) = output \o <<frame>>
        BY <1>5, <1>11, AppendIsConcat
      <4> QED
        BY <1>5, <1>9, <3>1, <3>3, <4>1, Zenon DEF Delimited!OneOrNone
    <3> QED
      BY <3>2, <3>3
  <2>4. Delimited!RestOf(u) = <<>>
    BY <1>5, <1>6, <1>9, RestNone, Zenon
  <2>5. ~PayloadTooLong(u)
    <3>1. Len(u) - S - e = size - S
      BY <1>5, <1>6, <1>7, <1>8, <1>13
    <3> QED
      BY <1>5, <1>9, <1>16, <3>1
  <2>6. Tracks(u, 0)
    <3> DEFINE n == Len(u)
    <3>1. n \in Nat /\ SizeIs
      BY <1>5, <1>6, DelimiterSize
    <3> HIDE DEF n
    <3>2. Begun(u, n, n, 0)
      <4>1. n \in Int /\ n <= n
        BY <3>1
      <4> QED
        BY <3>1, <4>1, BegunNothing
    <3>3. \A x \in 0 .. Delimited!Size : Begun(u, n, n, x) => x <= 0
      BY <3>1 DEF Begun
    <3>4. Longest(u, n, n, 0)
      BY <3>2, <3>3 DEF Longest
    <3> QED
      BY <1>9, <3>4 DEF Tracks, n
  <2>7. Searching'
    <3>1. (output = Delimited!FramesOf(input))' /\ (bytes = Delimited!RestOf(input))'
          /\ ~PayloadTooLong(input)'
      BY <1>10, <2>1, <2>3, <2>4, <2>5
    <3>2. Tracks(input, matched)'
      BY <1>2, <1>4, <1>10, <2>6
    <3>3. busy'
      BY <1>2, <2>1
    <3> QED
      BY <3>1, <3>2, <3>3 DEF Searching
  <2>8. output' \in Seq(Seq(Letters))
    BY <1>5, <1>6, <2>3, DelimitedFramesType
  <2>9. (chunk \in Seq(Letters))' /\ (busy \in BOOLEAN)' /\ (offset \in 0 .. Len(chunk))'
        /\ (bytes \in Seq(Letters))' /\ (output \in Seq(Seq(Letters)))'
    <3>1. <<>> \in Seq(Letters) /\ c \in 0 .. Len(chunk) /\ busy \in BOOLEAN
      BY <1>1, <1>4, <1>5 DEF DelimitedTypes
    <3> QED
      BY <1>5, <2>1, <2>8, <3>1
  <2>10. DelimitedTypes'
    BY <1>14, <2>1, <2>9 DEF DelimitedTypes
  <2> QED
    BY <2>1, <2>7, <2>10 DEF DelimitedInv
<1> QED
  BY <1>15, <1>16

(* A new chunk, and the end of the stream.                                 *)
LEMMA DelimitedTransformGoes ==
  ASSUME DelimitedInv, NEW c \in Seq(Letters), Delimited!Transform(c)
  PROVE  DelimitedInv'
<1>1. /\ status = "open" /\ ~busy /\ busy' = TRUE /\ chunk' = c /\ offset' = 0
      /\ UNCHANGED <<delimiter, includeDelimiter, maxFrameLength, matched, bytes,
                     output, status, input>>
  BY DEF Delimited!Transform, Delimited!settings
<1>2. DelimitedTypes /\ Searching
  BY <1>1 DEF DelimitedInv
<1> DEFINE w == input
<1>3. input' = w
  BY <1>1
<1> HIDE DEF w
<1>4. /\ Delimited!Size' = Delimited!Size
      /\ Delimited!FramesOf(input)' = Delimited!FramesOf(w)
      /\ Delimited!RestOf(input)' = Delimited!RestOf(w)
      /\ PayloadTooLong(input)' <=> PayloadTooLong(w)
      /\ Tracks(input, matched)' <=> Tracks(w, matched')
  BY <1>1, <1>3, DelimitedValues
<1>5. Searching'
  <2>1. /\ output = Delimited!FramesOf(w) /\ bytes = Delimited!RestOf(w)
        /\ Tracks(w, matched) /\ ~PayloadTooLong(w)
    BY <1>2 DEF Searching, w
  <2>2. /\ (output = Delimited!FramesOf(input))' /\ (bytes = Delimited!RestOf(input))'
        /\ Tracks(input, matched)' /\ ~PayloadTooLong(input)'
    BY <1>1, <1>4, <2>1
  <2> QED
    BY <1>1, <2>2 DEF Searching
<1>6. DelimitedTypes'
  <2>1. 0 \in 0 .. Len(c)
    OBVIOUS
  <2>2. matched' \in 0 .. Delimited!Size - 1
    BY <1>1, <1>2 DEF DelimitedTypes
  <2>3. (matched \in 0 .. Delimited!Size - 1)'
    BY <1>4, <2>2
  <2>4. (offset \in 0 .. Len(chunk))'
    BY <1>1, <2>1
  <2> QED
    BY <1>1, <1>2, <2>3, <2>4 DEF DelimitedTypes
<1> QED
  BY <1>1, <1>5, <1>6 DEF DelimitedInv

LEMMA DelimitedFlushGoes ==
  ASSUME DelimitedInv, Delimited!Flush
  PROVE  DelimitedInv'
<1>1. /\ status = "open" /\ ~busy /\ matched' = matched
      /\ \/ Len(bytes) > maxFrameLength /\ Delimited!Overflow("flushFailed", 0)
         \/ /\ Len(bytes) <= maxFrameLength
            /\ output' = Delimited!Pushed(bytes) /\ bytes' = <<>> /\ status' = "ended"
            /\ UNCHANGED <<delimiter, includeDelimiter, maxFrameLength, chunk, offset,
                           busy, input>>
  BY DEF Delimited!Flush, Delimited!settings
<1>2. DelimitedTypes /\ Searching
  BY <1>1 DEF DelimitedInv
<1>3. /\ chunk = <<>> /\ offset = 0 /\ input \in Seq(Letters) /\ delimiter \in Delimiters
      /\ includeDelimiter \in BOOLEAN
      /\ output \in Seq(Seq(Letters)) /\ bytes \in Seq(Letters)
      /\ output = Delimited!FramesOf(input) /\ bytes = Delimited!RestOf(input)
      /\ ~PayloadTooLong(input)
  BY <1>1, <1>2 DEF Searching, DelimitedTypes
<1> DEFINE w == input
<1>4. input' = w /\ busy' = FALSE /\ chunk' = <<>> /\ offset' = 0 /\ bytes' = <<>>
      /\ UNCHANGED <<delimiter, includeDelimiter, maxFrameLength>>
  <2>1. SubSeq(<<>>, 1, 0) = <<>> /\ input \o <<>> = input
    BY <1>3
  <2>2. busy \in BOOLEAN
    BY <1>2 DEF DelimitedTypes
  <2>3. CASE Delimited!Overflow("flushFailed", 0)
    <3>1. /\ bytes' = <<>> /\ busy' = FALSE /\ chunk' = <<>> /\ offset' = 0
          /\ input' = input \o SubSeq(chunk, offset + 1, 0)
          /\ UNCHANGED <<delimiter, includeDelimiter, maxFrameLength>>
      BY <2>3 DEF Delimited!Overflow, Delimited!settings
    <3>2. SubSeq(chunk, offset + 1, 0) = <<>>
      BY <1>3, <2>1
    <3> QED
      BY <2>1, <3>1, <3>2, Zenon
  <2>4. CASE bytes' = <<>> /\ UNCHANGED <<delimiter, includeDelimiter, maxFrameLength,
                                         chunk, offset, busy, input>>
    BY <1>1, <1>3, <2>2, <2>4
  <2> QED
    BY <1>1, <2>3, <2>4, Zenon
<1>5. w \in Seq(Letters) /\ output = Delimited!FramesOf(w) /\ bytes = Delimited!RestOf(w)
      /\ ~PayloadTooLong(w)
  BY <1>3
<1> HIDE DEF w
<1>6. /\ Delimited!Size' = Delimited!Size
      /\ Delimited!FramesOf(input)' = Delimited!FramesOf(w)
      /\ Delimited!RestOf(input)' = Delimited!RestOf(w)
      /\ PayloadTooLong(input)' <=> PayloadTooLong(w)
  BY <1>4, DelimitedValues
<1>7. (delimiter \in Delimiters)' /\ (includeDelimiter \in BOOLEAN)'
      /\ (maxFrameLength \in DelimiterLimits)' /\ (bytes \in Seq(Letters))'
      /\ (chunk \in Seq(Letters))' /\ (input \in Seq(Letters))' /\ (busy \in BOOLEAN)'
      /\ (offset \in 0 .. Len(chunk))' /\ (matched \in 0 .. Delimited!Size - 1)'
  <2>1. <<>> \in Seq(Letters) /\ 0 \in 0 .. Len(<<>>)
    OBVIOUS
  <2>2. matched' \in 0 .. Delimited!Size - 1
    BY <1>1, <1>2 DEF DelimitedTypes
  <2>3. (matched \in 0 .. Delimited!Size - 1)'
    BY <1>6, <2>2
  <2> QED
    BY <1>2, <1>4, <1>5, <2>1, <2>3, Zenon DEF DelimitedTypes
<1>8. CASE Len(bytes) > maxFrameLength /\ Delimited!Overflow("flushFailed", 0)
  <2>1. status' = "flushFailed" /\ output' = output
    BY <1>8 DEF Delimited!Overflow
  <2>2. IsPrefix(output, Delimited!FramesOf(w))
    BY <1>3, <1>5, PrefixItself
  <2>3. FlushFailed'
    BY <1>4, <1>5, <1>6, <1>8, <2>1, <2>2 DEF FlushFailed, IsPrefix
  <2>4. DelimitedTypes'
    BY <1>3, <1>7, <2>1 DEF DelimitedTypes
  <2> QED
    BY <2>1, <2>3, <2>4 DEF DelimitedInv
<1>9. CASE Len(bytes) <= maxFrameLength /\ output' = Delimited!Pushed(bytes) /\ status' = "ended"
  <2>1. output' = output \o Delimited!OneOrNone(bytes)
    <3>1. output \o <<>> = output /\ Append(output, bytes) = output \o <<bytes>>
      BY <1>3, AppendIsConcat
    <3> QED
      BY <1>9, <3>1, Zenon DEF Delimited!Pushed, Delimited!OneOrNone
  <2>2. output' \in Seq(Seq(Letters))
    BY <1>3, <1>9 DEF Delimited!Pushed
  <2>3. \A x : Delimited!OneOrNone(x)' = Delimited!OneOrNone(x)
    BY DEF Delimited!OneOrNone
  <2>4. Delimited!OneOrNone(Delimited!RestOf(input))' = Delimited!OneOrNone(bytes)
    BY <1>5, <1>6 DEF Delimited!OneOrNone
  <2>5. (output = Delimited!FramesOf(input) \o
                    Delimited!OneOrNone(Delimited!RestOf(input)))'
    BY <1>5, <1>6, <2>1, <2>4
  <2>6. (Len(Delimited!RestOf(input)) <= maxFrameLength)'
    BY <1>4, <1>5, <1>6, <1>9
  <2>7. DelimitedEnded'
    BY <1>4, <1>5, <1>6, <2>5, <2>6 DEF DelimitedEnded
  <2>8. DelimitedTypes'
    BY <1>7, <1>9, <2>2 DEF DelimitedTypes
  <2> QED
    BY <1>9, <2>7, <2>8 DEF DelimitedInv
<1> QED
  BY <1>1, <1>8, <1>9

LEMMA DelimitedNext ==
  ASSUME DelimitedInv, Delimited!Next
  PROVE  DelimitedInv'
<1>1. CASE \E n \in 0 .. MaxChunk : \E c \in [1 .. n -> Letters] :
             Len(input) + n <= MaxText /\ Delimited!Transform(c)
  <2>1. PICK n \in 0 .. MaxChunk : \E c \in [1 .. n -> Letters] : Delimited!Transform(c)
    BY <1>1
  <2>2. n \in Nat
    OBVIOUS
  <2>3. \A c \in [1 .. n -> Letters] : c \in Seq(Letters)
    BY <2>2
  <2> QED
    BY <2>1, <2>3, DelimitedTransformGoes
<1>2. CASE Delimited!Frame
  <2>1. status = "open"
    <3>1. busy
      BY <1>2 DEF Delimited!Frame
    <3> QED
      BY <3>1 DEF DelimitedInv, DelimitedTypes, DelimitedEnded, DelimitedFailed, FlushFailed
  <2> QED
    BY <1>2, <2>1, DelimitedFrameGoes
<1>3. CASE Delimited!Retain
  <2>1. status = "open"
    <3>1. busy
      BY <1>3 DEF Delimited!Retain
    <3> QED
      BY <3>1 DEF DelimitedInv, DelimitedTypes, DelimitedEnded, DelimitedFailed, FlushFailed
  <2> QED
    BY <1>3, <2>1, DelimitedRetainGoes
<1>4. CASE Delimited!Flush
  BY <1>4, DelimitedFlushGoes
<1> QED
  BY <1>1, <1>2, <1>3, <1>4 DEF Delimited!Next

LEMMA DelimitedStops ==
  ASSUME DelimitedInv,
         UNCHANGED <<delimiter, includeDelimiter, maxFrameLength, matched, bytes,
                     output, status, chunk, offset, busy, input>>
  PROVE  DelimitedInv'
<1> DEFINE w == input
<1>1. input' = w
  OBVIOUS
<1>2. Delimited!Size' = Delimited!Size
  BY SameDelimiter
<1>3. DelimitedTypes' <=> DelimitedTypes
  BY <1>2 DEF DelimitedTypes
<1>4. input' = input
  OBVIOUS
<1>5. /\ Delimited!FramesOf(input)' = Delimited!FramesOf(input)
      /\ Delimited!RestOf(input)' = Delimited!RestOf(input)
      /\ PayloadTooLong(input)' <=> PayloadTooLong(input)
      /\ RestTooLong(Delimited!RestOf(input))' <=> RestTooLong(Delimited!RestOf(input))
      /\ Tracks(input, matched)' <=> Tracks(input, matched')
  BY <1>4, DelimitedValues
<1>6. Searching' <=> Searching
  BY <1>5 DEF Searching
<1>7. DelimitedEnded' <=> DelimitedEnded
  BY <1>5 DEF DelimitedEnded, Delimited!OneOrNone
<1>8. DelimitedFailed' <=> DelimitedFailed
  BY <1>5 DEF DelimitedFailed, IsPrefix
<1>9. FlushFailed' <=> FlushFailed
  BY <1>5 DEF FlushFailed, IsPrefix
<1> QED
  BY <1>3, <1>6, <1>7, <1>8, <1>9 DEF DelimitedInv

LEMMA DelimitedInit ==
  ASSUME Delimited!Init
  PROVE  DelimitedInv
<1> DEFINE S == Delimited!Size
           none == <<>>
<1>1. /\ delimiter \in Delimiters /\ includeDelimiter \in BOOLEAN
      /\ maxFrameLength \in DelimiterLimits /\ maxFrameLength \in Nat
      /\ matched = 0 /\ bytes = <<>> /\ output = <<>> /\ status = "open"
      /\ chunk = <<>> /\ offset = 0 /\ busy = FALSE /\ input = <<>>
  BY ParserAssumption DEF Delimited!Init
<1>2. S \in Nat \ {0} /\ SizeIs
  BY <1>1, DelimiterSize DEF SizeIs
<1>3. <<>> \in Seq(Letters) /\ Len(<<>>) = 0 /\ <<>> \in Seq(Seq(Letters))
      /\ 0 \in 0 .. 0 /\ DOMAIN <<>> = {}
  OBVIOUS
<1>4. none \in Seq(Letters) /\ Len(none) = 0 /\ DOMAIN none = {}
  BY <1>3
<1> HIDE DEF none, S
<1>5. Delimited!LastEnd(none)[0] = 0
  BY <1>1, <1>4, LastEndFacts, Zenon
<1>6. Delimited!Ends(none) = {}
  BY <1>4 DEF Delimited!Ends
<1>7. ~PayloadTooLong(none)
  BY <1>6 DEF PayloadTooLong
<1>8. Delimited!RestOf(none) = <<>>
  BY <1>1, <1>4, <1>5, RestNone, Zenon
<1>9. Delimited!FramesOf(none) = <<>>
  <2>1. DelimitedPieces(none, 0) \in Seq(Seq(Seq(Letters)))
        /\ Len(DelimitedPieces(none, 0)) = 0
    BY <1>1, <1>4, <1>3, DelimitedPiecesAre, Zenon
  <2>2. DelimitedPieces(none, 0) = <<>>
    BY <2>1
  <2> QED
    BY <1>4, <2>2, DelimitedFramesAre, FlattenEmpty, Zenon
<1>10. Tracks(none, 0)
  <2>1. Begun(none, 0, 0, 0)
    BY <1>2, BegunNothing
  <2>2. \A k \in 0 .. Delimited!Size : Begun(none, 0, 0, k) => k <= 0
    BY DEF Begun
  <2> QED
    BY <1>4, <1>5, <2>1, <2>2 DEF Tracks, Longest
<1>11. input = none
  BY <1>1 DEF none
<1>12. Searching
  <2>1. Len(bytes) - matched <= maxFrameLength
    BY <1>1, <1>3
  <2> QED
    BY <1>1, <1>7, <1>8, <1>9, <1>10, <1>11, <2>1 DEF Searching
<1>13. DelimitedTypes
  <2>1. 0 \in 0 .. Delimited!Size - 1
    BY <1>2 DEF S
  <2> QED
    BY <1>1, <1>3, <2>1, Zenon DEF DelimitedTypes
<1> QED
  BY <1>1, <1>12, <1>13 DEF DelimitedInv

LEMMA DelimitedInvSuffices ==
  ASSUME DelimitedInv
  PROVE  Delimited!FramesExact /\ Delimited!LimitExact
<1> DEFINE r == Delimited!RestOf(input)
           P == \E n \in Delimited!Ends(input) :
                  n - Delimited!Size - Delimited!LastEnd(input)[n - 1] > maxFrameLength
           Q == Len(r) - Delimited!Partial(r) > maxFrameLength
<1>1. /\ DelimitedTypes /\ busy \in BOOLEAN
      /\ status \in {"open", "ended", "failed", "flushFailed"}
      /\ maxFrameLength \in Nat /\ delimiter \in Delimiters /\ input \in Seq(Letters)
  BY ParserAssumption DEF DelimitedInv, DelimitedTypes
<1>2. P <=> PayloadTooLong(input)
  BY DEF PayloadTooLong
<1>3. Q <=> RestTooLong(r)
  BY DEF RestTooLong
<1>4. Delimited!LimitExact <=>
        CASE status = "open" /\ ~busy -> ~P /\ ~Q
          [] status = "failed" -> P \/ Q
          [] status = "ended" -> ~P /\ Len(r) <= maxFrameLength
          [] status = "flushFailed" -> Len(r) > maxFrameLength
          [] OTHER -> ~P
  BY DEF Delimited!LimitExact
<1>5. \A s, t : Delimited!IsPrefix(s, t) <=> IsPrefix(s, t)
  BY DEF Delimited!IsPrefix, IsPrefix
<1> HIDE DEF P, Q, r
<1>6. CASE status = "open"
  <2>1. Searching
    BY <1>6 DEF DelimitedInv
  <2>2. Delimited!FramesExact
    BY <1>6, <2>1 DEF Delimited!FramesExact, Searching
  <2>3. ~P
    BY <1>2, <2>1 DEF Searching
  <2>4. ASSUME ~busy PROVE ~Q
    <3>1. matched \in 0 .. Delimited!Size - 1 /\ Tracks(input, matched)
          /\ bytes = r /\ Len(bytes) - matched <= maxFrameLength
      BY <1>1, <2>1, <2>4 DEF Searching, DelimitedTypes, r
    <3>2. Delimited!Partial(r) = matched
      BY <1>1, <3>1, PartialIs DEF Tracks, r
    <3>3. Len(r) - Delimited!Partial(r) <= maxFrameLength
      BY <3>1, <3>2
    <3>4. matched \in Int /\ Len(r) \in Int
      <4>1. bytes \in Seq(Letters) /\ Delimited!Size \in Nat
        BY <1>1, DelimiterSize DEF DelimitedTypes, SizeIs
      <4> QED
        BY <3>1, <4>1
    <3> QED
      BY <1>1, <3>2, <3>3, <3>4 DEF Q
  <2>5. Delimited!LimitExact
    BY <1>4, <1>6, <2>3, <2>4
  <2> QED
    BY <2>2, <2>5
<1>7. CASE status = "ended"
  <2>1. DelimitedEnded
    BY <1>7 DEF DelimitedInv
  <2>2. Delimited!FramesExact
    BY <1>7, <2>1 DEF Delimited!FramesExact, DelimitedEnded
  <2>3. ~P /\ Len(r) <= maxFrameLength
    BY <1>2, <2>1 DEF DelimitedEnded, r
  <2>4. Delimited!LimitExact
    BY <1>4, <1>7, <2>3
  <2> QED
    BY <2>2, <2>4
<1>8. CASE status = "failed"
  <2>1. DelimitedFailed
    BY <1>8 DEF DelimitedInv
  <2>2. Delimited!FramesExact
    BY <1>5, <1>8, <2>1 DEF Delimited!FramesExact, DelimitedFailed
  <2>3. P \/ Q
    BY <1>2, <1>3, <2>1 DEF DelimitedFailed, r
  <2>4. Delimited!LimitExact
    BY <1>4, <1>8, <2>3
  <2> QED
    BY <2>2, <2>4
<1>9. CASE status = "flushFailed"
  <2>1. FlushFailed
    BY <1>9 DEF DelimitedInv
  <2>2. Delimited!FramesExact
    BY <1>5, <1>9, <2>1 DEF Delimited!FramesExact, FlushFailed
  <2>3. Len(r) > maxFrameLength
    BY <2>1 DEF FlushFailed, r
  <2>4. Delimited!LimitExact
    BY <1>4, <1>9, <2>3
  <2> QED
    BY <2>2, <2>4
<1> QED
  BY <1>1, <1>6, <1>7, <1>8, <1>9

LEMMA PacketStops ==
  ASSUME PacketInv,
         UNCHANGED <<format, started, length, bytes, output, status, busy, input>>
  PROVE  PacketInv'
<1>1. UNCHANGED format
  OBVIOUS
<1>2. PacketTypes' <=> PacketTypes
  BY DEF PacketTypes
<1>3. KeepsRest' <=> KeepsRest
  BY DEF KeepsRest, Taken
<1>4. Progress' <=> Progress
  BY <1>1, SameFormat, Zenon DEF Progress, Then, Taken
<1>5. KnowsHead' <=> KnowsHead
  BY <1>1, SameFormat DEF KnowsHead
<1>6. Waits' <=> Waits
  BY <1>1, SameFormat DEF Waits, Packets!Needed
<1>7. Gone' <=> Gone
  <2>1. input' = input /\ output' = output /\ busy' = busy
    OBVIOUS
  <2>2. Packets!Parsed(input)' = Packets!Parsed(input)
    BY <1>1, <2>1, SameFormat
  <2> QED
    BY <2>1, <2>2 DEF Gone
<1> QED
  BY <1>2, <1>3, <1>4, <1>5, <1>6, <1>7 DEF PacketInv, Going

LEMMA SlipStops ==
  ASSUME SlipInv,
         UNCHANGED <<coding, maxFrameLength, started, escaped, decoded, bytes, output,
                     status, chunk, busy, input>>
  PROVE  SlipInv'
<1>1. UNCHANGED <<coding, input>>
  OBVIOUS
<1>2. SlipTypes' <=> SlipTypes
  BY DEF SlipTypes, Byte
<1>3. Follows' <=> Follows
  BY <1>1, SameInput DEF Follows, AllInLimit, InLimit, Slip!InFrame
<1>4. HasEnded' <=> HasEnded
  BY <1>1, SameInput DEF HasEnded, AllInLimit, InLimit, Slip!OneOrNone
<1>5. HasFailed' <=> HasFailed
  BY <1>1, SameInput DEF HasFailed, InLimit, Byte
<1> QED
  BY <1>2, <1>3, <1>4, <1>5 DEF SlipInv

(***************************************************************************)
(* The parsers together.                                                   *)
(***************************************************************************)
ParserInv ==
  /\ kind \in {"delimiter", "packets", "slip"}
  /\ kind = "delimiter" => DelimitedInv
  /\ kind = "packets" => PacketInv
  /\ kind = "slip" => SlipInv

LEMMA ParserInit == Init => ParserInv
BY DelimitedInit, PacketsInit, SlipInit DEF Init, ParserInv

LEMMA ParserNext == ParserInv /\ [Next]_vars => ParserInv'
<1> SUFFICES ASSUME ParserInv, [Next]_vars PROVE ParserInv'
  OBVIOUS
<1>1. CASE Delimit
  <2>1. kind = "delimiter" /\ kind' = kind /\ Delimited!Next
    BY <1>1 DEF Delimit
  <2>2. DelimitedInv'
    BY <2>1, DelimitedNext DEF ParserInv
  <2> QED
    BY <2>1, <2>2 DEF ParserInv
<1>2. CASE Packetize
  <2>1. kind = "packets" /\ kind' = kind /\ Packets!Next
    BY <1>2 DEF Packetize
  <2>2. PacketInv'
    BY <2>1, PacketsNext DEF ParserInv
  <2> QED
    BY <2>1, <2>2 DEF ParserInv
<1>3. CASE Decode
  <2>1. kind = "slip" /\ kind' = kind /\ Slip!Next
    BY <1>3 DEF Decode
  <2>2. SlipInv'
    BY <2>1, SlipNext DEF ParserInv
  <2> QED
    BY <2>1, <2>2 DEF ParserInv
<1>4. CASE UNCHANGED vars
  <2>1. UNCHANGED <<kind, bytes, output, status, busy, input, started, maxFrameLength,
                    chunk, delimiter, includeDelimiter, matched, offset, format,
                    length, coding, escaped, decoded>>
    BY <1>4 DEF vars, delimiterVars, packetVars, slipVars
  <2>2. DelimitedInv => DelimitedInv'
    BY <2>1, DelimitedStops
  <2>3. PacketInv => PacketInv'
    BY <2>1, PacketStops
  <2>4. SlipInv => SlipInv'
    BY <2>1, SlipStops
  <2> QED
    BY <2>1, <2>2, <2>3, <2>4 DEF ParserInv
<1> QED
  BY <1>1, <1>2, <1>3, <1>4 DEF Next, Stopped

LEMMA ParserInvSuffices == ParserInv => FramesExact /\ RoundTrip
<1> SUFFICES ASSUME ParserInv PROVE FramesExact /\ RoundTrip
  OBVIOUS
<1>1. FramesExact
  BY DelimitedInvSuffices, PacketInvSuffices, SlipInvSuffices, Zenon DEF FramesExact, ParserInv
<1>2. RoundTrip
  BY RoundTripHolds DEF RoundTrip, ParserInv, SlipInv
<1> QED
  BY <1>1, <1>2

(***************************************************************************)
(* The inductive invariant holds in every state of every behavior.         *)
(***************************************************************************)
LEMMA ParserInvAlways == Spec => []ParserInv
<1> QED
  BY ParserInit, ParserNext, PTL DEF Spec

(***************************************************************************)
(* Whatever the chunks that a byte stream arrives in, the delimiter, packet*)
(* length and SLIP parsers emit the frames that the whole stream has, and  *)
(* at its end the rest; and whether maxFrameLength rejects a stream does   *)
(* not depend on where it is divided (the _transform and _flush of         *)
(* delimiter.ts, packet-length.ts and slip.ts).                            *)
(***************************************************************************)
THEOREM FramesAlwaysExact == Spec => []FramesExact
<1>1. ParserInv => FramesExact
  BY ParserInvSuffices
<1> QED
  BY <1>1, ParserInvAlways, PTL

(***************************************************************************)
(* A message that SlipEncoder encodes comes back from the decoding of its  *)
(* encoding as one frame with nothing left over (slip.ts, the encoder's    *)
(* and the decoder's escapes).                                             *)
(***************************************************************************)
THEOREM MessagesRoundTrip == Spec => []RoundTrip
<1>1. ParserInv => RoundTrip
  BY ParserInvSuffices
<1> QED
  BY <1>1, ParserInvAlways, PTL
====
