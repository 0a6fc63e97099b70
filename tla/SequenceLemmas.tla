--------------------------- MODULE SequenceLemmas ---------------------------
(***************************************************************************)
(* Facts about sequences of any length that the proofs of several modules  *)
(* need: what flattening does with an event that joins the queue at its    *)
(* end or at its front.  FlattenSeq is a recursive function, so they rest  *)
(* on induction, which is stated here for a set of numbers.                *)
(***************************************************************************)
EXTENDS Naturals, Sequences, SequencesExt, SequenceTheorems,
        WellFoundedInduction, TLAPS

Less == {p \in Nat \X Nat : p[1] < p[2]}

LEMMA LessIsWellFounded == IsWellFoundedOn(Less, Nat)
BY NatLessThanWellFounded DEF OpToRel, Less

(* A set of numbers with zero and all successors has every number.         *)
LEMMA SetInduction ==
  ASSUME NEW S, 0 \in S, \A n \in Nat : n \in S => n + 1 \in S
  PROVE  \A n \in Nat : n \in S
<1> DEFINE T == Nat \ S
<1>1. ASSUME T # {} PROVE FALSE
  <2> HIDE DEF T
  <2>1. T \subseteq Nat
    BY DEF T
  <2>2. PICK x \in T : \A y \in T : ~(<<y, x>> \in Less)
    BY <1>1, <2>1, LessIsWellFounded, WFMin
  <2>3. x \in Nat /\ x \notin S
    BY DEF T
  <2>4. x - 1 \in Nat /\ (x - 1) + 1 = x /\ <<x - 1, x>> \in Less
    BY <2>3 DEF Less
  <2>5. x - 1 \in S
    BY <2>2, <2>4 DEF T
  <2> QED
    BY <2>3, <2>4, <2>5
<1> QED
  BY <1>1

-----------------------------------------------------------------------------
(* The function that FlattenSeq computes: what the first i sequences give. *)
Flattens(f, s) ==
  f = [i \in 1 .. Len(s) |-> IF i = 1 THEN s[i] ELSE f[i - 1] \o s[i]]

Flattening(s) == CHOOSE f : Flattens(f, s)

LEMMA FlattenSeqValue ==
  ASSUME NEW s
  PROVE  FlattenSeq(s) = IF Len(s) = 0 THEN s ELSE Flattening(s)[Len(s)]
BY DEF FlattenSeq, Flattening, Flattens

LEMMA FlatteningExists ==
  ASSUME NEW S, NEW s \in Seq(Seq(S))
  PROVE  \E f \in [1 .. Len(s) -> Seq(S)] : Flattens(f, s)
<1> DEFINE Upto(n, f) ==
             \A i \in 1 .. n : f[i] = IF i = 1 THEN s[i] ELSE f[i - 1] \o s[i]
           P == {n \in Nat : n <= Len(s) =>
                               \E f \in [1 .. n -> Seq(S)] : Upto(n, f)}
<1>1. 0 \in P
  <2>1. PICK f : f \in [1 .. 0 -> Seq(S)]
    <3>1. [i \in 1 .. 0 |-> <<>>] \in [1 .. 0 -> Seq(S)]
      OBVIOUS
    <3> QED
      BY <3>1
  <2>2. Upto(0, f)
    OBVIOUS
  <2> HIDE DEF Upto
  <2> QED
    BY <2>1, <2>2
<1>2. ASSUME NEW n \in Nat, n \in P, n + 1 <= Len(s)
      PROVE  \E f \in [1 .. n + 1 -> Seq(S)] : Upto(n + 1, f)
  <2>1. PICK f \in [1 .. n -> Seq(S)] : Upto(n, f)
    <3>1. n <= Len(s)
      BY <1>2
    <3> QED
      BY <1>2, <3>1
  <2> DEFINE last == IF n = 0 THEN s[n + 1] ELSE f[n] \o s[n + 1]
             g == [i \in 1 .. n + 1 |-> IF i = n + 1 THEN last ELSE f[i]]
  <2>2. s[n + 1] \in Seq(S) /\ last \in Seq(S)
    BY <1>2
  <2>3. g \in [1 .. n + 1 -> Seq(S)]
    BY <2>2
  <2>4. ASSUME NEW i \in 1 .. n + 1
        PROVE  g[i] = IF i = 1 THEN s[i] ELSE g[i - 1] \o s[i]
    <3>1. CASE i = n + 1
      BY <3>1
    <3>2. CASE i # n + 1
      <4>1. i \in 1 .. n /\ g[i] = f[i]
        BY <3>2
      <4>2. i # 1 => i - 1 \in 1 .. n /\ g[i - 1] = f[i - 1]
        BY <4>1
      <4> QED
        BY <2>1, <4>1, <4>2
    <3> QED
      BY <3>1, <3>2
  <2> HIDE DEF g
  <2> QED
    BY <2>3, <2>4
<1>3. ASSUME NEW n \in Nat, n \in P PROVE n + 1 \in P
  <2>1. n + 1 <= Len(s) => \E f \in [1 .. n + 1 -> Seq(S)] : Upto(n + 1, f)
    BY <1>2, <1>3
  <2> HIDE DEF Upto
  <2> QED
    BY <2>1
<1> HIDE DEF P
<1>4. Len(s) \in P
  BY <1>1, <1>3, SetInduction
<1>5. PICK f \in [1 .. Len(s) -> Seq(S)] : Upto(Len(s), f)
  BY <1>4 DEF P
<1>6. Flattens(f, s)
  BY <1>5 DEF Flattens
<1> QED
  BY <1>6

LEMMA FlatteningFacts ==
  ASSUME NEW S, NEW s \in Seq(Seq(S))
  PROVE  /\ Flattening(s) \in [1 .. Len(s) -> Seq(S)]
         /\ \A i \in 1 .. Len(s) :
              Flattening(s)[i] = IF i = 1 THEN s[i]
                                 ELSE Flattening(s)[i - 1] \o s[i]
<1>1. PICK f \in [1 .. Len(s) -> Seq(S)] : Flattens(f, s)
  BY FlatteningExists
<1>2. Flattens(Flattening(s), s)
  BY <1>1 DEF Flattening
<1> DEFINE g == Flattening(s)
           P == {n \in Nat : n \in 1 .. Len(s) => g[n] = f[n]}
<1>3. \A i \in 1 .. Len(s) : g[i] = IF i = 1 THEN s[i] ELSE g[i - 1] \o s[i]
  BY <1>2 DEF Flattens
<1>4. \A i \in 1 .. Len(s) : f[i] = IF i = 1 THEN s[i] ELSE f[i - 1] \o s[i]
  BY <1>1 DEF Flattens
<1>5. g = [i \in 1 .. Len(s) |-> g[i]]
  BY <1>2 DEF Flattens
<1> HIDE DEF g
<1>6. 0 \in P
  OBVIOUS
<1>7. ASSUME NEW n \in Nat, n \in P PROVE n + 1 \in P
  <2>1. ASSUME n + 1 \in 1 .. Len(s) PROVE g[n + 1] = f[n + 1]
    <3>1. CASE n = 0
      <4>1. 1 \in 1 .. Len(s) /\ n + 1 = 1
        BY <2>1, <3>1
      <4>2. g[1] = s[1] /\ f[1] = s[1]
        BY <1>3, <1>4, <4>1
      <4> QED
        BY <4>1, <4>2
    <3>2. CASE n # 0
      <4>1. n \in 1 .. Len(s) /\ (n + 1) - 1 = n /\ n + 1 # 1
        BY <2>1, <3>2
      <4>2. g[n] = f[n]
        BY <1>7, <4>1
      <4>3. g[n + 1] = g[n] \o s[n + 1] /\ f[n + 1] = f[n] \o s[n + 1]
        BY <1>3, <1>4, <2>1, <4>1
      <4> QED
        BY <4>2, <4>3
    <3> QED
      BY <3>1, <3>2
  <2> QED
    BY <2>1
<1> HIDE DEF P
<1>8. \A n \in Nat : n \in P
  BY <1>6, <1>7, SetInduction
<1>9. \A i \in 1 .. Len(s) : g[i] = f[i]
  BY <1>8 DEF P
<1>10. g \in [1 .. Len(s) -> Seq(S)]
  BY <1>5, <1>9
<1> QED
  BY <1>3, <1>10 DEF g

(* What the flattening of a queue is.                                      *)
LEMMA FlattenEmpty == FlattenSeq(<<>>) = <<>>
BY FlattenSeqValue

LEMMA FlattenType ==
  ASSUME NEW S, NEW s \in Seq(Seq(S))
  PROVE  FlattenSeq(s) \in Seq(S)
<1>1. CASE Len(s) = 0
  <2>1. s = <<>> /\ <<>> \in Seq(S)
    BY <1>1
  <2> QED
    BY <2>1, FlattenEmpty
<1>2. CASE Len(s) # 0
  <2>1. Len(s) \in 1 .. Len(s)
    BY <1>2
  <2> QED
    BY <1>2, <2>1, FlattenSeqValue, FlatteningFacts
<1> QED
  BY <1>1, <1>2

LEMMA FlattenOne ==
  ASSUME NEW S, NEW e \in Seq(S)
  PROVE  FlattenSeq(<<e>>) = e
<1>1. PICK s : s = <<e>>
  OBVIOUS
<1>2. s \in Seq(Seq(S)) /\ Len(s) = 1 /\ s[1] = e
  BY <1>1
<1>3. 1 \in 1 .. Len(s)
  BY <1>2
<1>4. Flattening(s)[1] = s[1]
  BY <1>2, <1>3, FlatteningFacts
<1>5. FlattenSeq(s) = Flattening(s)[Len(s)]
  <2>1. Len(s) # 0
    BY <1>2
  <2> QED
    BY <2>1, FlattenSeqValue
<1> QED
  BY <1>1, <1>2, <1>4, <1>5

(* An event that joins at the end.                                         *)
LEMMA FlattenAppend ==
  ASSUME NEW S, NEW s \in Seq(Seq(S)), NEW e \in Seq(S)
  PROVE  FlattenSeq(Append(s, e)) = FlattenSeq(s) \o e
<1> DEFINE a == Append(s, e)
           f == Flattening(s)
           g == Flattening(a)
           P == {n \in Nat : n \in 1 .. Len(s) => g[n] = f[n]}
<1>1. /\ a \in Seq(Seq(S)) /\ Len(a) = Len(s) + 1 /\ a[Len(s) + 1] = e
      /\ \A i \in 1 .. Len(s) : a[i] = s[i]
      /\ Len(s) \in Nat
  OBVIOUS
<1> HIDE DEF a
<1>2. \A i \in 1 .. Len(s) : f[i] = IF i = 1 THEN s[i] ELSE f[i - 1] \o s[i]
  BY FlatteningFacts
<1>3. \A i \in 1 .. Len(s) + 1 :
         g[i] = IF i = 1 THEN a[i] ELSE g[i - 1] \o a[i]
  BY <1>1, FlatteningFacts
<1> HIDE DEF f, g
<1>4. 0 \in P
  OBVIOUS
<1>5. ASSUME NEW n \in Nat, n \in P PROVE n + 1 \in P
  <2>1. ASSUME n + 1 \in 1 .. Len(s) PROVE g[n + 1] = f[n + 1]
    <3>1. CASE n = 0
      <4>1. 1 \in 1 .. Len(s) /\ 1 \in 1 .. Len(s) + 1
        BY <1>1, <2>1, <3>1
      <4>2. g[1] = a[1] /\ f[1] = s[1] /\ a[1] = s[1]
        BY <1>1, <1>2, <1>3, <4>1
      <4> QED
        BY <3>1, <4>2
    <3>2. CASE n # 0
      <4>1. /\ n \in 1 .. Len(s) /\ (n + 1) - 1 = n /\ n + 1 # 1
            /\ n + 1 \in 1 .. Len(s) + 1
        BY <1>1, <2>1, <3>2
      <4>2. g[n] = f[n]
        BY <1>5, <4>1
      <4>3. g[n + 1] = g[n] \o a[n + 1] /\ f[n + 1] = f[n] \o s[n + 1]
        BY <1>2, <1>3, <2>1, <4>1
      <4>4. a[n + 1] = s[n + 1]
        BY <1>1, <2>1
      <4> QED
        BY <4>2, <4>3, <4>4
    <3> QED
      BY <3>1, <3>2
  <2> QED
    BY <2>1
<1> HIDE DEF P
<1>6. \A n \in Nat : n \in P
  BY <1>4, <1>5, SetInduction
<1>7. CASE Len(s) = 0
  <2>1. s = <<>> /\ a[1] = e /\ g[1] = a[1] /\ Len(a) = 1
    BY <1>1, <1>3, <1>7
  <2>2. FlattenSeq(a) = e
    <3>1. Len(a) # 0
      BY <2>1
    <3>2. FlattenSeq(a) = g[Len(a)]
      BY <3>1, FlattenSeqValue DEF g
    <3> QED
      BY <1>1, <2>1, <3>2
  <2> QED
    BY <2>1, <2>2, FlattenEmpty DEF a
<1>8. CASE Len(s) # 0
  <2>1. Len(s) \in 1 .. Len(s) /\ Len(s) + 1 \in 1 .. Len(s) + 1
        /\ (Len(s) + 1) - 1 = Len(s) /\ Len(s) + 1 # 1
    BY <1>1, <1>8
  <2>2. g[Len(s)] = f[Len(s)]
    BY <1>6, <2>1 DEF P
  <2>3. g[Len(s) + 1] = g[Len(s)] \o a[Len(s) + 1]
    BY <1>3, <2>1
  <2>4. FlattenSeq(a) = g[Len(s) + 1] /\ FlattenSeq(s) = f[Len(s)]
    BY <1>1, <1>8, <2>1, FlattenSeqValue DEF f, g
  <2> QED
    BY <1>1, <2>2, <2>3, <2>4 DEF a
<1> QED
  BY <1>7, <1>8

(* An event that is put in front.                                          *)
LEMMA FlattenFront ==
  ASSUME NEW S, NEW s \in Seq(Seq(S)), NEW e \in Seq(S)
  PROVE  FlattenSeq(<<e>> \o s) = e \o FlattenSeq(s)
<1> DEFINE a == <<e>> \o s
           f == Flattening(s)
           g == Flattening(a)
           P == {n \in Nat : n \in 1 .. Len(s) => g[n + 1] = e \o f[n]}
<1>1. /\ a \in Seq(Seq(S)) /\ Len(a) = Len(s) + 1 /\ a[1] = e
      /\ \A i \in 1 .. Len(s) : a[i + 1] = s[i]
      /\ Len(s) \in Nat
  OBVIOUS
<1> HIDE DEF a
<1>2. /\ \A i \in 1 .. Len(s) : f[i] = IF i = 1 THEN s[i] ELSE f[i - 1] \o s[i]
      /\ f \in [1 .. Len(s) -> Seq(S)]
  BY FlatteningFacts
<1>3. \A i \in 1 .. Len(s) + 1 :
         g[i] = IF i = 1 THEN a[i] ELSE g[i - 1] \o a[i]
  BY <1>1, FlatteningFacts
<1> HIDE DEF f, g
<1>4. 0 \in P
  OBVIOUS
<1>5. ASSUME NEW n \in Nat, n \in P PROVE n + 1 \in P
  <2>1. ASSUME n + 1 \in 1 .. Len(s) PROVE g[(n + 1) + 1] = e \o f[n + 1]
    <3>1. /\ (n + 1) + 1 \in 1 .. Len(s) + 1 /\ (n + 1) + 1 # 1
          /\ ((n + 1) + 1) - 1 = n + 1 /\ a[(n + 1) + 1] = s[n + 1]
      BY SMTT(20), <1>1, <2>1
    <3>2. g[(n + 1) + 1] = g[n + 1] \o s[n + 1]
      BY <1>3, <3>1
    <3>3. CASE n = 0
      <4>1. 1 \in 1 .. Len(s) /\ 1 \in 1 .. Len(s) + 1 /\ n + 1 = 1
        BY <1>1, <2>1, <3>3
      <4>2. g[1] = e /\ f[1] = s[1]
        BY <1>1, <1>2, <1>3, <4>1
      <4> QED
        BY <3>2, <4>1, <4>2
    <3>4. CASE n # 0
      <4>1. n \in 1 .. Len(s) /\ (n + 1) - 1 = n /\ n + 1 # 1
        BY <1>1, <2>1, <3>4
      <4>2. g[n + 1] = e \o f[n] /\ f[n + 1] = f[n] \o s[n + 1]
        BY <1>2, <1>5, <2>1, <4>1
      <4>3. f[n] \in Seq(S) /\ s[n + 1] \in Seq(S)
        <5>1. f[n] \in Seq(S)
          BY <1>2, <4>1
        <5>2. s[n + 1] \in Seq(S)
          BY <2>1, ElementOfSeq
        <5> QED
          BY <5>1, <5>2
      <4>4. (e \o f[n]) \o s[n + 1] = e \o (f[n] \o s[n + 1])
        <5>1. \A x, y \in Seq(S) : (e \o x) \o y = e \o (x \o y)
          BY SMTT(20), ConcatAssociative
        <5> QED
          BY <4>3, <5>1
      <4> QED
        BY <3>2, <4>2, <4>4
    <3> QED
      BY <3>3, <3>4
  <2> QED
    BY <2>1
<1> HIDE DEF P
<1>6. \A n \in Nat : n \in P
  BY <1>4, <1>5, SetInduction
<1>7. CASE Len(s) = 0
  <2>1. s = <<>> /\ g[1] = e /\ Len(a) = 1
    BY <1>1, <1>3, <1>7
  <2>2. FlattenSeq(a) = e
    <3>1. Len(a) # 0
      BY <2>1
    <3>2. FlattenSeq(a) = g[Len(a)]
      BY <3>1, FlattenSeqValue DEF g
    <3> QED
      BY <1>1, <2>1, <3>2
  <2>3. FlattenSeq(s) = <<>>
    BY <2>1, FlattenEmpty
  <2>4. e \o <<>> = e
    OBVIOUS
  <2> QED
    BY <2>2, <2>3, <2>4 DEF a
<1>8. CASE Len(s) # 0
  <2>1. Len(s) \in 1 .. Len(s)
    BY <1>1, <1>8
  <2>2. g[Len(s) + 1] = e \o f[Len(s)]
    BY <1>6, <2>1 DEF P
  <2>3. FlattenSeq(a) = g[Len(s) + 1] /\ FlattenSeq(s) = f[Len(s)]
    BY <1>1, <1>8, <2>1, FlattenSeqValue DEF f, g
  <2> QED
    BY <2>2, <2>3 DEF a
<1> QED
  BY <1>7, <1>8
=============================================================================
