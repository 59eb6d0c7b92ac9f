---------------------------- MODULE FlattenTheorems ----------------------------
(***************************************************************************)
(* Induction over the numbers, in the form the provers can use, and what   *)
(* follows from it for FlattenSeq and for functions that concatenate the   *)
(* parts of a sequence one by one.                                         *)
(***************************************************************************)
EXTENDS Integers, Sequences, SequencesExt, FiniteSets,
        SequenceTheorems, FiniteSetTheorems, TLAPS

\* A set with zero in it, and with every number the next one, holds all numbers.
\* The minimal interval whose end is outside would have a smaller one.
LEMMA SetInduction ==
  ASSUME NEW S, 0 \in S, \A n \in Nat : n \in S => n + 1 \in S
  PROVE  \A n \in Nat : n \in S
<1> SUFFICES ASSUME NEW m \in Nat, m \notin S  PROVE FALSE
  OBVIOUS
<1> DEFINE T == {1 .. n : n \in Nat \ S}
<1>1. T \subseteq FiniteSubsetsOf(Nat)
  <2> SUFFICES ASSUME NEW n \in Nat \ S  PROVE 1 .. n \in FiniteSubsetsOf(Nat)
    OBVIOUS
  <2>1. 1 .. n \subseteq Nat
    OBVIOUS
  <2>2. IsFiniteSet(1 .. n)
    BY FS_Interval
  <2> QED  BY <2>1, <2>2 DEF FiniteSubsetsOf
<1>2. T # {}
  OBVIOUS
<1>3. IsWellFoundedOn(StrictSubsetOrdering(Nat), FiniteSubsetsOf(Nat))
  BY FS_StrictSubsetOrderingWellFounded
<1>4. PICK x \in T : \A y \in T : <<y, x>> \notin StrictSubsetOrdering(Nat)
  <2> HIDE DEF T
  <2> QED  BY <1>1, <1>2, <1>3, WFMin
<1>5. PICK n \in Nat \ S : x = 1 .. n
  OBVIOUS
<1>6. n # 0 /\ n - 1 \in Nat \ S
  <2>1. n # 0
    OBVIOUS
  <2>2. n - 1 \in Nat /\ (n - 1) + 1 = n
    BY <2>1
  <2> QED  BY <2>1, <2>2
<1>7. 1 .. (n - 1) \in T
  BY <1>6
<1>8. /\ 1 .. (n - 1) \subseteq 1 .. n /\ 1 .. (n - 1) # 1 .. n
      /\ 1 .. (n - 1) \in SUBSET Nat /\ 1 .. n \in SUBSET Nat
  <2>1. n \in 1 .. n /\ n \notin 1 .. (n - 1)
    BY <1>6
  <2>2. 1 .. (n - 1) \subseteq 1 .. n /\ 1 .. (n - 1) \subseteq Nat /\ 1 .. n \subseteq Nat
    BY <1>6
  <2> QED  BY <2>1, <2>2
<1>9. <<1 .. (n - 1), 1 .. n>> \in StrictSubsetOrdering(Nat)
  BY <1>8 DEF StrictSubsetOrdering
<1> QED
  BY <1>4, <1>5, <1>7, <1>9

-----------------------------------------------------------------------------
(* Functions that join the parts of a sequence one by one. *)

\* g[i] joins the first i parts of ss.
Collects(g, ss) ==
  /\ g[0] = <<>>
  /\ \A i \in 1 .. Len(ss) : g[i] = g[i - 1] \o ss[i]

\* There is such a function for every sequence of parts.
LEMMA CollectorExists ==
  ASSUME NEW S, NEW ss \in Seq(Seq(S))
  PROVE  \E g \in [0 .. Len(ss) -> Seq(S)] : Collects(g, ss)
<1> DEFINE Upto(g, n) == g[0] = <<>> /\ \A i \in 1 .. n : g[i] = g[i - 1] \o ss[i]
           Has(n) == \E g \in [0 .. n -> Seq(S)] : Upto(g, n)
           Good   == {n \in Nat : n <= Len(ss) => Has(n)}
<1>1. Len(ss) \in Nat
  BY LenProperties
<1>2. Has(0)
  <2> DEFINE g == [i \in 0 .. 0 |-> <<>>]
  <2>1. g \in [0 .. 0 -> Seq(S)] /\ Upto(g, 0)
    BY EmptySeq
  <2> QED  BY <2>1
<1>3. ASSUME NEW n \in Nat, n + 1 <= Len(ss), Has(n)  PROVE Has(n + 1)
  <2>1. n + 1 \in 1 .. Len(ss) /\ (n + 1) - 1 = n
    BY <1>1, <1>3
  <2>2. PICK g \in [0 .. n -> Seq(S)] : Upto(g, n)
    BY <1>3
  <2>3. ss[n + 1] \in Seq(S)
    BY <2>1, ElementOfSeq
  <2> DEFINE h == [i \in 0 .. n + 1 |-> IF i = n + 1 THEN g[n] \o ss[n + 1] ELSE g[i]]
  <2>4. g[n] \in Seq(S) /\ g[n] \o ss[n + 1] \in Seq(S)
    BY <2>3, ConcatProperties
  <2>5. h \in [0 .. n + 1 -> Seq(S)]
    BY <2>4
  <2>6. h[n + 1] = g[n] \o ss[n + 1] /\ \A i \in 0 .. n : h[i] = g[i]
    OBVIOUS
  <2> HIDE DEF h
  <2>7. h[0] = <<>> /\ h[n + 1] = h[(n + 1) - 1] \o ss[n + 1]
    <3>1. 0 \in 0 .. n /\ n \in 0 .. n
      OBVIOUS
    <3> QED  BY <2>1, <2>2, <2>6, <3>1, Zenon
  <2>8. \A i \in 1 .. n : h[i] = h[i - 1] \o ss[i]
    <3>1. \A i \in 1 .. n : i \in 0 .. n /\ i - 1 \in 0 .. n
      OBVIOUS
    <3> QED  BY <2>2, <2>6, <3>1, Zenon
  <2>9. Upto(h, n + 1)
    <3>1. \A i \in 1 .. n + 1 : i \in 1 .. n \/ i = n + 1
      OBVIOUS
    <3> QED  BY <2>7, <2>8, <3>1, Zenon
  <2> QED  BY <2>5, <2>9
<1>4. Has(Len(ss))
  <2> HIDE DEF Has
  <2>1. 0 \in Good
    BY <1>2
  <2>2. \A n \in Nat : n \in Good => n + 1 \in Good
    BY <1>1, <1>3
  <2> HIDE DEF Good
  <2>3. Len(ss) \in Good
    BY <1>1, <2>1, <2>2, SetInduction
  <2> QED  BY <1>1, <2>3 DEF Good
<1> QED
  BY <1>4 DEF Collects

\* Where two sequences of parts agree, so do the functions.
AgreeUpto(ss, tt, m) ==
  /\ m \in Nat /\ Len(ss) \in Nat /\ Len(tt) \in Nat
  /\ m <= Len(ss) /\ m <= Len(tt) /\ \A i \in 1 .. m : ss[i] = tt[i]

LEMMA CollectorsAgree ==
  ASSUME NEW ss, NEW tt, NEW g, NEW h, NEW m,
         AgreeUpto(ss, tt, m), Collects(g, ss), Collects(h, tt)
  PROVE  g[m] = h[m]
<1> USE DEF AgreeUpto
<1> DEFINE Good == {n \in Nat : n <= m => g[n] = h[n]}
<1>1. 0 \in Good
  BY DEF Collects
<1>2. ASSUME NEW n \in Nat, n \in Good  PROVE n + 1 \in Good
  <2> SUFFICES ASSUME n + 1 <= m  PROVE g[n + 1] = h[n + 1]
    OBVIOUS
  <2>1. /\ n + 1 \in 1 .. m /\ n + 1 \in 1 .. Len(ss) /\ n + 1 \in 1 .. Len(tt)
        /\ (n + 1) - 1 = n /\ n <= m
    OBVIOUS
  <2>2. g[n + 1] = g[n] \o ss[n + 1] /\ h[n + 1] = h[n] \o tt[n + 1]
    BY <2>1 DEF Collects
  <2> QED  BY <1>2, <2>1, <2>2
<1>3. m \in Good
  <2> HIDE DEF Good
  <2> QED  BY <1>1, <1>2, SetInduction
<1> QED
  BY <1>3

\* What the first parts joined stays at the front.
Within(S, ss, g, k, m) ==
  /\ ss \in Seq(Seq(S)) /\ g \in [0 .. Len(ss) -> Seq(S)] /\ Collects(g, ss)
  /\ m \in 0 .. Len(ss) /\ k \in 0 .. m

StaysInFront(x, y) == Len(x) <= Len(y) /\ \A i \in 1 .. Len(x) : y[i] = x[i]

LEMMA CollectorGrows ==
  ASSUME NEW S, NEW ss, NEW g, NEW k, NEW m, Within(S, ss, g, k, m)
  PROVE  StaysInFront(g[k], g[m])
<1> USE DEF Within
<1> DEFINE InFront(n) == Len(g[k]) <= Len(g[n]) /\ \A i \in 1 .. Len(g[k]) : g[n][i] = g[k][i]
           Good == {d \in Nat : k + d <= Len(ss) => InFront(k + d)}
<1>0. Len(ss) \in Nat /\ k \in Nat /\ g[k] \in Seq(S) /\ Len(g[k]) \in Nat
  BY LenProperties
<1>1. 0 \in Good
  BY <1>0
<1>2. ASSUME NEW d \in Nat, d \in Good  PROVE d + 1 \in Good
  <2> SUFFICES ASSUME k + (d + 1) <= Len(ss)  PROVE InFront(k + (d + 1))
    OBVIOUS
  <2>1. PICK n \in Nat : n = k + d /\ k + (d + 1) = n + 1 /\ n + 1 \in 1 .. Len(ss)
                         /\ n \in 0 .. Len(ss) /\ (n + 1) - 1 = n
    BY <1>0
  <2>2. InFront(n)
    BY <1>2, <2>1
  <2>3. PICK x, y : x = g[n] /\ y = ss[n + 1]
    OBVIOUS
  <2>4. x \in Seq(S) /\ y \in Seq(S) /\ g[n + 1] = x \o y
    BY <2>1, <2>3, ElementOfSeq DEF Collects
  <2>5. /\ Len(x) \in Nat /\ Len(y) \in Nat /\ Len(x \o y) = Len(x) + Len(y)
        /\ \A i \in 1 .. Len(x) + Len(y) :
             (x \o y)[i] = IF i <= Len(x) THEN x[i] ELSE y[i - Len(x)]
    BY <2>4, LenProperties, ConcatProperties
  <2>6. Len(g[k]) <= Len(x) /\ \A i \in 1 .. Len(g[k]) : x[i] = g[k][i]
    BY <2>2, <2>3
  <2>7. Len(g[k]) <= Len(x \o y) /\ \A i \in 1 .. Len(g[k]) : (x \o y)[i] = g[k][i]
    BY <1>0, <2>5, <2>6, SMTT(60)
  <2>8. InFront(n + 1)
    BY <2>4, <2>7
  <2> QED  BY <2>1, <2>8
<1>3. m - k \in Good
  <2>1. m - k \in Nat
    BY <1>0
  <2> HIDE DEF Good
  <2> QED  BY <1>1, <1>2, <2>1, SetInduction
<1>4. k + (m - k) = m /\ m <= Len(ss)
  BY <1>0
<1>5. InFront(k + (m - k))
  BY <1>3, <1>4
<1> HIDE DEF InFront
<1>6. InFront(m)
  BY <1>4, <1>5
<1> QED
  BY <1>6 DEF InFront, StaysInFront

-----------------------------------------------------------------------------
(* FlattenSeq. *)

LEMMA FlattenCollects ==
  ASSUME NEW S, NEW ss \in Seq(Seq(S)), NEW g \in [0 .. Len(ss) -> Seq(S)], Collects(g, ss)
  PROVE  FlattenSeq(ss) = g[Len(ss)]
<1> DEFINE n == Len(ss)
<1>1. n \in Nat
  BY LenProperties
<1>2. CASE n = 0
  BY <1>2, EmptySeq DEF FlattenSeq, Collects
<1>3. CASE n # 0
  <2> DEFINE Step(f) == [i \in 1 .. n |-> IF i = 1 THEN ss[i] ELSE f[i - 1] \o ss[i]]
  <2> DEFINE c == [i \in 1 .. n |-> g[i]]
  <2>1. c = Step(c)
    <3>1. c[1] = ss[1]
      <4>1. 1 \in 1 .. n /\ 1 - 1 = 0
        BY <1>1, <1>3
      <4>2. g[1] = <<>> \o ss[1]
        BY <4>1 DEF Collects
      <4>3. ss[1] \in Seq(S)
        BY <4>1, ElementOfSeq
      <4> QED  BY <4>1, <4>2, <4>3, ConcatEmptySeq
    <3>2. \A i \in 1 .. n : i # 1 => i - 1 \in 1 .. n
      BY <1>1
    <3>3. \A i \in 1 .. n : i # 1 => c[i] = c[i - 1] \o ss[i]
      BY <3>2 DEF Collects
    <3> QED  BY <3>1, <3>3
  <2>2. PICK f : FlattenSeq(ss) = f[n] /\ f = Step(f)
    <3>1. \E f : f = Step(f)
      BY <2>1
    <3> QED  BY <1>3, <3>1, Zenon DEF FlattenSeq
  <2> DEFINE Good == {i \in Nat : i \in 1 .. n => f[i] = g[i]}
  <2>3. 0 \in Good
    OBVIOUS
  <2>4. ASSUME NEW i \in Nat, i \in Good  PROVE i + 1 \in Good
    <3> SUFFICES ASSUME i + 1 \in 1 .. n  PROVE f[i + 1] = g[i + 1]
      OBVIOUS
    <3>1. g[i + 1] = g[i] \o ss[i + 1]
      <4>1. (i + 1) - 1 = i
        OBVIOUS
      <4> QED  BY <4>1 DEF Collects
    <3>2. CASE i = 0
      <4>1. 1 \in 1 .. n
        BY <1>1, <1>3
      <4>2. f[1] = ss[1]
        BY <2>2, <4>1
      <4>3. Step(c)[1] = ss[1] /\ c[1] = g[1]
        BY <4>1
      <4>4. g[1] = ss[1]
        BY <2>1, <4>3, Zenon
      <4> QED  BY <3>2, <4>2, <4>4
    <3>3. CASE i # 0
      <4>1. i \in 1 .. n /\ (i + 1) - 1 = i /\ i + 1 # 1
        BY <1>1, <3>3
      <4>2. f[i + 1] = f[i] \o ss[i + 1]
        BY <2>2, <4>1
      <4> QED  BY <2>4, <3>1, <4>1, <4>2
    <3> QED  BY <3>2, <3>3
  <2>5. n \in Good
    <3> HIDE DEF Good
    <3> QED  BY <1>1, <2>3, <2>4, SetInduction
  <2>6. n \in 1 .. n
    BY <1>1, <1>3
  <2>7. f[n] = g[n]
    BY <2>5, <2>6
  <2> QED  BY <2>2, <2>7
<1> QED
  BY <1>2, <1>3

\* x is what the parts of ss are joined.
Joins(ss, x) == \E g : Collects(g, ss) /\ x = g[Len(ss)]

\* tt is ss with the part s at its end.
Longer(tt, ss, s, n) ==
  /\ n \in Nat /\ n = Len(ss) /\ Len(tt) = n + 1
  /\ tt[n + 1] = s /\ \A i \in 1 .. n : tt[i] = ss[i]

LEMMA JoinsLonger ==
  ASSUME NEW ss, NEW tt, NEW s, NEW n, NEW x, NEW y,
         Longer(tt, ss, s, n), Joins(ss, x), Joins(tt, y)
  PROVE  y = x \o s
<1>1. PICK g : Collects(g, ss) /\ x = g[n]
  BY DEF Joins, Longer
<1>2. PICK h : Collects(h, tt) /\ y = h[n + 1]
  BY DEF Joins, Longer
<1>3. AgreeUpto(ss, tt, n)
  BY DEF AgreeUpto, Longer
<1>4. g[n] = h[n]
  BY <1>1, <1>2, <1>3, CollectorsAgree
<1>5. n + 1 \in 1 .. Len(tt) /\ (n + 1) - 1 = n /\ tt[n + 1] = s
  BY DEF Longer
<1>6. h[n + 1] = h[n] \o tt[n + 1]
  BY <1>2, <1>5 DEF Collects
<1> QED
  BY <1>1, <1>2, <1>4, <1>5, <1>6

\* What g has joined is one part, a, ahead of what h has.
Ahead(g, h, a, i) == g[i + 1] = a \o h[i]

\* Both join the part c.
BothJoin(S, g, h, a, c, i) ==
  /\ a \in Seq(S) /\ h[i] \in Seq(S) /\ c \in Seq(S)
  /\ g[(i + 1) + 1] = g[i + 1] \o c
  /\ h[i + 1] = h[i] \o c

LEMMA StaysAhead ==
  ASSUME NEW S, NEW g, NEW h, NEW a, NEW c, NEW i,
         Ahead(g, h, a, i), BothJoin(S, g, h, a, c, i)
  PROVE  Ahead(g, h, a, i + 1)
<1>1. PICK b : b = h[i]
  OBVIOUS
<1>2. /\ a \in Seq(S) /\ b \in Seq(S) /\ c \in Seq(S)
      /\ g[i + 1] = a \o b /\ g[(i + 1) + 1] = g[i + 1] \o c /\ h[i + 1] = b \o c
  BY <1>1 DEF Ahead, BothJoin
<1>3. (a \o b) \o c = a \o (b \o c)
  BY <1>2, ConcatAssociative, SMTT(60)
<1> QED
  BY <1>2, <1>3 DEF Ahead

\* A sequence of parts has a collector, and FlattenSeq is its last value.
LEMMA FlattenType ==
  ASSUME NEW S, NEW ss \in Seq(Seq(S))
  PROVE  /\ FlattenSeq(ss) \in Seq(S)
         /\ \E g \in [0 .. Len(ss) -> Seq(S)] : Collects(g, ss) /\ FlattenSeq(ss) = g[Len(ss)]
         /\ Joins(ss, FlattenSeq(ss))
<1>1. Len(ss) \in Nat
  BY LenProperties
<1>2. PICK g \in [0 .. Len(ss) -> Seq(S)] : Collects(g, ss)
  BY CollectorExists
<1>3. FlattenSeq(ss) = g[Len(ss)]
  BY <1>2, FlattenCollects
<1>4. g[Len(ss)] \in Seq(S)
  BY <1>1
<1>5. Joins(ss, FlattenSeq(ss))
  BY <1>2, <1>3 DEF Joins
<1> QED
  BY <1>2, <1>3, <1>4, <1>5

LEMMA FlattenEmpty == FlattenSeq(<<>>) = <<>>
<1>1. Len(<<>>) = 0
  BY EmptySeq
<1> QED
  BY <1>1, Zenon DEF FlattenSeq

\* One part more at the end.
LEMMA FlattenAppend ==
  ASSUME NEW S, NEW ss \in Seq(Seq(S)), NEW s \in Seq(S)
  PROVE  FlattenSeq(Append(ss, s)) = FlattenSeq(ss) \o s
<1> DEFINE tt == Append(ss, s)
<1>1. tt \in Seq(Seq(S)) /\ Longer(tt, ss, s, Len(ss))
  BY LenProperties, AppendProperties DEF Longer
<1>2. Joins(ss, FlattenSeq(ss)) /\ Joins(tt, FlattenSeq(tt))
  <2> HIDE DEF tt
  <2> QED  BY <1>1, FlattenType
<1> HIDE DEF tt
<1>3. FlattenSeq(tt) = FlattenSeq(ss) \o s
  BY <1>1, <1>2, JoinsLonger
<1> QED
  BY <1>3 DEF tt

\* The first part taken off.
LEMMA FlattenTail ==
  ASSUME NEW S, NEW ss \in Seq(Seq(S)), ss # <<>>
  PROVE  FlattenSeq(ss) = Head(ss) \o FlattenSeq(Tail(ss))
<1> DEFINE tt == Tail(ss)  n == Len(ss)  m == Len(tt)
<1>1. /\ n \in Nat /\ n # 0 /\ m \in Nat /\ n = m + 1
      /\ tt \in Seq(Seq(S)) /\ \A i \in 1 .. m : tt[i] = ss[i + 1]
      /\ Head(ss) = ss[1] /\ Head(ss) \in Seq(S)
  <2>1. n \in Nat /\ n # 0
    BY LenProperties, EmptySeq
  <2>2. /\ Head(ss) \in Seq(S) /\ tt \in Seq(Seq(S))
        /\ Len(tt) = n - 1 /\ \A i \in 1 .. Len(tt) : tt[i] = ss[i + 1]
    BY HeadTailProperties
  <2>3. Head(ss) = ss[1]
    OBVIOUS
  <2> QED  BY <2>1, <2>2, <2>3
<1> HIDE DEF tt
<1>2. PICK g \in [0 .. n -> Seq(S)] : Collects(g, ss) /\ FlattenSeq(ss) = g[n]
  BY FlattenType
<1>3. PICK h \in [0 .. m -> Seq(S)] : Collects(h, tt) /\ FlattenSeq(tt) = h[m]
  BY <1>1, FlattenType
<1> DEFINE a == Head(ss)  Good == {i \in Nat : i <= m => Ahead(g, h, a, i)}
<1>4. Ahead(g, h, a, 0)
  <2>1. 1 \in 1 .. n /\ 1 - 1 = 0
    BY <1>1
  <2>2. g[1] = <<>> \o ss[1] /\ h[0] = <<>>
    BY <1>2, <1>3, <2>1 DEF Collects
  <2>3. <<>> \o Head(ss) = Head(ss) \o <<>>
    BY <1>1, ConcatEmptySeq
  <2> QED  BY <1>1, <2>2, <2>3 DEF Ahead
<1>5. ASSUME NEW i \in Nat, i + 1 <= m, Ahead(g, h, a, i)  PROVE Ahead(g, h, a, i + 1)
  <2>1. /\ (i + 1) + 1 \in 1 .. n /\ ((i + 1) + 1) - 1 = i + 1
        /\ i + 1 \in 1 .. m /\ (i + 1) - 1 = i /\ i <= m /\ i \in 0 .. m
    BY <1>1, <1>5
  <2>2. g[(i + 1) + 1] = g[i + 1] \o ss[(i + 1) + 1] /\ h[i + 1] = h[i] \o tt[i + 1]
    BY <1>2, <1>3, <2>1, Zenon DEF Collects
  <2>3. tt[i + 1] = ss[(i + 1) + 1] /\ tt[i + 1] \in Seq(S)
    BY <1>1, <2>1, ElementOfSeq
  <2>4. h[i] \in Seq(S)
    BY <1>3, <2>1
  <2>5. BothJoin(S, g, h, a, tt[i + 1], i)
    BY <1>1, <2>2, <2>3, <2>4 DEF BothJoin
  <2> HIDE DEF a
  <2> QED  BY <1>5, <2>5, StaysAhead
<1>6. m \in Good
  <2>1. 0 \in Good /\ \A i \in Nat : i \in Good => i + 1 \in Good
    BY <1>1, <1>4, <1>5
  <2> HIDE DEF Good
  <2> QED  BY <1>1, <2>1, SetInduction
<1>7. g[m + 1] = Head(ss) \o h[m]
  BY <1>1, <1>6 DEF Ahead
<1> QED
  BY <1>1, <1>2, <1>3, <1>7 DEF tt

\* Empty parts join to nothing.
LEMMA FlattenNothing ==
  ASSUME NEW S, NEW ss \in Seq(Seq(S)), \A i \in 1 .. Len(ss) : ss[i] = <<>>
  PROVE  FlattenSeq(ss) = <<>>
<1> DEFINE g == [i \in 0 .. Len(ss) |-> <<>>]
<1>1. Len(ss) \in Nat /\ <<>> \in Seq(S) /\ <<>> \o <<>> = <<>>
  BY LenProperties, EmptySeq
<1>2. g \in [0 .. Len(ss) -> Seq(S)] /\ g[Len(ss)] = <<>>
  BY <1>1
<1>3. Collects(g, ss)
  <2>1. g[0] = <<>>
    BY <1>1
  <2>2. \A i \in 1 .. Len(ss) : g[i] = <<>> /\ g[i - 1] = <<>>
    BY <1>1
  <2> HIDE DEF g
  <2> QED  BY <1>1, <2>1, <2>2 DEF Collects
<1> HIDE DEF g
<1> QED
  BY <1>2, <1>3, FlattenCollects

=============================================================================
