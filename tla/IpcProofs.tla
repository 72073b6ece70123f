------------------------------ MODULE IpcProofs ------------------------------
(***************************************************************************)
(* Proofs about IpcServer.                                                 *)
(***************************************************************************)
EXTENDS IpcServer, SequenceTheorems, FiniteSetTheorems, WellFoundedInduction, TLAPS

-----------------------------------------------------------------------------
(* Induction.  A set takes the place of the predicate, because the provers  *)
(* cannot instantiate a theorem that has an operator as a parameter.        *)

LEMMA Induction ==
  ASSUME NEW T, 0 \in T, \A n \in Nat : n \in T => n + 1 \in T
  PROVE  \A n \in Nat : n \in T
<1> DEFINE R == OpToRel(<, Nat)
           F == Nat \ T
<1>1. SUFFICES ASSUME F # {} PROVE FALSE
  OBVIOUS
<1>2. IsWellFoundedOn(R, Nat)
  BY NatLessThanWellFounded
<1>3. \A i, j \in Nat : i < j => <<i, j>> \in R
  BY DEF OpToRel
<1> HIDE DEF R
<1>4. PICK x \in F : \A y \in F : <<y, x>> \notin R
  BY <1>1, <1>2, WFMin
<1>5. x \in Nat /\ x - 1 \in Nat /\ x - 1 < x /\ x - 1 + 1 = x
  OBVIOUS
<1>6. x - 1 \in F
  BY <1>5
<1> QED BY <1>3, <1>4, <1>5, <1>6

-----------------------------------------------------------------------------
(* FlattenSeq *)

\* What FlattenSeq has put together after each of the first n sequences.
StepsTo(f, g, n) == g[0] = <<>> /\ \A i \in 1 .. n : g[i] = g[i - 1] \o f[i]

LEMMA StepsExist ==
  ASSUME NEW S, NEW f \in Seq(Seq(S)), NEW n \in Nat, n <= Len(f)
  PROVE  \E g \in [0 .. n -> Seq(S)] : StepsTo(f, g, n)
<1> DEFINE Has(m) == \E g \in [0 .. m -> Seq(S)] : StepsTo(f, g, m)
           T == {m \in Nat : m <= Len(f) => Has(m)}
<1>0. Len(f) \in Nat /\ \A i \in 1 .. Len(f) : f[i] \in Seq(S)
  BY LenProperties, ElementOfSeq
<1>1. 0 \in T
  <2> DEFINE g == [i \in 0 .. 0 |-> <<>>]
  <2>1. g \in [0 .. 0 -> Seq(S)] /\ StepsTo(f, g, 0)
    BY DEF StepsTo
  <2>2. Has(0)
    BY <2>1
  <2> HIDE DEF Has
  <2> QED BY <2>2
<1>2. ASSUME NEW m \in Nat, m \in T PROVE m + 1 \in T
  <2>1. m + 1 <= Len(f) => Has(m)
    <3> HIDE DEF Has
    <3> QED BY <1>0, <1>2
  <2>2. ASSUME m + 1 <= Len(f) PROVE Has(m + 1)
    <3>1. PICK h \in [0 .. m -> Seq(S)] : StepsTo(f, h, m)
      BY <2>1, <2>2
    <3> DEFINE last == h[m] \o f[m + 1]
               g == [i \in 0 .. m + 1 |-> IF i <= m THEN h[i] ELSE last]
    <3>2. f[m + 1] \in Seq(S) /\ h[m] \in Seq(S)
      BY <1>0, <2>2
    <3>3. last \in Seq(S)
      BY <3>2, ConcatProperties
    <3>4. \A i \in 1 .. m : h[i] = h[i - 1] \o f[i]
      BY <3>1 DEF StepsTo
    <3>5. h[0] = <<>>
      BY <3>1 DEF StepsTo
    <3> HIDE DEF last
    <3>6. g \in [0 .. m + 1 -> Seq(S)]
      BY <3>3
    <3>7. /\ \A i \in 0 .. m : g[i] = h[i]
          /\ g[m + 1] = last
      OBVIOUS
    <3> HIDE DEF g
    <3>8. ASSUME NEW i \in 1 .. m + 1 PROVE g[i] = g[i - 1] \o f[i]
      <4>1. CASE i = m + 1
        <5>1. i - 1 = m /\ m \in 0 .. m
          BY <4>1
        <5>2. g[m + 1] = g[m] \o f[m + 1]
          BY <3>7, <5>1, Zenon DEF last
        <5> QED BY <4>1, <5>1, <5>2, Zenon
      <4>2. CASE i # m + 1
        <5>1. i \in 1 .. m /\ i \in 0 .. m /\ i - 1 \in 0 .. m
          BY <4>2
        <5> QED BY <3>4, <3>7, <5>1
      <4> QED BY <4>1, <4>2
    <3>9. StepsTo(f, g, m + 1)
      <4>1. 0 \in 0 .. m
        OBVIOUS
      <4> QED BY <3>5, <3>7, <3>8, <4>1, Zenon DEF StepsTo
    <3> QED BY <3>6, <3>9
  <2> HIDE DEF Has
  <2> QED BY <1>0, <2>2
<1> HIDE DEF T
<1>3. n \in T
  BY <1>1, <1>2, Induction
<1>4. n \in T => Has(n)
  <2> HIDE DEF Has
  <2> QED BY DEF T
<1> QED BY <1>3, <1>4

\* A sequence of sequences is put together one after the other.
LEMMA FlattenSteps ==
  ASSUME NEW S, NEW f \in Seq(Seq(S))
  PROVE  \E g \in [0 .. Len(f) -> Seq(S)] :
             StepsTo(f, g, Len(f)) /\ FlattenSeq(f) = g[Len(f)]
<1>1. Len(f) \in Nat /\ \A i \in 1 .. Len(f) : f[i] \in Seq(S)
  BY LenProperties, ElementOfSeq
<1>2. PICK g \in [0 .. Len(f) -> Seq(S)] : StepsTo(f, g, Len(f))
  BY <1>1, StepsExist
<1>3. g[0] = <<>> /\ \A i \in 1 .. Len(f) : g[i] = g[i - 1] \o f[i]
  BY <1>2 DEF StepsTo
<1>4. CASE Len(f) = 0
  <2>1. f = <<>>
    BY <1>4, EmptySeq
  <2>2. FlattenSeq(f) = f
    BY <1>4, Zenon DEF FlattenSeq
  <2> QED BY <1>2, <1>3, <1>4, <2>1, <2>2
<1>5. CASE Len(f) # 0
  <2> DEFINE flat(e) == [i \in 1 .. Len(f) |-> IF i = 1 THEN f[i] ELSE e[i - 1] \o f[i]]
             h == [i \in 1 .. Len(f) |-> g[i]]
             k == CHOOSE e : e = flat(e)
             T == {i \in Nat : i + 1 <= Len(f) => k[i + 1] = g[i + 1]}
  <2>1. FlattenSeq(f) = k[Len(f)]
    BY <1>5, Zenon DEF FlattenSeq
  <2>2. g[1] = f[1]
    <3>1. g[1] = <<>> \o f[1]
      <4>1. 1 \in 1 .. Len(f) /\ 1 - 1 = 0
        BY <1>1, <1>5
      <4>2. g[1] = g[1 - 1] \o f[1]
        BY <1>3, <4>1, Zenon
      <4> QED BY <1>3, <4>1, <4>2, Zenon
    <3> QED BY <1>1, <1>5, <3>1, ConcatEmptySeq
  <2>3. \A i \in 1 .. Len(f) : i # 1 => g[i] = g[i - 1] \o f[i] /\ i - 1 \in 1 .. Len(f)
    <3>1. \A i \in 1 .. Len(f) : i # 1 => i - 1 \in 1 .. Len(f)
      BY <1>1
    <3> QED BY <1>3, <3>1, Zenon
  <2>4. \A i \in 1 .. Len(f) : h[i] = g[i]
    OBVIOUS
  <2>5. h = flat(h)
    <3>1. ASSUME NEW i \in 1 .. Len(f)
          PROVE  g[i] = IF i = 1 THEN f[i] ELSE h[i - 1] \o f[i]
      BY <2>2, <2>3, <2>4, Zenon
    <3>2. flat(h) = [i \in 1 .. Len(f) |-> g[i]]
      BY <3>1, Zenon
    <3> QED BY <3>2, Zenon
  <2> HIDE DEF h
  <2>6. k = flat(k)
    BY <2>5, Zenon
  <2> HIDE DEF k
  <2>7. \A i \in 1 .. Len(f) : k[i] = IF i = 1 THEN f[i] ELSE k[i - 1] \o f[i]
    BY <2>6, Zenon
  <2>8. 0 \in T
    <3>1. 1 \in 1 .. Len(f) /\ 0 + 1 = 1
      BY <1>1, <1>5
    <3>2. k[1] = g[1]
      BY <2>2, <2>7, <3>1, Zenon
    <3> QED BY <3>1, <3>2
  <2>9. ASSUME NEW i \in Nat, i \in T PROVE i + 1 \in T
    <3> SUFFICES ASSUME i + 1 + 1 <= Len(f) PROVE k[i + 1 + 1] = g[i + 1 + 1]
      OBVIOUS
    <3> DEFINE j == i + 1 + 1
    <3>1. j \in 1 .. Len(f) /\ j # 1 /\ j - 1 = i + 1 /\ i + 1 <= Len(f)
      BY <1>1
    <3>2. k[i + 1] = g[i + 1]
      BY <2>9, <3>1
    <3> HIDE DEF j
    <3>3. k[j] = k[j - 1] \o f[j] /\ g[j] = g[j - 1] \o f[j]
      BY <2>3, <2>7, <3>1, Zenon
    <3>4. k[j] = g[j]
      BY <3>1, <3>2, <3>3, Zenon
    <3> QED BY <3>4 DEF j
  <2> HIDE DEF T
  <2>10. Len(f) - 1 \in T
    <3>1. Len(f) - 1 \in Nat
      BY <1>1, <1>5
    <3>2. \A i \in Nat : i \in T
      BY <2>8, <2>9, Induction
    <3> QED BY <3>1, <3>2
  <2>11. k[Len(f)] = g[Len(f)]
    BY <1>1, <1>5, <2>10 DEF T
  <2> QED BY <1>2, <2>1, <2>11
<1> QED BY <1>4, <1>5

LEMMA StepsUnique ==
  ASSUME NEW f, NEW n \in Nat, NEW g, NEW h, StepsTo(f, g, n), StepsTo(f, h, n)
  PROVE  \A i \in 0 .. n : g[i] = h[i]
<1> DEFINE T == {i \in Nat : i <= n => g[i] = h[i]}
<1>1. 0 \in T
  BY Zenon DEF StepsTo
<1>2. ASSUME NEW i \in Nat, i \in T PROVE i + 1 \in T
  <2> SUFFICES ASSUME i + 1 <= n PROVE g[i + 1] = h[i + 1]
    OBVIOUS
  <2>1. i + 1 \in 1 .. n /\ i + 1 - 1 = i /\ i <= n
    OBVIOUS
  <2>2. g[i] = h[i]
    BY <1>2, <2>1
  <2> DEFINE j == i + 1
  <2>3. j \in 1 .. n /\ j - 1 = i
    BY <2>1
  <2> HIDE DEF j
  <2>4. g[j] = g[j - 1] \o f[j] /\ h[j] = h[j - 1] \o f[j]
    BY <2>3, Zenon DEF StepsTo
  <2>5. g[j] = h[j]
    BY <2>2, <2>3, <2>4, Zenon
  <2> QED BY <2>5 DEF j
<1> HIDE DEF T
<1>3. \A i \in Nat : i \in T
  BY <1>1, <1>2, Induction
<1> QED BY <1>3 DEF T

LEMMA FlattenIs ==
  ASSUME NEW S, NEW f \in Seq(Seq(S)), NEW g, StepsTo(f, g, Len(f))
  PROVE  FlattenSeq(f) = g[Len(f)]
<1>1. Len(f) \in Nat /\ Len(f) \in 0 .. Len(f)
  BY LenProperties
<1>2. PICK h \in [0 .. Len(f) -> Seq(S)] : StepsTo(f, h, Len(f)) /\ FlattenSeq(f) = h[Len(f)]
  BY FlattenSteps
<1> QED BY <1>1, <1>2, StepsUnique

LEMMA FlattenType ==
  ASSUME NEW S, NEW f \in Seq(Seq(S))
  PROVE  FlattenSeq(f) \in Seq(S)
<1>1. PICK h \in [0 .. Len(f) -> Seq(S)] : FlattenSeq(f) = h[Len(f)]
  BY FlattenSteps
<1> QED BY <1>1, LenProperties

LEMMA FlattenNothing == FlattenSeq(<<>>) = <<>>
<1>1. Len(<<>>) = 0
  OBVIOUS
<1> QED BY <1>1, Zenon DEF FlattenSeq

LEMMA Associative ==
  \A S : \A s, t, u \in Seq(S) : s \o (t \o u) = (s \o t) \o u
<1> TAKE S
<1> TAKE s, t, u \in Seq(S)
<1> QED BY ConcatAssociative

LEMMA ConcatAt ==
  \A S : \A s, t \in Seq(S) :
      /\ s \o t \in Seq(S) /\ Len(s \o t) = Len(s) + Len(t)
      /\ \A i \in 1 .. Len(s) + Len(t) : (s \o t)[i] = IF i <= Len(s) THEN s[i] ELSE t[i - Len(s)]
<1> TAKE S
<1> TAKE s, t \in Seq(S)
<1> QED BY ConcatProperties

\* Two sequences of sequences put together are those of each put together.
LEMMA FlattenConcat ==
  ASSUME NEW S, NEW a \in Seq(Seq(S)), NEW b \in Seq(Seq(S))
  PROVE  FlattenSeq(a \o b) = FlattenSeq(a) \o FlattenSeq(b)
<1> DEFINE m == Len(a)
           n == Len(b)
           f == a \o b
<1>1. m \in Nat /\ n \in Nat
  BY LenProperties
<1>2. f \in Seq(Seq(S)) /\ Len(f) = m + n
      /\ \A i \in 1 .. m + n : f[i] = IF i <= m THEN a[i] ELSE b[i - m]
  BY ConcatProperties
<1>3. PICK g \in [0 .. m -> Seq(S)] : StepsTo(a, g, m) /\ FlattenSeq(a) = g[m]
  BY FlattenSteps
<1>4. PICK h \in [0 .. n -> Seq(S)] : StepsTo(b, h, n) /\ FlattenSeq(b) = h[n]
  BY FlattenSteps
<1> DEFINE front == FlattenSeq(a)
           G == [i \in 0 .. m + n |-> IF i <= m THEN g[i] ELSE front \o h[i - m]]
<1>5. front \in Seq(S)
  BY FlattenType
<1>6. \A i \in 1 .. n : b[i] \in Seq(S)
  BY ElementOfSeq
<1> HIDE DEF m, n, f, front
<1>7. \A i \in 0 .. n : G[m + i] = front \o h[i]
  <2> TAKE i \in 0 .. n
  <2>1. CASE i = 0
    <3>1. h[0] = <<>> /\ g[m] = front
      BY <1>3, <1>4, Zenon DEF StepsTo, front
    <3>2. front \o h[0] = front
      BY <1>5, <3>1, ConcatEmptySeq
    <3>3. G[m] = g[m] /\ m + 0 = m
      BY <1>1
    <3> QED BY <2>1, <3>1, <3>2, <3>3, Zenon
  <2>2. CASE i # 0
    <3> DEFINE k == m + i
    <3>1. k \in 0 .. m + n /\ ~(k <= m) /\ k - m = i
      BY <1>1, <2>2
    <3> HIDE DEF k
    <3>2. G[k] = front \o h[k - m]
      BY <3>1, Zenon
    <3> HIDE DEF G
    <3>3. G[k] = front \o h[i]
      BY <3>1, <3>2, Zenon
    <3> QED BY <3>3, Zenon DEF k
  <2> QED BY <2>1, <2>2
<1>8. \A i \in 0 .. m : G[i] = g[i]
  BY <1>1
<1> HIDE DEF G
<1>9. StepsTo(f, G, m + n)
  <2>1. G[0] = <<>>
    <3>1. 0 \in 0 .. m
      BY <1>1
    <3> QED BY <1>3, <1>8, <3>1, Zenon DEF StepsTo
  <2>2. ASSUME NEW i \in 1 .. m + n PROVE G[i] = G[i - 1] \o f[i]
    <3>1. CASE i <= m
      <4>1. i \in 1 .. m /\ i \in 0 .. m /\ i - 1 \in 0 .. m
        BY <1>1, <3>1
      <4>2. g[i] = g[i - 1] \o a[i]
        BY <1>3, <4>1, Zenon DEF StepsTo
      <4>3. f[i] = a[i]
        BY <1>2, <3>1, Zenon
      <4> QED BY <1>8, <4>1, <4>2, <4>3, Zenon
    <3>2. CASE ~(i <= m)
      <4> DEFINE j == i - m
      <4>1. j \in 1 .. n /\ j \in 0 .. n /\ j - 1 \in 0 .. n /\ m + j = i /\ m + (j - 1) = i - 1
        BY <1>1, <3>2
      <4>2. f[i] = b[j]
        BY <1>2, <3>2, Zenon
      <4> HIDE DEF j
      <4>3. G[i] = front \o h[j] /\ G[i - 1] = front \o h[j - 1]
        BY <1>7, <4>1, Zenon
      <4>4. h[j] = h[j - 1] \o b[j]
        BY <1>4, <4>1, Zenon DEF StepsTo
      <4>5. h[j - 1] \in Seq(S) /\ b[j] \in Seq(S)
        BY <1>6, <4>1
      <4> DEFINE u == h[j - 1]
                 v == b[j]
      <4>6. u \in Seq(S) /\ v \in Seq(S)
        BY <4>5, Zenon
      <4> HIDE DEF u, v
      <4>7. front \o (u \o v) = (front \o u) \o v
        <5>1. front \in Seq(S)
          BY <1>5
        <5>2. \A s, t, w \in Seq(S) : s \o (t \o w) = (s \o t) \o w
          BY Associative
        <5> QED BY <4>6, <5>1, <5>2, Zenon
      <4> QED BY <4>2, <4>3, <4>4, <4>7, Zenon DEF u, v
    <3> QED BY <3>1, <3>2
  <2> QED BY <2>1, <2>2, Zenon DEF StepsTo
<1>10. FlattenSeq(f) = G[m + n]
  BY <1>2, <1>9, FlattenIs
<1>11. n \in 0 .. n
  BY <1>1
<1> QED BY <1>4, <1>7, <1>10, <1>11, Zenon DEF front, f

-----------------------------------------------------------------------------
(* Parts of a sequence *)

\* What follows the first i elements, up to the j-th.
Part(s, i, j) == SubSeq(s, i + 1, j)

LEMMA PartProperties ==
  ASSUME NEW S, NEW s \in Seq(S), NEW i \in Nat, NEW j \in Nat, i <= j, j <= Len(s)
  PROVE  /\ Part(s, i, j) \in Seq(S) /\ Len(Part(s, i, j)) = j - i
         /\ \A x \in 1 .. j - i : Part(s, i, j)[x] = s[i + x] /\ i + x \in 1 .. Len(s)
<1>1. Len(s) \in Nat /\ \A x \in 1 .. Len(s) : s[x] \in S
  BY LenProperties, ElementOfSeq
<1> DEFINE k == i + 1
<1>2. k \in Int /\ j \in Int /\ (\A x \in k .. j : s[x] \in S)
  BY <1>1
<1>3. j - k + 1 = j - i /\ (k <= j => j - k + 1 = j - i) /\ (~(k <= j) => j - i = 0)
  OBVIOUS
<1>4. \A x \in 1 .. j - i : k + x - 1 = i + x /\ i + x \in 1 .. Len(s)
  BY <1>1
<1> HIDE DEF k
<1>5. /\ SubSeq(s, k, j) \in Seq(S)
      /\ Len(SubSeq(s, k, j)) = IF k <= j THEN j - k + 1 ELSE 0
      /\ \A x \in 1 .. j - k + 1 : SubSeq(s, k, j)[x] = s[k + x - 1]
  BY <1>2, SubSeqProperties
<1>6. SubSeq(s, k, j) = Part(s, i, j)
  BY DEF Part, k
<1>7. \A x \in 1 .. j - i : Part(s, i, j)[x] = s[i + x]
  BY <1>3, <1>4, <1>5, <1>6
<1> QED BY <1>3, <1>4, <1>5, <1>6, <1>7

\* The same, for citing it where the names are others.
LEMMA PartAt ==
  \A S : \A s \in Seq(S) : \A u, v \in Nat : u <= v /\ v <= Len(s) =>
      /\ Part(s, u, v) \in Seq(S) /\ Len(Part(s, u, v)) = v - u
      /\ \A x \in 1 .. v - u : Part(s, u, v)[x] = s[u + x]
<1> TAKE S
<1> TAKE s \in Seq(S)
<1> TAKE u, v \in Nat
<1> SUFFICES ASSUME u <= v, v <= Len(s)
             PROVE  /\ Part(s, u, v) \in Seq(S) /\ Len(Part(s, u, v)) = v - u
                    /\ \A x \in 1 .. v - u : Part(s, u, v)[x] = s[u + x]
  OBVIOUS
<1> QED BY PartProperties

LEMMA PartEmpty ==
  ASSUME NEW s, NEW i \in Nat
  PROVE  Part(s, i, i) = <<>>
  BY SubSeqEmpty DEF Part

LEMMA PartsJoin ==
  ASSUME NEW S, NEW s \in Seq(S), NEW i \in Nat, NEW j \in Nat, NEW k \in Nat,
         i <= j, j <= k, k <= Len(s)
  PROVE  Part(s, i, j) \o Part(s, j, k) = Part(s, i, k)
<1>1. Len(s) \in Nat
  BY LenProperties
<1>2. i + 1 \in 1 .. Len(s) + 1 /\ j \in (i + 1) - 1 .. Len(s) /\ k \in j .. Len(s)
  BY <1>1
<1>3. SubSeq(s, i + 1, j) \o SubSeq(s, j + 1, k) = SubSeq(s, i + 1, k)
  BY <1>2, ConcatAdjacentSubSeq
<1> QED BY <1>3 DEF Part

LEMMA PartsJoinAt ==
  \A S : \A s \in Seq(S) : \A i, j, k \in Nat :
      i <= j /\ j <= k /\ k <= Len(s) => Part(s, i, j) \o Part(s, j, k) = Part(s, i, k)
<1> TAKE S
<1> TAKE s \in Seq(S)
<1> TAKE i, j, k \in Nat
<1> QED BY PartsJoin

LEMMA PartOfPart ==
  ASSUME NEW S, NEW s \in Seq(S), NEW i \in Nat, NEW j \in Nat, i <= j, j <= Len(s),
         NEW a \in Nat, NEW b \in Nat, a <= b, b <= j - i
  PROVE  Part(Part(s, i, j), a, b) = Part(s, i + a, i + b)
<1> DEFINE p == Part(s, i, j)
           q == Part(p, a, b)
           r == Part(s, i + a, i + b)
<1>1. p \in Seq(S) /\ Len(p) = j - i /\ \A x \in 1 .. j - i : p[x] = s[i + x]
  BY PartProperties
<1>2. Len(s) \in Nat
  BY LenProperties
<1> DEFINE ia == i + a
           ib == i + b
<1>3. ia \in Nat /\ ib \in Nat /\ ia <= ib /\ ib <= Len(s) /\ ib - ia = b - a
  BY <1>2
<1> HIDE DEF p, ia, ib
<1>4. q \in Seq(S) /\ Len(q) = b - a /\ \A x \in 1 .. b - a : q[x] = p[a + x]
  <2>1. b <= Len(p)
    BY <1>1
  <2>2. p \in Seq(S)
    BY <1>1
  <2> QED BY ONLY <2>1, <2>2, a \in Nat, b \in Nat, a <= b, PartProperties
<1> DEFINE rr == Part(s, ia, ib)
<1>5. rr \in Seq(S) /\ Len(rr) = b - a /\ \A x \in 1 .. b - a : rr[x] = s[ia + x]
  <2>0. ia \in Nat /\ ib \in Nat /\ ia <= ib /\ ib <= Len(s)
    BY <1>3
  <2>1. rr \in Seq(S) /\ Len(rr) = ib - ia /\ \A x \in 1 .. ib - ia : rr[x] = s[ia + x]
    <3>1. s \in Seq(S)
      OBVIOUS
    <3> QED BY ONLY <2>0, <3>1, PartAt, Zenon
  <2> QED BY <1>3, <2>1, Zenon
<1> HIDE DEF q, rr
<1>6. \A x \in 1 .. b - a : q[x] = rr[x]
  <2> TAKE x \in 1 .. b - a
  <2>1. a + x \in 1 .. j - i /\ i + (a + x) = ia + x
    BY DEF ia
  <2>2. q[x] = p[a + x] /\ rr[x] = s[ia + x]
    BY <1>4, <1>5
  <2>3. p[a + x] = s[i + (a + x)]
    BY <1>1, <2>1
  <2> QED BY <2>1, <2>2, <2>3
<1>7. q = rr
  BY <1>4, <1>5, <1>6, SeqEqual
<1> QED BY <1>7 DEF q, rr, p, ia, ib

LEMMA PartOfAll ==
  ASSUME NEW S, NEW s \in Seq(S)
  PROVE  Part(s, 0, Len(s)) = s
<1>1. SubSeq(s, 1, Len(s)) = s
  BY SubSeqFull
<1> QED BY <1>1 DEF Part

-----------------------------------------------------------------------------
(* The layout of a stream: where on it each line ends *)

\* e[n] is where the n-th of N lines of the given lengths ends.
Sums(N, length, e) ==
    /\ N \in Nat /\ length \in [1 .. N -> Nat \ {0}] /\ e \in [0 .. N -> Nat]
    /\ e[0] = 0
    /\ \A n \in 1 .. N : e[n] = e[n - 1] + length[n]

LEMMA SumsStep ==
  ASSUME NEW N, NEW length, NEW e, Sums(N, length, e), NEW n \in Nat, n < N
  PROVE  /\ e[n] \in Nat /\ e[n + 1] \in Nat /\ length[n + 1] \in Nat \ {0}
         /\ e[n + 1] = e[n] + length[n + 1]
<1>1. n + 1 \in 1 .. N /\ n \in 0 .. N /\ n + 1 \in 0 .. N /\ n + 1 - 1 = n
  BY DEF Sums
<1> DEFINE k == n + 1
<1>2. k \in 1 .. N /\ n \in 0 .. N /\ k \in 0 .. N /\ k - 1 = n
  BY <1>1
<1> HIDE DEF k
<1>3. e[n] \in Nat /\ e[k] \in Nat /\ length[k] \in Nat \ {0} /\ e[k] = e[k - 1] + length[k]
  BY <1>2 DEF Sums
<1> QED BY <1>2, <1>3 DEF k

LEMMA SumsGrow ==
  ASSUME NEW N, NEW length, NEW e, Sums(N, length, e)
  PROVE  \A m \in 0 .. N : \A n \in m .. N : e[m] + (n - m) <= e[n]
<1> SUFFICES ASSUME NEW m \in 0 .. N
             PROVE  \A n \in m .. N : e[m] + (n - m) <= e[n]
  OBVIOUS
<1>0. N \in Nat /\ m \in Nat /\ e[m] \in Nat
  BY DEF Sums
<1> DEFINE T == {d \in Nat : m + d <= N => e[m] + d <= e[m + d]}
<1>1. 0 \in T
  BY <1>0
<1>2. ASSUME NEW d \in Nat, d \in T PROVE d + 1 \in T
  <2> SUFFICES ASSUME m + (d + 1) <= N PROVE e[m] + (d + 1) <= e[m + (d + 1)]
    OBVIOUS
  <2> DEFINE k == m + d
  <2>1. k \in Nat /\ k < N /\ m + d <= N /\ k + 1 = m + (d + 1)
    BY <1>0
  <2>2. e[m] + d <= e[k]
    BY <1>2, <2>1
  <2> HIDE DEF k
  <2>3. e[k] \in Nat /\ e[k + 1] \in Nat /\ length[k + 1] \in Nat \ {0}
        /\ e[k + 1] = e[k] + length[k + 1]
    BY <2>1, SumsStep
  <2>4. e[m] + (d + 1) <= e[k + 1]
    BY ONLY <1>0, <2>2, <2>3, d \in Nat
  <2> QED BY <2>1, <2>4
<1>3. \A d \in Nat : d \in T
  <2> HIDE DEF T
  <2> QED BY <1>1, <1>2, Induction
<1>4. \A d \in Nat : m + d <= N => e[m] + d <= e[m + d]
  BY <1>3
<1> SUFFICES ASSUME NEW n \in m .. N PROVE e[m] + (n - m) <= e[n]
  OBVIOUS
<1> DEFINE d == n - m
<1>5. d \in Nat /\ m + d = n /\ n <= N
  BY <1>0
<1> HIDE DEF d
<1>6. e[m] + d <= e[m + d]
  BY <1>4, <1>5
<1> QED BY <1>5, <1>6 DEF d

\* Every position lies in one line, or at the end of one.
LEMMA SumsCover ==
  ASSUME NEW N, NEW length, NEW e, Sums(N, length, e), NEW q \in Nat, q <= e[N]
  PROVE  \E m \in 0 .. N : e[m] <= q /\ (m < N => q < e[m + 1])
<1>0. N \in Nat /\ e[0] = 0 /\ e[N] \in Nat
  BY DEF Sums
<1> DEFINE In(p, m) == e[m] <= p /\ (m < N => p < e[m + 1])
           T == {p \in Nat : p <= e[N] => \E m \in 0 .. N : In(p, m)}
<1>1. 0 \in T
  <2>1. 0 < N => 0 < e[0 + 1]
    <3> SUFFICES ASSUME 0 < N PROVE 0 < e[0 + 1]
      OBVIOUS
    <3>1. e[0 + 1] = e[0] + length[0 + 1] /\ length[0 + 1] \in Nat \ {0}
      BY SumsStep
    <3> QED BY <1>0, <3>1
  <2>2. In(0, 0)
    BY <1>0, <2>1
  <2>3. 0 \in 0 .. N
    BY <1>0
  <2> HIDE DEF In
  <2> QED BY <2>2, <2>3
<1>2. ASSUME NEW p \in Nat, p \in T PROVE p + 1 \in T
  <2> SUFFICES ASSUME p + 1 <= e[N] PROVE \E m \in 0 .. N : In(p + 1, m)
    OBVIOUS
  <2>1. p <= e[N] /\ p < e[N]
    BY <1>0
  <2>2. PICK m \in 0 .. N : In(p, m)
    BY <1>2, <2>1
  <2>3. m < N
    <3>1. e[m] <= p
      BY <2>2
    <3> QED BY <1>0, <2>1, <3>1
  <2>4. m \in Nat /\ m + 1 \in 0 .. N /\ e[m] \in Nat /\ e[m + 1] \in Nat
    BY <1>0, <2>3 DEF Sums
  <2>5. e[m] <= p /\ p < e[m + 1]
    BY <2>2, <2>3
  <2>6. CASE p + 1 < e[m + 1]
    <3>1. In(p + 1, m)
      BY <2>4, <2>5, <2>6
    <3> HIDE DEF In
    <3> QED BY <3>1
  <2>7. CASE ~(p + 1 < e[m + 1])
    <3> DEFINE k == m + 1
    <3>1. e[k] = p + 1
      BY <2>4, <2>5, <2>7
    <3>2. k \in Nat /\ k \in 0 .. N
      BY <2>4
    <3> HIDE DEF k
    <3>3. k < N => p + 1 < e[k + 1]
      <4> SUFFICES ASSUME k < N PROVE p + 1 < e[k + 1]
        OBVIOUS
      <4>1. e[k + 1] = e[k] + length[k + 1] /\ length[k + 1] \in Nat \ {0}
        BY <3>2, SumsStep
      <4> QED BY <3>1, <4>1
    <3>4. In(p + 1, k)
      BY <3>1, <3>3
    <3> HIDE DEF In
    <3> QED BY <3>2, <3>4
  <2> QED BY <2>6, <2>7
<1>3. \A p \in Nat : p \in T
  <2> HIDE DEF T
  <2> QED BY <1>1, <1>2, Induction
<1>4. q \in T
  BY <1>3
<1> QED BY <1>4

\* The n-th line of a client occupies what lies behind the end of the one before.
Laid(c, e) ==
    /\ Sums(Len(Script[c]), Script[c], e)
    /\ Len(Stream[c]) = e[Len(Script[c])]
    /\ \A n \in Lines(c) : \A k \in 1 .. Script[c][n] : Stream[c][e[n - 1] + k] = <<n, k>>

LineEnd(c) == CHOOSE e : Laid(c, e)

LEMMA Scripts ==
  ASSUME NEW c \in Clients
  PROVE  /\ Script[c] \in Seq(Nat \ {0})
         /\ Len(Script[c]) \in Nat
         /\ Script[c] \in [1 .. Len(Script[c]) -> Nat \ {0}]
<1>1. Script[c] \in Seq(Nat \ {0})
  BY IpcAssumption
<1> QED BY <1>1, LenProperties

LEMMA LinePiecesType ==
  ASSUME NEW c \in Clients, NEW n \in Lines(c)
  PROVE  /\ LinePieces(c, n) \in Seq(Piece(c))
         /\ Len(LinePieces(c, n)) = Script[c][n]
         /\ Script[c][n] \in Nat \ {0}
         /\ \A k \in 1 .. Script[c][n] : LinePieces(c, n)[k] = <<n, k>>
<1> DEFINE size == Script[c][n]
<1>1. size \in Nat \ {0}
  BY Scripts DEF Lines
<1>2. \A k \in 1 .. size : <<n, k>> \in {n} \X (1 .. size)
  OBVIOUS
<1>3. \A k \in 1 .. size : <<n, k>> \in Piece(c)
  BY <1>2 DEF Piece, Lines
<1> HIDE DEF size
<1> DEFINE s == [k \in 1 .. size |-> <<n, k>>]
<1>4. s \in Seq(Piece(c))
  BY <1>1, <1>3, IsASeq
<1>5. Len(s) = size /\ \A k \in 1 .. size : s[k] = <<n, k>>
  BY <1>1
<1>6. s = LinePieces(c, n)
  BY DEF LinePieces, size
<1> QED BY <1>1, <1>4, <1>5, <1>6 DEF size

LEMMA StreamLaid ==
  ASSUME NEW c \in Clients
  PROVE  Stream[c] \in Seq(Piece(c)) /\ Laid(c, LineEnd(c))
<1> DEFINE N == Len(Script[c])
           f == [n \in 1 .. N |-> LinePieces(c, n)]
           P == Piece(c)
           S == Stream[c]
<1>1. N \in Nat /\ Script[c] \in [1 .. N -> Nat \ {0}]
  BY Scripts
<1>2. \A n \in 1 .. N : /\ LinePieces(c, n) \in Seq(P) /\ Len(LinePieces(c, n)) = Script[c][n]
                        /\ Script[c][n] \in Nat \ {0}
                        /\ \A k \in 1 .. Script[c][n] : LinePieces(c, n)[k] = <<n, k>>
  BY LinePiecesType DEF Lines
<1>3. S = FlattenSeq(f)
  BY DEF Stream
<1> HIDE DEF N, P, S
<1>4. f \in Seq(Seq(P)) /\ Len(f) = N
  BY <1>1, <1>2, IsASeq
<1>5. PICK g \in [0 .. N -> Seq(P)] : StepsTo(f, g, N) /\ S = g[N]
  BY <1>3, <1>4, FlattenSteps
<1>6. S \in Seq(P)
  BY <1>1, <1>5
<1> DEFINE e == [n \in 0 .. N |-> Len(g[n])]
<1>7. g[0] = <<>> /\ \A n \in 1 .. N : g[n] = g[n - 1] \o LinePieces(c, n)
  BY <1>5 DEF StepsTo
<1>8. ASSUME NEW n \in 1 .. N
      PROVE  /\ g[n - 1] \in Seq(P) /\ e[n - 1] = Len(g[n - 1]) /\ e[n] = e[n - 1] + Script[c][n]
             /\ e[n] = Len(g[n])
             /\ \A i \in 1 .. e[n - 1] : g[n][i] = g[n - 1][i]
             /\ \A k \in 1 .. Script[c][n] : g[n][e[n - 1] + k] = <<n, k>>
  <2> DEFINE before == g[n - 1]
             line == LinePieces(c, n)
  <2>1. n - 1 \in 0 .. N /\ n \in 0 .. N
    BY <1>1
  <2>2. before \in Seq(P) /\ line \in Seq(P) /\ Len(line) = Script[c][n]
    BY <1>2, <2>1
  <2>3. g[n] = before \o line /\ e[n - 1] = Len(before) /\ e[n] = Len(g[n])
    BY <1>7, <2>1
  <2>4. \A k \in 1 .. Script[c][n] : line[k] = <<n, k>>
    BY <1>2
  <2> DEFINE size == Script[c][n]
             after == g[n]
             pos == e[n - 1]
             end == e[n]
  <2>5. size \in Nat \ {0}
    BY <1>2
  <2>6. after = before \o line /\ pos = Len(before) /\ end = Len(after)
    BY <2>3
  <2> HIDE DEF before, line, size, after, pos, end
  <2>7. Len(line) = size /\ \A k \in 1 .. size : line[k] = <<n, k>>
    BY <2>2, <2>4 DEF size
  <2>8. /\ Len(after) = Len(before) + Len(line)
        /\ \A i \in 1 .. Len(before) + Len(line) :
               after[i] = IF i <= Len(before) THEN before[i] ELSE line[i - Len(before)]
    BY <2>2, <2>6, ConcatProperties
  <2>9. pos \in Nat
    BY <2>2, <2>6, LenProperties
  <2>10. end = pos + size /\ \A i \in 1 .. pos : after[i] = before[i]
    BY <2>5, <2>6, <2>7, <2>8, <2>9
  <2>11. \A k \in 1 .. size : after[pos + k] = <<n, k>>
    <3> TAKE k \in 1 .. size
    <3>1. pos + k \in 1 .. pos + size /\ ~(pos + k <= pos) /\ pos + k - pos = k
      BY <2>5, <2>9
    <3>2. after[pos + k] = line[pos + k - pos]
      BY <2>6, <2>7, <2>8, <3>1
    <3> QED BY <2>7, <3>1, <3>2
  <2> QED BY <2>2, <2>6, <2>10, <2>11 DEF before, size, after, pos, end
<1>9. Sums(N, Script[c], e)
  <2>1. e \in [0 .. N -> Nat]
    BY <1>1, <1>5, LenProperties
  <2>2. e[0] = 0
    <3>1. 0 \in 0 .. N /\ Len(<<>>) = 0
      BY <1>1
    <3> QED BY <1>7, <3>1
  <2>3. \A n \in 1 .. N : e[n] = e[n - 1] + Script[c][n]
    BY <1>8
  <2> HIDE DEF e
  <2> QED BY <1>1, <2>1, <2>2, <2>3 DEF Sums
<1>10. N \in 0 .. N
  BY <1>1
<1>11. Len(S) = e[N]
  BY <1>5, <1>10
<1> HIDE DEF e
<1>12. \A m \in Nat : m <= N =>
          \A n \in 1 .. m : \A k \in 1 .. Script[c][n] : g[m][e[n - 1] + k] = <<n, k>>
  <2> DEFINE Holds(m) == \A n \in 1 .. m : \A k \in 1 .. Script[c][n] : g[m][e[n - 1] + k] = <<n, k>>
             T == {m \in Nat : m <= N => Holds(m)}
  <2>1. 0 \in T
    OBVIOUS
  <2>2. ASSUME NEW m \in Nat, m \in T PROVE m + 1 \in T
    <3> SUFFICES ASSUME m + 1 <= N PROVE Holds(m + 1)
      OBVIOUS
    <3>1. Holds(m)
      <4>1. m <= N
        BY <1>1
      <4> HIDE DEF Holds
      <4> QED BY <2>2, <4>1
    <3>2. m + 1 \in 1 .. N /\ m + 1 - 1 = m
      BY <1>1
    <3> DEFINE r == m + 1
    <3>3. r \in 1 .. N /\ r - 1 = m
      BY <3>2
    <3> HIDE DEF r, Holds
    <3>4. /\ \A i \in 1 .. e[m] : g[r][i] = g[m][i]
          /\ \A k \in 1 .. Script[c][r] : g[r][e[m] + k] = <<r, k>>
      BY <1>8, <3>3
    <3>5. ASSUME NEW n \in 1 .. r, NEW k \in 1 .. Script[c][n]
          PROVE  g[r][e[n - 1] + k] = <<n, k>>
      <4>1. CASE n = r
        BY <3>3, <3>4, <4>1
      <4>2. CASE n # r
        <5>1. n \in 1 .. m /\ n \in 1 .. N /\ n \in 0 .. N /\ m \in 0 .. N /\ m \in n .. N
              /\ n - 1 \in 0 .. N
          BY <1>1, <3>3, <4>2
        <5>2. e[n] = e[n - 1] + Script[c][n] /\ e[n - 1] \in Nat /\ e[n] \in Nat /\ e[m] \in Nat
              /\ Script[c][n] \in Nat
          BY <1>9, <5>1 DEF Sums
        <5>3. e[n] + (m - n) <= e[m]
          BY <1>9, <5>1, SumsGrow
        <5>4. e[n - 1] + k \in 1 .. e[m]
          BY <5>1, <5>2, <5>3
        <5>5. g[m][e[n - 1] + k] = <<n, k>>
          BY <3>1, <5>1 DEF Holds
        <5> QED BY <3>4, <5>4, <5>5
      <4> QED BY <4>1, <4>2
    <3> QED BY <3>5 DEF Holds, r
  <2>3. \A m \in Nat : m \in T
    <3> HIDE DEF T
    <3> QED BY <2>1, <2>2, Induction
  <2>4. \A m \in Nat : m <= N => Holds(m)
    <3> HIDE DEF Holds
    <3> QED BY <2>3
  <2> QED BY <2>4
<1>13. \A n \in 1 .. N : \A k \in 1 .. Script[c][n] : S[e[n - 1] + k] = <<n, k>>
  <2>1. N \in Nat /\ N <= N
    BY <1>1
  <2> QED BY <1>5, <1>12, <2>1, Zenon
<1>14. Laid(c, e)
  BY <1>9, <1>11, <1>13 DEF Laid, Lines, N, S
<1>15. Laid(c, LineEnd(c))
  BY <1>14, Zenon DEF LineEnd
<1> QED BY <1>6, <1>15 DEF S, P

\* The facts about line ends that the lemmas below use, for the client's lines.
LEMMA Ends ==
  ASSUME NEW c \in Clients
  PROVE  /\ Len(Script[c]) \in Nat /\ Len(Stream[c]) \in Nat
         /\ LineEnd(c) \in [0 .. Len(Script[c]) -> Nat]
         /\ LineEnd(c)[0] = 0 /\ LineEnd(c)[Len(Script[c])] = Len(Stream[c])
         /\ \A m \in 0 .. Len(Script[c]) : \A n \in m .. Len(Script[c]) :
                LineEnd(c)[m] + (n - m) <= LineEnd(c)[n]
         /\ \A n \in 1 .. Len(Script[c]) :
                /\ Script[c][n] \in Nat \ {0}
                /\ LineEnd(c)[n] = LineEnd(c)[n - 1] + Script[c][n]
                /\ \A k \in 1 .. Script[c][n] : Stream[c][LineEnd(c)[n - 1] + k] = <<n, k>>
<1> DEFINE e == LineEnd(c)
           N == Len(Script[c])
<1>1. Sums(N, Script[c], e)
      /\ Len(Stream[c]) = e[N]
      /\ \A n \in 1 .. N : \A k \in 1 .. Script[c][n] : Stream[c][e[n - 1] + k] = <<n, k>>
  BY StreamLaid DEF Laid, Lines
<1>2. Len(Stream[c]) \in Nat
  BY StreamLaid, LenProperties
<1> HIDE DEF e, N
<1>3. \A m \in 0 .. N : \A n \in m .. N : e[m] + (n - m) <= e[n]
  BY <1>1, SumsGrow
<1>4. /\ N \in Nat /\ e \in [0 .. N -> Nat] /\ e[0] = 0
      /\ \A n \in 1 .. N : Script[c][n] \in Nat \ {0} /\ e[n] = e[n - 1] + Script[c][n]
  BY <1>1 DEF Sums
<1> QED BY <1>1, <1>2, <1>3, <1>4 DEF e, N

LEMMA PieceAt ==
  ASSUME NEW c \in Clients, NEW i \in 1 .. Len(Stream[c])
  PROVE  \E n \in 1 .. Len(Script[c]) : \E k \in 1 .. Script[c][n] :
             i = LineEnd(c)[n - 1] + k /\ Stream[c][i] = <<n, k>>
<1> DEFINE e == LineEnd(c)
           N == Len(Script[c])
           q == i - 1
<1>1. Sums(N, Script[c], e) /\ Len(Stream[c]) = e[N]
  BY StreamLaid DEF Laid
<1>2. /\ N \in Nat /\ Len(Stream[c]) \in Nat /\ e \in [0 .. N -> Nat]
      /\ \A n \in 1 .. N : Script[c][n] \in Nat \ {0} /\ e[n] = e[n - 1] + Script[c][n]
             /\ \A k \in 1 .. Script[c][n] : Stream[c][e[n - 1] + k] = <<n, k>>
  BY Ends
<1>3. q \in Nat /\ q <= e[N] /\ q < e[N]
  BY <1>1, <1>2
<1> HIDE DEF e, N
<1>4. PICK m \in 0 .. N : e[m] <= q /\ (m < N => q < e[m + 1])
  BY <1>1, <1>3, SumsCover
<1>5. m < N
  BY <1>2, <1>3, <1>4
<1> DEFINE n == m + 1
           k == i - e[m]
<1>6. n \in 1 .. N /\ n - 1 = m /\ e[m] \in Nat
  BY <1>2, <1>5
<1> HIDE DEF n
<1>7. e[n] = e[m] + Script[c][n] /\ Script[c][n] \in Nat
  BY <1>2, <1>6
<1>8. q < e[n]
  BY <1>4, <1>5 DEF n
<1>9. k \in 1 .. Script[c][n] /\ i = e[m] + k
  BY <1>4, <1>6, <1>7, <1>8
<1> HIDE DEF k
<1>10. Stream[c][i] = <<n, k>>
  BY <1>2, <1>6, <1>9
<1> QED BY <1>6, <1>9, <1>10 DEF e, N

\* The pieces that end a line are those at the ends of lines.
LEMMA NewlineAt ==
  ASSUME NEW c \in Clients
  PROVE  /\ \A n \in 1 .. Len(Script[c]) :
                /\ LineEnd(c)[n] \in 1 .. Len(Stream[c])
                /\ Stream[c][LineEnd(c)[n]] = <<n, Script[c][n]>>
         /\ \A i \in 1 .. Len(Stream[c]) :
                IsNewline(c, Stream[c][i]) <=> \E n \in 1 .. Len(Script[c]) : i = LineEnd(c)[n]
<1> DEFINE e == LineEnd(c)
           N == Len(Script[c])
           S == Stream[c]
           L == Len(Stream[c])
<1>1. /\ N \in Nat /\ L \in Nat /\ e \in [0 .. N -> Nat] /\ e[0] = 0 /\ e[N] = L
      /\ \A m \in 0 .. N : \A n \in m .. N : e[m] + (n - m) <= e[n]
      /\ \A n \in 1 .. N : Script[c][n] \in Nat \ {0} /\ e[n] = e[n - 1] + Script[c][n]
             /\ \A k \in 1 .. Script[c][n] : S[e[n - 1] + k] = <<n, k>>
  BY Ends
<1>2. \A i \in 1 .. L : \E n \in 1 .. N : \E k \in 1 .. Script[c][n] :
         i = e[n - 1] + k /\ S[i] = <<n, k>>
  BY PieceAt
<1> HIDE DEF e, N, S, L
<1>3. ASSUME NEW n \in 1 .. N
      PROVE  e[n] \in 1 .. L /\ S[e[n]] = <<n, Script[c][n]>>
  <2>1. n \in 0 .. N /\ n \in 0 .. N /\ N \in n .. N /\ 0 \in 0 .. N
    BY <1>1
  <2>2. e[n] + (N - n) <= e[N] /\ e[0] + (n - 0) <= e[n] /\ e[n] \in Nat
    BY <1>1, <2>1
  <2>3. e[n] \in 1 .. L
    <3>1. e[0] = 0 /\ e[N] = L /\ L \in Nat /\ N \in Nat
      BY <1>1
    <3> QED BY ONLY <2>2, <3>1, n \in 1 .. N
  <2>4. Script[c][n] \in 1 .. Script[c][n]
    BY <1>1
  <2> QED BY <1>1, <2>3, <2>4
<1>4. ASSUME NEW i \in 1 .. L, NEW n \in 1 .. N, i = e[n] PROVE IsNewline(c, S[i])
  BY <1>3, <1>4 DEF IsNewline
<1>5. ASSUME NEW i \in 1 .. L, IsNewline(c, S[i]) PROVE \E n \in 1 .. N : i = e[n]
  <2>1. PICK n \in 1 .. N : \E k \in 1 .. Script[c][n] : i = e[n - 1] + k /\ S[i] = <<n, k>>
    BY <1>2
  <2>2. PICK k \in 1 .. Script[c][n] : i = e[n - 1] + k /\ S[i] = <<n, k>>
    BY <2>1
  <2>3. k = Script[c][n]
    BY <1>5, <2>2 DEF IsNewline
  <2>4. e[n] = i
    BY <1>1, <2>2, <2>3
  <2> QED BY <2>4
<1>6. \A i \in 1 .. L : IsNewline(c, S[i]) <=> \E n \in 1 .. N : i = e[n]
  BY <1>4, <1>5
<1> QED BY <1>3, <1>6 DEF e, N, S, L

\* How many lines the first q pieces complete.
Complete(c, q) == Cardinality({i \in 1 .. q : IsNewline(c, Stream[c][i])})

LEMMA CompleteIs ==
  ASSUME NEW c \in Clients, NEW q \in 0 .. Len(Stream[c]), NEW m \in 0 .. Len(Script[c]),
         LineEnd(c)[m] <= q, m < Len(Script[c]) => q < LineEnd(c)[m + 1]
  PROVE  Complete(c, q) = m
<1> DEFINE e == LineEnd(c)
           N == Len(Script[c])
           L == Len(Stream[c])
           D == {i \in 1 .. q : IsNewline(c, Stream[c][i])}
           f == [n \in 1 .. m |-> e[n]]
<1>1. /\ N \in Nat /\ L \in Nat /\ e \in [0 .. N -> Nat] /\ e[0] = 0
      /\ \A a \in 0 .. N : \A b \in a .. N : e[a] + (b - a) <= e[b]
  BY Ends
<1>2. /\ \A n \in 1 .. N : e[n] \in 1 .. L
      /\ \A i \in 1 .. L : IsNewline(c, Stream[c][i]) <=> \E n \in 1 .. N : i = e[n]
  BY NewlineAt
<1>3. m \in 0 .. N /\ q \in 0 .. L /\ e[m] <= q /\ (m < N => q < e[m + 1])
  OBVIOUS
<1> HIDE DEF e, N, L
<1>4. \A n \in 1 .. m : e[n] \in D
  <2> TAKE n \in 1 .. m
  <2>1. n \in 1 .. N /\ n \in 0 .. N /\ m \in n .. N
    BY <1>1, <1>3
  <2>2. e[n] \in 1 .. L /\ e[n] + (m - n) <= e[m] /\ e[m] \in Nat
    BY <1>1, <1>2, <1>3, <2>1
  <2>3. e[n] \in 1 .. q
    BY <1>1, <1>3, <2>1, <2>2
  <2>4. IsNewline(c, Stream[c][e[n]])
    BY <1>2, <2>1
  <2> QED BY <2>3, <2>4
<1>5. \A a, b \in 1 .. m : e[a] = e[b] => a = b
  <2> SUFFICES ASSUME NEW a \in 1 .. m, NEW b \in 1 .. m, e[a] = e[b], a < b PROVE FALSE
    BY <1>3
  <2>1. a \in 0 .. N /\ b \in a .. N
    BY <1>1, <1>3
  <2>2. e[a] + (b - a) <= e[b] /\ e[a] \in Nat
    BY <1>1, <2>1
  <2> QED BY <2>2
<1>6. ASSUME NEW i \in D PROVE \E n \in 1 .. m : i = e[n]
  <2>1. i \in 1 .. L /\ i <= q
    BY <1>1, <1>3
  <2>2. PICK n \in 1 .. N : i = e[n]
    BY <1>2, <2>1
  <2>3. n <= m
    <3> SUFFICES ASSUME m < n PROVE FALSE
      BY <1>3, <2>2
    <3>1. m < N /\ m + 1 \in 0 .. N /\ n \in m + 1 .. N
      <4>1. N \in Nat /\ m \in 0 .. N /\ n \in 1 .. N /\ m < n
        BY <1>1, <1>3
      <4> QED BY ONLY <4>1
    <3>2. e[m + 1] + (n - (m + 1)) <= e[n] /\ e[m + 1] \in Nat
      BY <1>1, <3>1
    <3>3. q < e[m + 1]
      BY <1>3, <3>1
    <3> QED BY <1>3, <2>1, <2>2, <3>1, <3>2, <3>3
  <2> QED BY <2>2, <2>3
<1> HIDE DEF D
<1>7. f \in Bijection(1 .. m, D)
  BY <1>4, <1>5, <1>6 DEF Bijection, Injection, Surjection, IsInjective
<1>8. ExistsBijection(1 .. m, D)
  BY <1>7 DEF ExistsBijection
<1>9. m \in Nat
  BY <1>3
<1>10. Cardinality(D) = m
  BY <1>8, <1>9, FS_CountingElements
<1> QED BY <1>10 DEF Complete, D

LEMMA CompleteBounds ==
  ASSUME NEW c \in Clients, NEW q \in 0 .. Len(Stream[c])
  PROVE  /\ Complete(c, q) \in 0 .. Len(Script[c])
         /\ LineEnd(c)[Complete(c, q)] <= q
         /\ Complete(c, q) < Len(Script[c]) => q < LineEnd(c)[Complete(c, q) + 1]
<1>1. Sums(Len(Script[c]), Script[c], LineEnd(c)) /\ Len(Stream[c]) = LineEnd(c)[Len(Script[c])]
  BY StreamLaid DEF Laid
<1>2. q \in Nat /\ q <= LineEnd(c)[Len(Script[c])]
  BY <1>1, Ends
<1>3. PICK m \in 0 .. Len(Script[c]) :
         LineEnd(c)[m] <= q /\ (m < Len(Script[c]) => q < LineEnd(c)[m + 1])
  BY <1>1, <1>2, SumsCover
<1>4. Complete(c, q) = m
  BY <1>3, CompleteIs
<1> QED BY <1>3, <1>4

LEMMA CompleteStep ==
  ASSUME NEW c \in Clients, NEW q \in Nat, q < Len(Stream[c])
  PROVE  IF IsNewline(c, Stream[c][q + 1])
         THEN /\ Complete(c, q + 1) = Complete(c, q) + 1
              /\ Stream[c][q + 1][1] = Complete(c, q) + 1
         ELSE Complete(c, q + 1) = Complete(c, q)
<1> DEFINE e == LineEnd(c)
           N == Len(Script[c])
           L == Len(Stream[c])
           m == Complete(c, q)
<1>1. /\ N \in Nat /\ L \in Nat /\ e \in [0 .. N -> Nat] /\ e[N] = L
      /\ \A a \in 0 .. N : \A b \in a .. N : e[a] + (b - a) <= e[b]
  BY Ends
<1>2. /\ \A n \in 1 .. N : e[n] \in 1 .. L /\ Stream[c][e[n]] = <<n, Script[c][n]>>
      /\ \A i \in 1 .. L : IsNewline(c, Stream[c][i]) <=> \E n \in 1 .. N : i = e[n]
  BY NewlineAt
<1>3. q \in 0 .. L /\ q + 1 \in 0 .. L /\ q + 1 \in 1 .. L
  BY <1>1
<1>4. m \in 0 .. N /\ e[m] <= q /\ (m < N => q < e[m + 1])
  BY <1>3, CompleteBounds
<1>5. \A p \in 0 .. L : \A n \in 0 .. N :
          e[n] <= p /\ (n < N => p < e[n + 1]) => Complete(c, p) = n
  BY CompleteIs
<1> HIDE DEF e, N, L, m
<1>6. m < N
  BY <1>1, <1>3, <1>4
<1> DEFINE k == m + 1
<1>7. k \in 0 .. N /\ k \in 1 .. N /\ q < e[k] /\ e[k] \in Nat
  BY <1>1, <1>4, <1>6
<1>8. k < N => k + 1 \in 0 .. N /\ k + 1 \in k .. N /\ (k + 1) - k = 1
  <2>1. k \in Nat /\ N \in Nat
    BY <1>1, <1>7
  <2> HIDE DEF k
  <2> QED BY ONLY <2>1
<1> HIDE DEF k
<1>9. k < N => e[k] + 1 <= e[k + 1] /\ e[k + 1] \in Nat
  BY <1>1, <1>7, <1>8
<1>10. CASE IsNewline(c, Stream[c][q + 1])
  <2>1. PICK n \in 1 .. N : q + 1 = e[n]
    BY <1>2, <1>3, <1>10
  <2>2. n \in Nat /\ ~(n < k)
    <3> SUFFICES ASSUME n < k PROVE FALSE
      BY <2>1
    <3>1. m \in n .. N /\ n \in 0 .. N
      BY <1>1, <1>4, <2>1 DEF k
    <3>2. e[n] + (m - n) <= e[m] /\ e[n] \in Nat /\ e[m] \in Nat
      BY <1>1, <1>4, <3>1
    <3> QED BY <1>4, <2>1, <3>1, <3>2
  <2>3. k \in Nat /\ ~(k < n)
    <3> SUFFICES ASSUME k < n PROVE FALSE
      BY <1>7
    <3>1. n \in k .. N
      BY <1>1, <1>7, <2>1
    <3>2. e[k] + (n - k) <= e[n] /\ e[n] \in Nat
      BY <1>1, <1>7, <2>1, <3>1
    <3> QED BY <1>3, <1>7, <2>1, <3>1, <3>2
  <2>4. n = k
    BY <2>2, <2>3
  <2>5. e[k] <= q + 1 /\ (k < N => q + 1 < e[k + 1])
    BY <1>3, <1>7, <1>9, <2>1, <2>4
  <2>6. Complete(c, q + 1) = k
    BY <1>3, <1>5, <1>7, <2>5
  <2>7. Stream[c][q + 1] = <<k, Script[c][k]>>
    BY <1>2, <1>7, <2>1, <2>4
  <2> QED BY <1>10, <2>6, <2>7 DEF k, m
<1>11. CASE ~IsNewline(c, Stream[c][q + 1])
  <2>1. q + 1 # e[k]
    BY <1>2, <1>3, <1>7, <1>11
  <2>2. q + 1 < e[m + 1] /\ e[m] <= q + 1
    <3>1. e[m] \in Nat /\ q \in Nat
      BY <1>1, <1>3, <1>4
    <3>2. q + 1 < e[k]
      BY ONLY <1>7, <2>1, <3>1
    <3> QED BY <1>4, <3>1, <3>2 DEF k
  <2>3. Complete(c, q + 1) = m
    BY <1>3, <1>4, <1>5, <2>2
  <2> QED BY <1>11, <2>3 DEF m
<1> QED BY <1>10, <1>11

LEMMA CompleteGrows ==
  ASSUME NEW c \in Clients, NEW p \in 0 .. Len(Stream[c]), NEW q \in p .. Len(Stream[c])
  PROVE  /\ Complete(c, p) <= Complete(c, q)
         /\ \A n \in 0 .. Len(Script[c]) : LineEnd(c)[n] <= q <=> n <= Complete(c, q)
<1> DEFINE e == LineEnd(c)
           N == Len(Script[c])
           L == Len(Stream[c])
           m == Complete(c, p)
           r == Complete(c, q)
<1>1. /\ N \in Nat /\ L \in Nat /\ e \in [0 .. N -> Nat]
      /\ \A a \in 0 .. N : \A b \in a .. N : e[a] + (b - a) <= e[b]
  BY Ends
<1>2. p \in Nat /\ q \in 0 .. L /\ p <= q
  BY <1>1
<1>3. m \in 0 .. N /\ e[m] <= p
  BY CompleteBounds
<1>4. r \in 0 .. N /\ e[r] <= q /\ (r < N => q < e[r + 1])
  BY <1>2, CompleteBounds
<1> HIDE DEF e, N, L, m, r
<1>5. ASSUME NEW n \in 0 .. N, n <= r PROVE e[n] <= q
  <2>1. r \in n .. N
    BY <1>1, <1>4, <1>5
  <2>2. e[n] + (r - n) <= e[r] /\ e[n] \in Nat /\ e[r] \in Nat
    BY <1>1, <1>4, <2>1
  <2> QED BY <1>2, <1>4, <1>5, <2>2
<1>6. ASSUME NEW n \in 0 .. N, e[n] <= q PROVE n <= r
  <2> SUFFICES ASSUME r < n PROVE FALSE
    BY <1>1, <1>4
  <2>1. r < N /\ r + 1 \in 0 .. N /\ n \in r + 1 .. N
    BY <1>1, <1>4
  <2> DEFINE k == r + 1
  <2>2. k \in 0 .. N /\ n \in k .. N /\ q < e[k]
    BY <1>4, <2>1
  <2> HIDE DEF k
  <2>3. e[k] + (n - k) <= e[n] /\ e[k] \in Nat /\ e[n] \in Nat
    BY <1>1, <2>2
  <2> QED BY <1>2, <1>6, <2>2, <2>3
<1>7. e[m] <= q /\ m \in 0 .. N
  BY <1>1, <1>2, <1>3
<1> QED BY <1>5, <1>6, <1>7 DEF e, N, L, m, r
-----------------------------------------------------------------------------
(* The lines of a buffer, and what is left of it *)

\* Any account of the lines taken, piece by piece, leads to LinesIn.
LEMMA LinesInIs ==
  ASSUME NEW c, NEW b, Len(b) \in Nat, NEW h, h[0] = <<>>,
         \A i \in 1 .. Len(b) :
             h[i] = IF IsNewline(c, b[i]) THEN Append(h[i - 1], b[i][1]) ELSE h[i - 1]
  PROVE  LinesIn(c, b) = h[Len(b)]
<1> DEFINE L == Len(b)
           One(before, i) == IF IsNewline(c, b[i]) THEN Append(before, b[i][1]) ELSE before
           taken(e) == [i \in 0 .. L |-> IF i = 0 THEN <<>>
                            ELSE IF IsNewline(c, b[i]) THEN Append(e[i - 1], b[i][1])
                            ELSE e[i - 1]]
           w == [i \in 0 .. L |-> h[i]]
           k == CHOOSE e : e = taken(e)
           T == {i \in Nat : i <= L => k[i] = h[i]}
<1>1. LinesIn(c, b) = k[L]
  BY Zenon DEF LinesIn
<1>2. \A i \in 0 .. L : i # 0 => i \in 1 .. L /\ i - 1 \in 0 .. L
  OBVIOUS
<1>3. \A i \in 0 .. L : w[i] = h[i]
  OBVIOUS
<1>4. w = taken(w)
  <2>1. ASSUME NEW i \in 0 .. L
        PROVE  h[i] = IF i = 0 THEN <<>>
                      ELSE IF IsNewline(c, b[i]) THEN Append(w[i - 1], b[i][1]) ELSE w[i - 1]
    <3>1. i # 0 => i \in 1 .. L /\ w[i - 1] = h[i - 1]
      BY <1>2, <1>3, Zenon
    <3> HIDE DEF w
    <3> QED BY <3>1, Zenon
  <2> QED BY <2>1, Zenon
<1> HIDE DEF w
<1>5. k = taken(k)
  BY <1>4, Zenon
<1> HIDE DEF k
<1>6. \A i \in 0 .. L : k[i] = IF i = 0 THEN <<>>
                            ELSE IF IsNewline(c, b[i]) THEN Append(k[i - 1], b[i][1])
                            ELSE k[i - 1]
  BY <1>5, Zenon
<1>7. 0 \in T
  <2>1. 0 \in 0 .. L
    OBVIOUS
  <2>2. k[0] = h[0]
    BY <1>6, <2>1, Zenon
  <2> QED BY <2>2
<1>8. ASSUME NEW i \in Nat, i \in T PROVE i + 1 \in T
  <2> SUFFICES ASSUME i + 1 <= L PROVE k[i + 1] = h[i + 1]
    OBVIOUS
  <2> DEFINE j == i + 1
  <2>1. j \in 1 .. L /\ j \in 0 .. L /\ j # 0 /\ j - 1 = i
    OBVIOUS
  <2>2. k[i] = h[i]
    BY <1>8, <2>1
  <2> HIDE DEF j
  <2>3. k[j] = h[j]
    BY <1>6, <2>1, <2>2, Zenon
  <2> QED BY <2>3 DEF j
<1> HIDE DEF T
<1>9. \A i \in Nat : i \in T
  BY <1>7, <1>8, Induction
<1>10. k[L] = h[L]
  BY <1>9 DEF T
<1> QED BY <1>1, <1>10

\* The x lines that follow the m-th.
Run(m, x) == [j \in 1 .. x |-> m + j]

LEMMA RunProperties ==
  ASSUME NEW m \in Nat, NEW x \in Nat
  PROVE  /\ Run(m, x) \in Seq(Nat) /\ Len(Run(m, x)) = x
         /\ Append(Run(m, x), m + x + 1) = Run(m, x + 1)
         /\ Run(0, m) \o Run(m, x) = Run(0, m + x)
         /\ Run(m, 0) = <<>>
<1> DEFINE r == Run(m, x)
           s == Run(m, x + 1)
           t == Run(0, m)
           u == Run(0, m + x)
           last == m + x + 1
<1>1. r \in Seq(Nat) /\ Len(r) = x /\ \A j \in 1 .. x : r[j] = m + j
  <2>1. \A j \in 1 .. x : m + j \in Nat
    OBVIOUS
  <2> QED BY <2>1, IsASeq DEF Run
<1>2. s \in Seq(Nat) /\ Len(s) = x + 1 /\ \A j \in 1 .. x + 1 : s[j] = m + j
  <2> DEFINE y == x + 1
  <2>1. y \in Nat /\ \A j \in 1 .. y : m + j \in Nat
    OBVIOUS
  <2> HIDE DEF y
  <2>2. Run(m, y) \in Seq(Nat) /\ Len(Run(m, y)) = y /\ \A j \in 1 .. y : Run(m, y)[j] = m + j
    BY <2>1, IsASeq DEF Run
  <2> QED BY <2>2 DEF y
<1>3. t \in Seq(Nat) /\ Len(t) = m /\ \A j \in 1 .. m : t[j] = j
  <2>1. \A j \in 1 .. m : 0 + j \in Nat /\ 0 + j = j
    OBVIOUS
  <2> QED BY <2>1, IsASeq DEF Run
<1>4. u \in Seq(Nat) /\ Len(u) = m + x /\ \A j \in 1 .. m + x : u[j] = j
  <2> DEFINE y == m + x
  <2>1. y \in Nat /\ \A j \in 1 .. y : 0 + j \in Nat /\ 0 + j = j
    OBVIOUS
  <2> HIDE DEF y
  <2>2. Run(0, y) \in Seq(Nat) /\ Len(Run(0, y)) = y /\ \A j \in 1 .. y : Run(0, y)[j] = j
    BY <2>1, IsASeq DEF Run
  <2> QED BY <2>2 DEF y
<1>5. Run(m, 0) = <<>>
  <2>1. Run(m, 0) \in Seq(Nat) /\ Len(Run(m, 0)) = 0
    <3>1. \A j \in 1 .. 0 : m + j \in Nat
      OBVIOUS
    <3> QED BY <3>1, IsASeq DEF Run
  <2> QED BY <2>1, EmptySeq
<1> HIDE DEF r, s, t, u, last
<1>6. Append(r, last) = s
  <2>1. last \in Nat
    BY DEF last
  <2>2. /\ Append(r, last) \in Seq(Nat) /\ Len(Append(r, last)) = x + 1
        /\ \A j \in 1 .. x + 1 : Append(r, last)[j] = IF j <= x THEN r[j] ELSE last
    BY <1>1, <2>1, AppendProperties
  <2>3. \A j \in 1 .. x + 1 : Append(r, last)[j] = s[j]
    <3> TAKE j \in 1 .. x + 1
    <3>1. CASE j <= x
      BY <1>1, <1>2, <2>2, <3>1
    <3>2. CASE ~(j <= x)
      <4>1. m + j = last
        BY <3>2 DEF last
      <4> QED BY <1>2, <2>2, <3>2, <4>1
    <3> QED BY <3>1, <3>2
  <2> QED BY <1>2, <2>2, <2>3, SeqEqual
<1>7. t \o r = u
  <2>1. /\ t \o r \in Seq(Nat) /\ Len(t \o r) = m + x
        /\ \A j \in 1 .. m + x : (t \o r)[j] = IF j <= m THEN t[j] ELSE r[j - m]
    BY <1>1, <1>3, ConcatProperties
  <2>2. \A j \in 1 .. m + x : (t \o r)[j] = u[j]
    <3> TAKE j \in 1 .. m + x
    <3>1. CASE j <= m
      BY <1>3, <1>4, <2>1, <3>1
    <3>2. CASE ~(j <= m)
      <4>1. j - m \in 1 .. x /\ m + (j - m) = j
        BY <3>2
      <4> QED BY <1>1, <1>4, <2>1, <3>2, <4>1
    <3> QED BY <3>1, <3>2
  <2> QED BY <1>4, <2>1, <2>2, SeqEqual
<1> QED BY <1>1, <1>5, <1>6, <1>7 DEF r, s, t, u, last

\* A buffer that begins behind the m-th line holds the lines that are complete
\* by its end, in order, and no other.
LEMMA BufferLines ==
  ASSUME NEW c \in Clients, NEW m \in 0 .. Len(Script[c]), NEW q \in 0 .. Len(Stream[c]),
         LineEnd(c)[m] <= q
  PROVE  /\ m <= Complete(c, q)
         /\ LinesIn(c, Part(Stream[c], LineEnd(c)[m], q)) = Run(m, Complete(c, q) - m)
<1> DEFINE e == LineEnd(c)
           N == Len(Script[c])
           S == Stream[c]
           L == Len(Stream[c])
           pos == e[m]
           b == Part(S, pos, q)
           d == q - pos
           h == [i \in 0 .. d |-> Run(m, Complete(c, pos + i) - m)]
<1>1. /\ N \in Nat /\ L \in Nat /\ S \in Seq(Piece(c)) /\ pos \in Nat
      /\ m < N => pos < e[m + 1]
  <2>1. /\ N \in Nat /\ L \in Nat /\ e \in [0 .. N -> Nat]
        /\ \A x \in 0 .. N : \A n \in x .. N : e[x] + (n - x) <= e[n]
    BY Ends
  <2>2. S \in Seq(Piece(c))
    BY StreamLaid
  <2> HIDE DEF e, N, S, L
  <2>3. ASSUME m < N PROVE e[m] < e[m + 1]
    <3> DEFINE k == m + 1
    <3>1. k \in 0 .. N /\ k \in m .. N /\ k - m = 1
      BY <2>1, <2>3 DEF N
    <3> HIDE DEF k
    <3>2. e[m] + 1 <= e[k] /\ e[m] \in Nat /\ e[k] \in Nat
      BY <2>1, <3>1 DEF N
    <3> QED BY <3>2 DEF k
  <2> QED BY <2>1, <2>2, <2>3 DEF N
<1>2. Complete(c, pos) = m
  <2>1. pos \in 0 .. L
    BY <1>1
  <2> QED BY <1>1, <2>1, CompleteIs
<1>3. \A i \in 0 .. d : Complete(c, pos + i) \in Nat /\ m <= Complete(c, pos + i)
  <2> TAKE i \in 0 .. d
  <2> DEFINE w == pos + i
  <2>1. pos \in 0 .. L /\ w \in pos .. L /\ w \in 0 .. L
    BY <1>1
  <2> HIDE DEF w, e
  <2>2. Complete(c, pos) <= Complete(c, w) /\ Complete(c, w) \in 0 .. N
    BY <2>1, CompleteGrows, CompleteBounds
  <2> QED BY <1>2, <2>2 DEF w
<1>4. \A w \in Nat : w < L =>
         IF IsNewline(c, S[w + 1])
         THEN Complete(c, w + 1) = Complete(c, w) + 1 /\ S[w + 1][1] = Complete(c, w) + 1
         ELSE Complete(c, w + 1) = Complete(c, w)
  BY CompleteStep
<1>5. d \in Nat /\ Len(b) = d /\ \A i \in 1 .. d : b[i] = S[pos + i]
  <2>1. pos <= q /\ q <= L /\ q \in Nat
    BY <1>1
  <2>2. S \in Seq(Piece(c)) /\ pos \in Nat /\ q \in Nat /\ pos <= q /\ q <= Len(S)
    BY <1>1, <2>1
  <2> HIDE DEF pos, S
  <2>3. Len(Part(S, pos, q)) = q - pos /\ \A i \in 1 .. q - pos : Part(S, pos, q)[i] = S[pos + i]
    BY ONLY <2>2, PartAt, Zenon
  <2>4. Len(b) = q - pos /\ \A i \in 1 .. q - pos : b[i] = S[pos + i]
    BY <2>3 DEF pos, S
  <2> QED BY <2>2, <2>4
<1>6. q = pos + d /\ q \in Nat /\ q <= L
  BY <1>1
<1>7. m \in Nat
  BY <1>1
<1> HIDE DEF b, d, pos, S, L
<1>8. h[0] = <<>>
  <2>1. 0 \in 0 .. d /\ pos + 0 = pos /\ m - m = 0
    BY <1>1, <1>5, <1>7
  <2>2. h[0] = Run(m, Complete(c, pos + 0) - m)
    BY <2>1, Zenon
  <2>3. h[0] = Run(m, 0)
    BY <1>2, <2>1, <2>2, Zenon
  <2> QED BY <1>7, <2>3, RunProperties
<1>9. ASSUME NEW i \in 1 .. d
      PROVE  h[i] = IF IsNewline(c, b[i]) THEN Append(h[i - 1], b[i][1]) ELSE h[i - 1]
  <2> DEFINE j == i - 1
             w == pos + j
             x == Complete(c, w) - m
  <2>1. j \in 0 .. d /\ i \in 0 .. d /\ w \in Nat /\ w < L /\ w + 1 = pos + i
    BY <1>1, <1>5, <1>6
  <2>2. Complete(c, w) \in Nat /\ m <= Complete(c, w)
    BY <1>3, <2>1
  <2>3. h[j] = Run(m, x) /\ h[i] = Run(m, Complete(c, w + 1) - m)
    BY <2>1, Zenon
  <2>4. b[i] = S[w + 1]
    BY <1>5, <2>1
  <2> HIDE DEF h, j, w
  <2>5. x \in Nat /\ Complete(c, w) = m + x
    BY <1>7, <2>2
  <2> HIDE DEF x
  <2>6. CASE IsNewline(c, b[i])
    <3>1. Complete(c, w + 1) = m + x + 1 /\ b[i][1] = m + x + 1
      BY <1>4, <2>1, <2>4, <2>5, <2>6
    <3>2. Complete(c, w + 1) - m = x + 1
      BY <1>7, <2>5, <3>1
    <3>3. Append(Run(m, x), m + x + 1) = Run(m, x + 1)
      BY <1>7, <2>5, RunProperties
    <3>4. h[i] = Append(h[j], b[i][1])
      BY <2>3, <3>1, <3>2, <3>3, Zenon
    <3> QED BY <2>6, <3>4 DEF j
  <2>7. CASE ~IsNewline(c, b[i])
    <3>1. Complete(c, w + 1) = m + x
      BY <1>4, <2>1, <2>4, <2>5, <2>7
    <3>2. Complete(c, w + 1) - m = x
      BY <1>7, <2>5, <3>1
    <3>3. h[i] = h[j]
      BY <2>3, <3>2, Zenon
    <3> QED BY <2>7, <3>3 DEF j
  <2> QED BY <2>6, <2>7
<1>10. d \in 0 .. d /\ h[d] = Run(m, Complete(c, q) - m)
  <2>1. d \in 0 .. d
    BY <1>5
  <2>2. h[d] = Run(m, Complete(c, pos + d) - m)
    BY <2>1, Zenon
  <2> QED BY <1>6, <2>1, <2>2, Zenon
<1> HIDE DEF h
<1>11. LinesIn(c, b) = h[d]
  <2>1. \A i \in 1 .. Len(b) :
            h[i] = IF IsNewline(c, b[i]) THEN Append(h[i - 1], b[i][1]) ELSE h[i - 1]
    BY <1>5, <1>9
  <2>2. Len(b) \in Nat
    BY <1>5
  <2>3. LinesIn(c, b) = h[Len(b)]
    BY <1>8, <2>1, <2>2, LinesInIs
  <2> QED BY <1>5, <2>3
<1> QED BY <1>3, <1>6, <1>10, <1>11 DEF b, S, pos

LEMMA MaxIs ==
  ASSUME NEW T \in SUBSET Int, NEW x \in T, \A y \in T : y <= x
  PROVE  Max(T) = x
<1> DEFINE z == CHOOSE y \in T : \A u \in T : y >= u
<1>1. \A y \in T : x >= y
  OBVIOUS
<1>2. z \in T /\ \A y \in T : z >= y
  BY <1>1, Zenon
<1>3. Max(T) = z
  BY Zenon DEF Max
<1> HIDE DEF z
<1> QED BY <1>2, <1>3

\* What is left begins behind the last line that is complete.
LEMMA BufferRest ==
  ASSUME NEW c \in Clients, NEW m \in 0 .. Len(Script[c]), NEW q \in 0 .. Len(Stream[c]),
         LineEnd(c)[m] <= q
  PROVE  Rest(c, Part(Stream[c], LineEnd(c)[m], q))
             = Part(Stream[c], LineEnd(c)[Complete(c, q)], q)
<1> DEFINE e == LineEnd(c)
           N == Len(Script[c])
           S == Stream[c]
           L == Len(Stream[c])
           r == Complete(c, q)
           b == Part(S, e[m], q)
           ends == {i \in 1 .. Len(b) : IsNewline(c, b[i])}
           end == e[r] - e[m]
<1>1. /\ N \in Nat /\ L \in Nat /\ e \in [0 .. N -> Nat]
      /\ \A x \in 0 .. N : \A n \in x .. N : e[x] + (n - x) <= e[n]
  BY Ends
<1>2. /\ \A n \in 1 .. N : e[n] \in 1 .. L
      /\ \A i \in 1 .. L : IsNewline(c, S[i]) <=> \E n \in 1 .. N : i = e[n]
  BY NewlineAt
<1>3. r \in 0 .. N /\ e[r] <= q /\ m <= r
  BY CompleteBounds, BufferLines
<1>4. \A n \in 0 .. N : e[n] <= q <=> n <= r
  <2>1. 0 \in 0 .. L /\ q \in 0 .. L
    BY <1>1
  <2> QED BY <2>1, CompleteGrows
<1>5. S \in Seq(Piece(c))
  BY StreamLaid
<1>6. m \in 0 .. N /\ q \in Nat /\ q <= L /\ e[m] <= q
  BY <1>1
<1> HIDE DEF e, N, S, L, r
<1> DEFINE em == e[m]
           er == e[r]
<1>7. em \in Nat /\ er \in Nat /\ em + (r - m) <= er /\ er <= q /\ em <= q
  <2>1. r \in m .. N /\ m \in 0 .. N
    BY <1>1, <1>3, <1>6
  <2> QED BY <1>1, <1>3, <1>6, <2>1
<1>8. Len(b) = q - em /\ \A i \in 1 .. q - em : b[i] = S[em + i]
  <2> HIDE DEF em
  <2>0. S \in Seq(Piece(c)) /\ em \in Nat /\ q \in Nat /\ em <= q /\ q <= Len(S)
    BY <1>5, <1>6, <1>7 DEF L, S
  <2>1. Len(Part(S, em, q)) = q - em /\ \A i \in 1 .. q - em : Part(S, em, q)[i] = S[em + i]
    BY ONLY <2>0, PartAt, Zenon
  <2> QED BY <2>1 DEF em
<1> HIDE DEF b, em, er
<1>9. Rest(c, b) = IF ends = {} THEN b ELSE SubSeq(b, Max(ends) + 1, Len(b))
  BY DEF Rest
<1>10. ASSUME NEW i \in ends
       PROVE  i \in 1 .. q - em /\ em + i <= er /\ m < r
  <2>1. i \in 1 .. q - em /\ em + i \in 1 .. L /\ IsNewline(c, S[em + i])
    BY <1>1, <1>6, <1>7, <1>8
  <2>2. PICK n \in 1 .. N : em + i = e[n]
    BY <1>2, <2>1
  <2>3. n \in 0 .. N /\ e[n] <= q
    BY <1>1, <1>6, <1>7, <2>1, <2>2
  <2>4. n <= r
    BY <1>4, <2>3
  <2>5. r \in n .. N
    BY <1>1, <1>3, <2>2, <2>4
  <2>6. e[n] + (r - n) <= er /\ e[n] \in Nat
    BY <1>1, <2>3, <2>5 DEF er
  <2>7. em + i <= er
    BY <1>7, <2>1, <2>2, <2>4, <2>5, <2>6
  <2>8. m < r
    <3> SUFFICES ASSUME ~(m < r) PROVE FALSE
      OBVIOUS
    <3>1. m = r
      BY <1>1, <1>3, <1>6
    <3>2. em = er
      BY <3>1 DEF em, er
    <3> QED BY <1>7, <2>1, <2>7, <3>2
  <2> QED BY <2>1, <2>7, <2>8
<1>11. CASE m = r
  <2>1. ends = {}
    BY <1>3, <1>6, <1>10, <1>11
  <2>2. Rest(c, b) = b
    BY <1>9, <2>1, Zenon
  <2> QED BY <1>11, <2>2 DEF b, e, S, r
<1>12. CASE m # r
  <2> DEFINE d == er - em
  <2>1. m < r /\ r \in 1 .. N
    BY <1>1, <1>3, <1>6, <1>12
  <2>2. d \in 1 .. q - em /\ em + d = er /\ d \in Nat /\ d <= q - em
    BY <1>3, <1>6, <1>7, <2>1
  <2>3. er \in 1 .. L /\ IsNewline(c, S[er])
    BY <1>2, <2>1 DEF er
  <2> HIDE DEF d
  <2>4. d \in ends
    BY <1>8, <2>2, <2>3
  <2>5. \A i \in ends : i <= d
    BY <1>7, <1>10, <2>2
  <2>6. ends \in SUBSET Int
    BY <1>10
  <2> HIDE DEF ends
  <2>7. Max(ends) = d
    BY <2>4, <2>5, <2>6, MaxIs
  <2>8. Rest(c, b) = Part(b, d, q - em)
    <3>1. ends # {}
      BY <2>4
    <3> QED BY <1>8, <1>9, <2>7, <3>1, Zenon DEF Part
  <2>9. Part(Part(S, em, q), d, q - em) = Part(S, em + d, em + (q - em))
    <3>1. q - em \in Nat /\ q <= Len(S)
      BY <1>6, <1>7 DEF L, S
    <3> QED BY <1>5, <1>6, <1>7, <2>2, <3>1, PartOfPart
  <2>10. em + (q - em) = q
    BY <1>6, <1>7
  <2>11. Rest(c, b) = Part(S, er, q)
    BY <2>2, <2>8, <2>9, <2>10 DEF b, em
  <2> QED BY <2>11 DEF b, e, S, r, er
<1> QED BY <1>11, <1>12

-----------------------------------------------------------------------------
(* What the kernel takes and gives, and answers *)

LEMMA MinOfTwo ==
  ASSUME NEW a \in Nat, NEW b \in Nat
  PROVE  /\ Min({a, b}) \in Nat /\ Min({a, b}) <= a /\ Min({a, b}) <= b
         /\ Min({a, b}) \in {a, b}
<1> DEFINE T == {a, b}
           z == CHOOSE y \in T : \A u \in T : y =< u
<1>1. \E y \in T : \A u \in T : y =< u
  OBVIOUS
<1>2. z \in T /\ \A u \in T : z =< u
  BY <1>1, Zenon
<1>3. Min(T) = z
  BY Zenon DEF Min
<1> HIDE DEF z
<1> QED BY <1>2, <1>3

\* A sequence cut in two.
LEMMA CutInTwo ==
  ASSUME NEW S, NEW s \in Seq(S), NEW k \in 0 .. Len(s)
  PROVE  /\ SubSeq(s, 1, k) = Part(s, 0, k) /\ SubSeq(s, k + 1, Len(s)) = Part(s, k, Len(s))
         /\ Part(s, 0, k) \in Seq(S) /\ Len(Part(s, 0, k)) = k
         /\ Part(s, k, Len(s)) \in Seq(S) /\ Len(Part(s, k, Len(s))) = Len(s) - k
         /\ Part(s, 0, k) \o Part(s, k, Len(s)) = s
<1> DEFINE L == Len(s)
<1>1. L \in Nat
  BY LenProperties
<1>2. k \in Nat /\ 0 <= k /\ k <= L /\ L <= L /\ 0 + 1 = 1 /\ k - 0 = k
  BY <1>1
<1>3. /\ Part(s, 0, k) \in Seq(S) /\ Len(Part(s, 0, k)) = k - 0
      /\ Part(s, k, L) \in Seq(S) /\ Len(Part(s, k, L)) = L - k
  <2>1. /\ s \in Seq(S) /\ 0 \in Nat /\ k \in Nat /\ Len(s) \in Nat
        /\ 0 <= k /\ k <= Len(s) /\ Len(s) <= Len(s)
    BY <1>1, <1>2
  <2>2. /\ Part(s, 0, k) \in Seq(S) /\ Len(Part(s, 0, k)) = k - 0
        /\ Part(s, k, Len(s)) \in Seq(S) /\ Len(Part(s, k, Len(s))) = Len(s) - k
    BY ONLY <2>1, PartAt, Zenon
  <2> QED BY <2>2
<1>4. Part(s, 0, k) \o Part(s, k, L) = Part(s, 0, L)
  BY <1>1, <1>2, PartsJoin
<1>5. Part(s, 0, L) = s
  BY PartOfAll
<1>6. SubSeq(s, 1, k) = Part(s, 0, k) /\ SubSeq(s, k + 1, L) = Part(s, k, L)
  BY <1>2, Zenon DEF Part
<1> QED BY <1>2, <1>3, <1>4, <1>5, <1>6

\* send() takes what the window has room for and leaves the rest.
LEMMA FlushParts ==
  ASSUME NEW c, NEW S, NEW out \in Seq(S), toClient[c] \in Seq(S), Len(toClient[c]) <= Window
  PROVE  /\ Sendable(c, out) \in Seq(S) /\ Unsent(c, out) \in Seq(S)
         /\ Sendable(c, out) \o Unsent(c, out) = out
         /\ toClient[c] \o Sendable(c, out) \in Seq(S)
         /\ Len(toClient[c] \o Sendable(c, out)) <= Window
<1> DEFINE room == Room(c)
           k == Min({room, Len(out)})
<1>1. Len(out) \in Nat /\ Len(toClient[c]) \in Nat /\ Window \in Nat
  BY LenProperties, IpcAssumption
<1>2. room \in Nat /\ room = Window - Len(toClient[c])
  BY <1>1 DEF Room
<1> HIDE DEF room
<1>3. k \in 0 .. Len(out) /\ k <= room
  <2>1. k \in Nat /\ k <= Len(out) /\ k <= room
    BY <1>1, <1>2, MinOfTwo
  <2> HIDE DEF k
  <2> QED BY <1>1, <2>1
<1>4. Sendable(c, out) = SubSeq(out, 1, k) /\ Unsent(c, out) = SubSeq(out, k + 1, Len(out))
  BY Zenon DEF Sendable, Unsent, room
<1> HIDE DEF k
<1>5. /\ SubSeq(out, 1, k) = Part(out, 0, k) /\ SubSeq(out, k + 1, Len(out)) = Part(out, k, Len(out))
      /\ Part(out, 0, k) \in Seq(S) /\ Len(Part(out, 0, k)) = k
      /\ Part(out, k, Len(out)) \in Seq(S)
      /\ Part(out, 0, k) \o Part(out, k, Len(out)) = out
  BY <1>3, CutInTwo
<1> DEFINE x == Sendable(c, out)
           y == Unsent(c, out)
<1>6. x \in Seq(S) /\ y \in Seq(S) /\ Len(x) = k /\ x \o y = out
  BY <1>4, <1>5
<1> HIDE DEF x, y
<1>7. toClient[c] \o x \in Seq(S) /\ Len(toClient[c] \o x) = Len(toClient[c]) + Len(x)
  BY <1>6, ConcatProperties
<1>8. Len(toClient[c] \o x) <= Window
  BY <1>1, <1>2, <1>3, <1>6, <1>7
<1> QED BY <1>6, <1>7, <1>8 DEF x, y

\* recv() takes at least one piece, and no more than its buffer holds.
LEMMA ReadParts ==
  ASSUME NEW c, NEW S, toServer[c] \in Seq(S), toServer[c] # <<>>
  PROVE  \E n \in 1 .. Len(toServer[c]) :
             /\ n <= ReadSize
             /\ Chunk(c) = Part(toServer[c], 0, n) /\ Len(Chunk(c)) = n
             /\ Remaining(c) = Part(toServer[c], n, Len(toServer[c]))
<1> DEFINE t == toServer[c]
           L == Len(toServer[c])
           n == Min({ReadSize, L})
<1>1. L \in Nat /\ L # 0 /\ ReadSize \in Nat /\ ReadSize # 0
  BY LenProperties, EmptySeq, IpcAssumption
<1>2. n \in Nat /\ n <= ReadSize /\ n <= L /\ n \in {ReadSize, L}
  BY <1>1, MinOfTwo
<1>3. Chunk(c) = SubSeq(t, 1, n)
  BY Zenon DEF Chunk
<1> HIDE DEF n
<1>4. n \in 1 .. L /\ n \in 0 .. L
  BY <1>1, <1>2
<1>5. /\ SubSeq(t, 1, n) = Part(t, 0, n) /\ SubSeq(t, n + 1, L) = Part(t, n, L)
      /\ Len(Part(t, 0, n)) = n
  BY <1>4, CutInTwo
<1>6. Remaining(c) = Part(t, n, L)
  BY <1>3, <1>5, Zenon DEF Remaining
<1> QED BY <1>2, <1>3, <1>4, <1>5, <1>6

LEMMA AnswerType ==
  ASSUME NEW c \in Clients, NEW n \in 0 .. Len(Script[c])
  PROVE  Answer(n) \in Seq(AnswerPiece(c))
<1>1. AnswerSize \in Nat
  BY IpcAssumption
<1>2. \A k \in 1 .. AnswerSize : <<n, k>> \in AnswerPiece(c)
  BY DEF AnswerPiece
<1> QED BY <1>1, <1>2, IsASeq DEF Answer

\* The answers to lines come one after the other.
LEMMA AnswersToProperties ==
  ASSUME NEW c \in Clients, NEW a \in Seq(1 .. Len(Script[c])), NEW b \in Seq(1 .. Len(Script[c]))
  PROVE  /\ AnswersTo(a) \in Seq(AnswerPiece(c))
         /\ AnswersTo(a \o b) = AnswersTo(a) \o AnswersTo(b)
         /\ AnswersTo(<<>>) = <<>>
<1> DEFINE N == Len(Script[c])
           P == AnswerPiece(c)
           each(s) == [i \in 1 .. Len(s) |-> Answer(s[i])]
<1>1. \A s : AnswersTo(s) = FlattenSeq(each(s))
  BY DEF AnswersTo
<1>2. \A n \in 1 .. N : Answer(n) \in Seq(P)
  <2>1. \A n \in 1 .. N : n \in 0 .. N
    BY Scripts
  <2> QED BY <2>1, AnswerType
<1> HIDE DEF N, P
<1>3. \A s \in Seq(1 .. N) : /\ Len(s) \in Nat /\ each(s) \in Seq(Seq(P)) /\ Len(each(s)) = Len(s)
                              /\ \A i \in 1 .. Len(s) : each(s)[i] = Answer(s[i])
  <2> TAKE s \in Seq(1 .. N)
  <2>1. Len(s) \in Nat /\ \A i \in 1 .. Len(s) : s[i] \in 1 .. N
    BY LenProperties, ElementOfSeq
  <2>2. \A i \in 1 .. Len(s) : Answer(s[i]) \in Seq(P)
    BY <1>2, <2>1
  <2> QED BY <2>1, <2>2, IsASeq
<1>4. a \in Seq(1 .. N) /\ b \in Seq(1 .. N)
  BY DEF N
<1>5. /\ a \o b \in Seq(1 .. N) /\ Len(a \o b) = Len(a) + Len(b)
      /\ \A i \in 1 .. Len(a) + Len(b) : (a \o b)[i] = IF i <= Len(a) THEN a[i] ELSE b[i - Len(a)]
  BY <1>4, ConcatProperties
<1> DEFINE ab == a \o b
           fa == each(a)
           fb == each(b)
           fab == each(ab)
<1>6. /\ fa \in Seq(Seq(P)) /\ fb \in Seq(Seq(P)) /\ fab \in Seq(Seq(P))
      /\ Len(fa) = Len(a) /\ Len(fb) = Len(b) /\ Len(fab) = Len(ab)
      /\ Len(a) \in Nat /\ Len(b) \in Nat
      /\ \A i \in 1 .. Len(a) : fa[i] = Answer(a[i])
      /\ \A i \in 1 .. Len(b) : fb[i] = Answer(b[i])
      /\ \A i \in 1 .. Len(ab) : fab[i] = Answer(ab[i])
  BY <1>3, <1>4, <1>5, Zenon
<1>7. AnswersTo(a) = FlattenSeq(fa) /\ AnswersTo(b) = FlattenSeq(fb) /\ AnswersTo(ab) = FlattenSeq(fab)
  BY <1>1, Zenon
<1>8. /\ Len(ab) = Len(a) + Len(b)
      /\ \A i \in 1 .. Len(a) + Len(b) : ab[i] = IF i <= Len(a) THEN a[i] ELSE b[i - Len(a)]
  BY <1>5
<1> HIDE DEF fa, fb, fab, ab, each
<1>9. fa \o fb = fab
  <2>1. /\ fa \o fb \in Seq(Seq(P)) /\ Len(fa \o fb) = Len(a) + Len(b)
        /\ \A i \in 1 .. Len(a) + Len(b) :
               (fa \o fb)[i] = IF i <= Len(a) THEN fa[i] ELSE fb[i - Len(a)]
    <3>1. /\ fa \o fb \in Seq(Seq(P)) /\ Len(fa \o fb) = Len(fa) + Len(fb)
          /\ \A i \in 1 .. Len(fa) + Len(fb) :
                 (fa \o fb)[i] = IF i <= Len(fa) THEN fa[i] ELSE fb[i - Len(fa)]
      <4>1. fa \in Seq(Seq(P)) /\ fb \in Seq(Seq(P))
        BY <1>6
      <4> QED BY ONLY <4>1, ConcatAt, Zenon
    <3> QED BY <1>6, <3>1
  <2>2. \A i \in 1 .. Len(a) + Len(b) : (fa \o fb)[i] = fab[i]
    <3> TAKE i \in 1 .. Len(a) + Len(b)
    <3>0. fab[i] = Answer(ab[i])
      BY <1>6, <1>8
    <3>1. CASE i <= Len(a)
      <4>1. i \in 1 .. Len(a)
        BY <1>6, <3>1
      <4>2. ab[i] = a[i] /\ (fa \o fb)[i] = fa[i] /\ fa[i] = Answer(a[i])
        BY <1>6, <1>8, <2>1, <3>1, <4>1
      <4> QED BY <3>0, <4>2
    <3>2. CASE ~(i <= Len(a))
      <4> DEFINE j == i - Len(a)
      <4>1. j \in 1 .. Len(b)
        BY <1>6, <3>2
      <4>2. ab[i] = b[j] /\ (fa \o fb)[i] = fb[j]
        BY <1>8, <2>1, <3>2
      <4> HIDE DEF j
      <4>3. fb[j] = Answer(b[j])
        BY <1>6, <4>1
      <4> QED BY <3>0, <4>2, <4>3
    <3> QED BY <3>1, <3>2
  <2> QED BY <1>6, <1>8, <2>1, <2>2, SeqEqual
<1>10. FlattenSeq(fab) = FlattenSeq(fa) \o FlattenSeq(fb)
  BY <1>6, <1>9, FlattenConcat
<1>11. FlattenSeq(fa) \in Seq(P)
  BY <1>6, FlattenType
<1>12. AnswersTo(<<>>) = <<>>
  <2>1. <<>> \in Seq(1 .. N) /\ Len(<<>>) = 0
    OBVIOUS
  <2>2. each(<<>>) \in Seq(Seq(P)) /\ Len(each(<<>>)) = 0
    BY <1>3, <2>1
  <2>3. each(<<>>) = <<>>
    BY <2>2, EmptySeq
  <2> QED BY <1>1, <2>3, FlattenNothing DEF each
<1> QED BY <1>7, <1>10, <1>11, <1>12 DEF ab, P

-----------------------------------------------------------------------------
(* The invariant, in parts: what holds between a client's stream and the    *)
(* server's account of it.  Each part is about values, so that what a step  *)
(* does to them is a lemma without states.                                  *)

\* The first lines, once each and in order, none before it was sent.
Ordered(c, sent, executed) ==
    /\ sent \in 0 .. Len(Stream[c])
    /\ Len(executed) <= Complete(c, sent)
    /\ executed = Run(0, Len(executed))

\* Nothing too long was executed, and nothing but what may be too long refused.
Limited(c, executed, refused) ==
    /\ \A i \in 1 .. Len(executed) : Script[c][executed[i]] <= MaxLine
    /\ refused => \E n \in Lines(c) : Script[c][n] > MaxLine - ReadSize + 1

\* Where inBuffer begins on the stream, and where it ends.
Taken(c, executed) == LineEnd(c)[Len(executed)]
ReadTo(c, executed, in) == Taken(c, executed) + Len(in)

\* inBuffer and the kernel's buffer are what was sent behind the executed lines,
\* without a gap, and no line in inBuffer is complete.
Buffered(c, sent, kernel, executed, in) ==
    LET read == ReadTo(c, executed, in)
    IN  /\ read + Len(kernel) = sent
        /\ in = Part(Stream[c], Taken(c, executed), read)
        /\ kernel = Part(Stream[c], read, sent)
        /\ Complete(c, read) = Len(executed)

LEMMA RunOfLines ==
  ASSUME NEW c \in Clients, NEW m \in 0 .. Len(Script[c])
  PROVE  /\ Run(0, m) \in Seq(Lines(c)) /\ Len(Run(0, m)) = m
         /\ \A i \in 1 .. m : Run(0, m)[i] = i
<1> DEFINE N == Len(Script[c])
<1>1. N \in Nat
  BY Scripts
<1>2. m \in Nat /\ \A i \in 1 .. m : 0 + i = i /\ 0 + i \in 1 .. N
  BY <1>1
<1> HIDE DEF N
<1>3. /\ Run(0, m) \in Seq(1 .. N) /\ Len(Run(0, m)) = m
      /\ \A i \in 1 .. m : Run(0, m)[i] = 0 + i
  BY <1>2, IsASeq DEF Run
<1> QED BY <1>2, <1>3 DEF N, Lines

LEMMA SendKeeps ==
  ASSUME NEW c \in Clients, NEW sent, NEW kernel \in Seq(Piece(c)), NEW executed,
         NEW in \in Seq(Piece(c)), Ordered(c, sent, executed), Len(executed) \in Nat, NEW n \in sent + 1 .. Len(Stream[c])
  PROVE  /\ Ordered(c, n, executed)
         /\ Buffered(c, sent, kernel, executed, in) =>
                Buffered(c, n, kernel \o SubSeq(Stream[c], sent + 1, n), executed, in)
         /\ SubSeq(Stream[c], sent + 1, n) \in Seq(Piece(c))
<1> DEFINE S == Stream[c]
           L == Len(S)
           P == Piece(c)
           more == SubSeq(S, sent + 1, n)
<1>1. S \in Seq(P) /\ L \in Nat
  BY StreamLaid, LenProperties
<1>2. sent \in 0 .. L /\ Len(executed) <= Complete(c, sent) /\ executed = Run(0, Len(executed))
  BY DEF Ordered
<1>3. sent \in Nat /\ n \in Nat /\ sent <= n /\ n <= L /\ n \in sent .. L /\ n \in 0 .. L
  BY <1>1, <1>2
<1> HIDE DEF S, P
<1>4. Complete(c, sent) <= Complete(c, n) /\ Complete(c, sent) \in Nat /\ Complete(c, n) \in Nat
  <2>1. Complete(c, sent) <= Complete(c, n)
    BY <1>2, <1>3, CompleteGrows DEF S
  <2>2. \A q \in 0 .. L : Complete(c, q) \in 0 .. Len(Script[c])
    BY CompleteBounds DEF S
  <2> QED BY <1>2, <1>3, <2>1, <2>2
<1>5. Ordered(c, n, executed)
  BY <1>2, <1>3, <1>4 DEF Ordered
<1>6. more = Part(S, sent, n)
  BY DEF Part
<1>7. Part(S, sent, n) \in Seq(P) /\ Len(Part(S, sent, n)) = n - sent
  <2>1. S \in Seq(P) /\ sent \in Nat /\ n \in Nat /\ sent <= n /\ n <= Len(S)
    BY <1>1, <1>3
  <2> QED BY ONLY <2>1, PartAt, Zenon
<1>8. ASSUME Buffered(c, sent, kernel, executed, in)
      PROVE  Buffered(c, n, kernel \o more, executed, in)
  <2> DEFINE read == ReadTo(c, executed, in)
  <2>1. /\ read + Len(kernel) = sent
        /\ in = Part(S, Taken(c, executed), read)
        /\ kernel = Part(S, read, sent)
        /\ Complete(c, read) = Len(executed)
    BY <1>8, Zenon DEF Buffered, S
  <2>2. read \in Nat /\ Len(kernel) \in Nat
    <3>1. Taken(c, executed) \in Nat
      <4>1. Len(executed) \in 0 .. Len(Script[c])
        <5>1. Complete(c, sent) \in 0 .. Len(Script[c])
          BY <1>2, CompleteBounds DEF S
        <5> QED BY <1>2, <5>1
      <4> QED BY <4>1, Ends DEF Taken
    <3>2. Len(in) \in Nat /\ Len(kernel) \in Nat
      BY LenProperties
    <3> QED BY <3>1, <3>2 DEF ReadTo
  <2> HIDE DEF read
  <2>3. read <= sent
    BY <2>1, <2>2
  <2>span. /\ S \in Seq(P) /\ read \in Nat /\ sent \in Nat /\ n \in Nat
        /\ read <= sent /\ sent <= n /\ read <= n /\ n <= Len(S)
    BY <1>1, <1>3, <2>2, <2>3
  <2>4. Part(S, read, sent) \o Part(S, sent, n) = Part(S, read, n)
    BY ONLY <2>span, PartsJoinAt, Zenon
  <2>5. kernel \o more = Part(S, read, n)
    BY <1>6, <2>1, <2>4
  <2>6. Len(Part(S, read, n)) = n - read
    BY ONLY <2>span, PartAt, Zenon
  <2>7. read + Len(kernel \o more) = n
    <3>1. Len(kernel \o more) = n - read
      BY <2>5, <2>6, Zenon
    <3> QED BY ONLY <2>span, <3>1
  <2> QED BY <2>1, <2>5, <2>7, Zenon DEF Buffered, S, read
<1>9. more \in Seq(P)
  BY <1>6, <1>7
<1> QED BY <1>5, <1>8, <1>9 DEF S, P

\* Where a recv of k pieces ends on the stream, and the buffer with them.
ReadOnTo(c, executed, in, k) == ReadTo(c, executed, in) + k
Filling(in, kernel, k) == in \o Part(kernel, 0, k)

\* Where the next recv leads: the buffer with what it returns is the stream from
\* the end of the last executed line on, and the kernel keeps what follows.
\* The account of a client that can still be served.
Account(c, sent, kernel, executed, in) ==
    /\ kernel \in Seq(Piece(c)) /\ in \in Seq(Piece(c)) /\ Len(executed) \in Nat
    /\ Ordered(c, sent, executed) /\ Buffered(c, sent, kernel, executed, in)

LEMMA ReadOn ==
  \A c \in Clients : \A sent, kernel, executed, in :
      Account(c, sent, kernel, executed, in) =>
          \A k \in 0 .. Len(kernel) :
              /\ Len(executed) \in 0 .. Len(Script[c]) /\ Taken(c, executed) \in Nat
              /\ ReadOnTo(c, executed, in, k) \in 0 .. Len(Stream[c])
              /\ ReadOnTo(c, executed, in, k) <= sent /\ sent \in 0 .. Len(Stream[c])
              /\ Taken(c, executed) <= ReadOnTo(c, executed, in, k)
              /\ Filling(in, kernel, k) \in Seq(Piece(c))
              /\ Len(Filling(in, kernel, k)) = ReadOnTo(c, executed, in, k) - Taken(c, executed)
              /\ Len(Filling(in, kernel, k)) = Len(in) + k
              /\ Filling(in, kernel, k)
                     = Part(Stream[c], Taken(c, executed), ReadOnTo(c, executed, in, k))
              /\ Part(kernel, k, Len(kernel))
                     = Part(Stream[c], ReadOnTo(c, executed, in, k), sent)
<1> TAKE c \in Clients
<1> TAKE sent, kernel, executed, in
<1> HAVE Account(c, sent, kernel, executed, in)
<1> TAKE k \in 0 .. Len(kernel)
<1> DEFINE q == ReadOnTo(c, executed, in, k)
           b == Filling(in, kernel, k)
<1>a. /\ kernel \in Seq(Piece(c)) /\ in \in Seq(Piece(c)) /\ Ordered(c, sent, executed)
      /\ Len(executed) \in Nat /\ Buffered(c, sent, kernel, executed, in)
  BY DEF Account
<1> DEFINE S == Stream[c]
           P == Piece(c)
           pos == Taken(c, executed)
           read == ReadTo(c, executed, in)
           front == Part(kernel, 0, k)
           size == Len(in)
           K == Len(kernel)
<1>1. S \in Seq(P) /\ Len(S) \in Nat
  BY StreamLaid, LenProperties
<1>2. sent \in 0 .. Len(S) /\ Len(executed) <= Complete(c, sent)
  BY <1>a DEF Ordered
<1>3. Len(executed) \in 0 .. Len(Script[c])
  <2>1. Complete(c, sent) \in 0 .. Len(Script[c])
    BY <1>2, CompleteBounds
  <2> QED BY <1>2, <1>a, <2>1
<1>4. pos \in Nat
  BY <1>3, Ends DEF Taken
<1>5. size \in Nat /\ K \in Nat /\ k \in Nat /\ k <= K
  BY <1>a, LenProperties
<1>6. read = pos + size
  BY DEF ReadTo
<1>7. /\ read + K = sent
      /\ in = Part(S, pos, read)
      /\ kernel = Part(S, read, sent)
  BY <1>a, Zenon DEF Buffered
<1>8. b = in \o front
  BY DEF Filling
<1>0. q = read + k
  BY DEF ReadOnTo
<1> HIDE DEF S, P, pos, read, size, q, b
<1>9. /\ read \in Nat /\ q \in Nat /\ sent \in Nat /\ pos <= read /\ read <= q /\ q <= sent
      /\ read <= sent /\ sent <= Len(S) /\ q \in 0 .. Len(S) /\ pos <= q /\ q - pos = size + k
      /\ sent - read = K
  <2> HIDE DEF K
  <2>1. sent \in 0 .. Len(S)
    BY <1>2
  <2>2. read + K = sent
    BY <1>7
  <2>3. q = read + k
    BY <1>0
  <2> QED BY ONLY <1>1, <2>1, <1>4, <1>5, <1>6, <2>2, <2>3
<1>10. /\ Part(kernel, 0, k) = Part(S, read + 0, read + k)
       /\ Part(kernel, k, K) = Part(S, read + k, read + K)
  <2>0. S \in Seq(P) /\ read \in Nat /\ sent \in Nat /\ read <= sent /\ sent <= Len(S)
        /\ k \in Nat /\ K \in Nat
    BY <1>1, <1>5, <1>9
  <2>1. Part(Part(S, read, sent), 0, k) = Part(S, read + 0, read + k)
    <3>1. 0 \in Nat /\ 0 <= k /\ k <= sent - read
      BY <1>5, <1>9
    <3> QED BY ONLY <2>0, <3>1, PartOfPart
  <2>2. Part(Part(S, read, sent), k, K) = Part(S, read + k, read + K)
    <3>1. k <= K /\ K <= sent - read
      <4> HIDE DEF K
      <4> QED BY <1>5, <1>9
    <3> HIDE DEF K
    <3> QED BY ONLY <2>0, <3>1, PartOfPart
  <2> HIDE DEF K
  <2> QED BY <1>7, <2>1, <2>2
<1>11. front = Part(S, read, q) /\ Part(kernel, k, K) = Part(S, q, sent)
  <2>1. read + 0 = read /\ read + K = sent /\ read + k = q
    BY <1>0, <1>7, <1>9
  <2> QED BY <1>10, <2>1
<1> HIDE DEF front
<1>12. Part(S, pos, read) \o Part(S, read, q) = Part(S, pos, q)
  <2>1. S \in Seq(P) /\ pos \in Nat /\ read \in Nat /\ q \in Nat /\ pos <= read /\ read <= q
        /\ q <= Len(S)
    BY <1>1, <1>4, <1>9
  <2> QED BY ONLY <2>1, PartsJoinAt, Zenon
<1>13. b = Part(S, pos, q)
  BY <1>7, <1>8, <1>11, <1>12
<1>14. b \in Seq(P) /\ Len(b) = q - pos
  <2>1. S \in Seq(P) /\ pos \in Nat /\ q \in Nat /\ pos <= q /\ q <= Len(S)
    BY <1>1, <1>4, <1>9
  <2>2. Part(S, pos, q) \in Seq(P) /\ Len(Part(S, pos, q)) = q - pos
    BY ONLY <2>1, PartAt, Zenon
  <2> QED BY <1>13, <2>2
<1>15. sent \in 0 .. Len(S) /\ q <= sent /\ q \in 0 .. Len(S) /\ pos <= q
       /\ Len(b) = size + k
  BY <1>2, <1>9, <1>14
<1> QED BY <1>3, <1>4, <1>11, <1>13, <1>14, <1>15 DEF S, P, pos, read, front, size, q, b

\* Whatever part of the complete lines is executed, they are the next ones, and
\* none is longer than the buffer that held them.
LEMMA NextLines ==
  ASSUME NEW c \in Clients, NEW sent, NEW executed, NEW refused, Ordered(c, sent, executed),
         Len(executed) \in Nat, Limited(c, executed, refused),
         NEW q \in 0 .. Len(Stream[c]), q <= sent, Taken(c, executed) <= q,
         q - Taken(c, executed) <= MaxLine,
         NEW n \in Len(executed) .. Complete(c, q)
  PROVE  /\ Run(0, n) \in Seq(Lines(c))
         /\ Ordered(c, sent, Run(0, n)) /\ Limited(c, Run(0, n), refused)
<1> DEFINE e == LineEnd(c)
           N == Len(Script[c])
           L == Len(Stream[c])
           m == Len(executed)
           r == Complete(c, q)
<1>1. /\ N \in Nat /\ L \in Nat /\ e \in [0 .. N -> Nat]
      /\ \A x \in 0 .. N : \A y \in x .. N : e[x] + (y - x) <= e[y]
      /\ \A x \in 1 .. N : Script[c][x] \in Nat /\ e[x] = e[x - 1] + Script[c][x]
  BY Ends
<1>2. sent \in 0 .. L /\ executed = Run(0, m)
  BY DEF Ordered
<1>3. r \in 0 .. N
  BY CompleteBounds
<1>4. r <= Complete(c, sent) /\ Complete(c, sent) \in 0 .. N
  <2>1. sent \in q .. L
    BY <1>1, <1>2
  <2> QED BY <1>2, <2>1, CompleteGrows, CompleteBounds
<1>5. \A x \in 0 .. N : e[x] <= q <=> x <= r
  <2>1. 0 \in 0 .. L /\ q \in 0 .. L
    BY <1>1
  <2> QED BY <2>1, CompleteGrows
<1>6. MaxLine \in Nat /\ q \in Nat /\ q - e[m] <= MaxLine
  BY IpcAssumption DEF Taken
<1>7. m \in Nat
  OBVIOUS
<1>8. n \in m .. r
  OBVIOUS
<1>9. /\ \A i \in 1 .. m : Script[c][executed[i]] <= MaxLine
      /\ refused => \E x \in Lines(c) : Script[c][x] > MaxLine - ReadSize + 1
  BY DEF Limited
<1> HIDE DEF e, N, L, m, r
<1>10. n \in 0 .. N /\ m \in 0 .. N
  BY <1>1, <1>3, <1>7, <1>8
<1>11. /\ Run(0, n) \in Seq(Lines(c)) /\ Len(Run(0, n)) = n
       /\ \A i \in 1 .. n : Run(0, n)[i] = i
       /\ \A i \in 1 .. m : executed[i] = i
  <2>1. /\ Run(0, n) \in Seq(Lines(c)) /\ Len(Run(0, n)) = n
        /\ \A i \in 1 .. n : Run(0, n)[i] = i
    BY <1>10, RunOfLines DEF N
  <2>2. \A i \in 1 .. m : Run(0, m)[i] = i
    BY <1>10, RunOfLines DEF N
  <2> QED BY <1>2, <2>1, <2>2
<1>12. Ordered(c, sent, Run(0, n))
  <2>1. n <= Complete(c, sent)
    BY <1>3, <1>4, <1>8, <1>10
  <2> QED BY <1>2, <1>11, <2>1 DEF Ordered, L
<1>13. ASSUME NEW i \in 1 .. n PROVE Script[c][i] <= MaxLine
  <2>1. CASE i <= m
    <3>1. i \in 1 .. m
      BY <1>7, <1>10, <2>1
    <3> QED BY <1>9, <1>11, <3>1
  <2>2. CASE ~(i <= m)
    <3> DEFINE j == i - 1
    <3>1. i \in 1 .. N /\ i \in 0 .. N /\ j \in m .. N /\ j \in 0 .. N /\ i <= r
      BY <1>1, <1>3, <1>7, <1>8, <1>10, <2>2
    <3>2. e[i] <= q
      BY <1>5, <3>1
    <3> HIDE DEF j
    <3>3. e[m] + (j - m) <= e[j] /\ e[m] \in Nat /\ e[j] \in Nat /\ e[i] \in Nat
      BY <1>1, <1>10, <3>1
    <3>4. Script[c][i] \in Nat /\ e[i] = e[j] + Script[c][i]
      BY <1>1, <3>1 DEF j
    <3>5. m <= j /\ j \in Nat
      BY <1>1, <1>7, <3>1
    <3> QED BY ONLY <1>6, <1>7, <3>2, <3>3, <3>4, <3>5
  <2> QED BY <2>1, <2>2
<1>14. Limited(c, Run(0, n), refused)
  BY <1>9, <1>11, <1>13 DEF Limited
<1> QED BY <1>11, <1>12, <1>14

\* What one recv brings in is executed as far as it is complete, and the rest
\* is kept: order, limit and account hold again, after all lines and after one.
LEMMA TakeLines ==
  ASSUME NEW c \in Clients, NEW sent, NEW kernel, NEW executed, NEW refused, NEW in,
         Account(c, sent, kernel, executed, in), Limited(c, executed, refused),
         NEW k \in 0 .. Len(kernel), Len(Filling(in, kernel, k)) <= MaxLine
  PROVE  LET b == Filling(in, kernel, k)
             lines == LinesIn(c, b)
             one == Append(executed, Head(lines))
         IN  /\ lines \in Seq(Lines(c))
             /\ executed \o lines \in Seq(Lines(c))
             /\ Ordered(c, sent, executed \o lines) /\ Limited(c, executed \o lines, refused)
             /\ Buffered(c, sent, Part(kernel, k, Len(kernel)), executed \o lines, Rest(c, b))
             /\ Rest(c, b) \in Seq(Piece(c)) /\ Len(Rest(c, b)) <= MaxLine
             /\ lines # <<>> => /\ one \in Seq(Lines(c)) /\ Ordered(c, sent, one)
                                /\ Limited(c, one, refused)
                                /\ executed \o lines # executed
<1> DEFINE S == Stream[c]
           N == Len(Script[c])
           b == Filling(in, kernel, k)
           q == ReadOnTo(c, executed, in, k)
           pos == Taken(c, executed)
           m == Len(executed)
           r == Complete(c, q)
           lines == LinesIn(c, b)
           after == Part(kernel, k, Len(kernel))
           one == Append(executed, Head(lines))
<1>a. /\ kernel \in Seq(Piece(c)) /\ in \in Seq(Piece(c)) /\ Ordered(c, sent, executed)
      /\ Len(executed) \in Nat /\ Buffered(c, sent, kernel, executed, in)
  BY DEF Account
<1>1. /\ m \in 0 .. N /\ pos \in Nat /\ q \in 0 .. Len(S) /\ q <= sent /\ sent \in 0 .. Len(S)
      /\ pos <= q /\ b \in Seq(Piece(c)) /\ Len(b) = q - pos /\ b = Part(S, pos, q)
      /\ after = Part(S, q, sent)
  <2> HIDE DEF b, q, m, pos, S, N
  <2> QED BY ReadOn DEF b, q, m, pos, S, N
<1>2. N \in Nat /\ S \in Seq(Piece(c)) /\ Len(S) \in Nat /\ MaxLine \in Nat /\ m \in Nat
  BY <1>a, Scripts, StreamLaid, LenProperties, IpcAssumption
<1>3. pos = LineEnd(c)[m]
  BY DEF Taken
<1>4. Len(b) <= MaxLine /\ executed = Run(0, m)
  BY <1>a DEF Ordered
<1> HIDE DEF b, q, pos, m, after
<1>5. m <= r /\ lines = Run(m, r - m) /\ Rest(c, b) = Part(S, LineEnd(c)[r], q)
  <2>1. LineEnd(c)[m] <= q /\ q \in 0 .. Len(Stream[c]) /\ m \in 0 .. Len(Script[c])
    BY <1>1, <1>3
  <2>2. /\ m <= Complete(c, q)
        /\ LinesIn(c, Part(Stream[c], LineEnd(c)[m], q)) = Run(m, Complete(c, q) - m)
    BY <2>1, BufferLines
  <2>3. Rest(c, Part(Stream[c], LineEnd(c)[m], q)) = Part(Stream[c], LineEnd(c)[Complete(c, q)], q)
    BY <2>1, BufferRest
  <2> QED BY <1>1, <1>3, <2>2, <2>3
<1>6. r \in 0 .. N /\ LineEnd(c)[r] <= q /\ LineEnd(c)[r] \in Nat
  BY <1>1, CompleteBounds, Ends
<1> HIDE DEF r, lines
<1>7. \A n \in m .. r : /\ Run(0, n) \in Seq(Lines(c)) /\ Len(Run(0, n)) = n
                        /\ Ordered(c, sent, Run(0, n)) /\ Limited(c, Run(0, n), refused)
  <2> TAKE n \in m .. r
  <2>1. Ordered(c, sent, executed) /\ Limited(c, executed, refused) /\ Len(executed) \in Nat
    BY <1>a
  <2>2. /\ q \in 0 .. Len(Stream[c]) /\ q <= sent /\ Taken(c, executed) <= q
        /\ q - Taken(c, executed) <= MaxLine /\ n \in Len(executed) .. Complete(c, q)
    BY <1>1, <1>4 DEF pos, m, r
  <2>3. /\ Run(0, n) \in Seq(Lines(c)) /\ Ordered(c, sent, Run(0, n))
        /\ Limited(c, Run(0, n), refused)
    BY <2>1, <2>2, NextLines
  <2>4. n \in 0 .. N
    BY <1>1, <1>2, <1>6
  <2>5. Len(Run(0, n)) = n
    BY <2>4, RunOfLines
  <2> QED BY <2>3, <2>5
<1> DEFINE x == r - m
<1>8. x \in Nat /\ m + x = r /\ r \in m .. r
  BY <1>1, <1>2, <1>5, <1>6
<1>9. lines = Run(m, x) /\ Len(Run(m, x)) = x /\ Run(0, m) \o Run(m, x) = Run(0, r)
      /\ Run(m, 0) = <<>>
  <2>1. lines = Run(m, x)
    BY <1>5
  <2> HIDE DEF x
  <2>2. Len(Run(m, x)) = x /\ Run(0, m) \o Run(m, x) = Run(0, m + x) /\ Run(m, 0) = <<>>
    BY <1>2, <1>8, RunProperties
  <2> QED BY <1>8, <2>1, <2>2
<1>10. executed \o lines = Run(0, r)
  BY <1>4, <1>9
<1>11. lines \in Seq(Lines(c))
  <2> HIDE DEF x
  <2>1. \A i \in 1 .. x : m + i \in Lines(c)
    BY <1>1, <1>2, <1>6, <1>8 DEF Lines
  <2> QED BY <1>8, <1>9, <2>1, IsASeq DEF Run
<1>12. Rest(c, b) \in Seq(Piece(c)) /\ Len(Rest(c, b)) = q - LineEnd(c)[r]
  <2> DEFINE end == LineEnd(c)[r]
  <2>1. S \in Seq(Piece(c)) /\ end \in Nat /\ q \in Nat /\ end <= q /\ q <= Len(S)
    BY <1>1, <1>2, <1>6
  <2> HIDE DEF end
  <2>2. Part(S, end, q) \in Seq(Piece(c)) /\ Len(Part(S, end, q)) = q - end
    BY ONLY <2>1, PartAt, Zenon
  <2> QED BY <1>5, <2>2 DEF end
<1>13. Len(Rest(c, b)) <= MaxLine
  <2>1. pos <= LineEnd(c)[r]
    <3>1. r \in m .. N
      BY <1>1, <1>2, <1>5, <1>6
    <3>2. LineEnd(c)[m] + (r - m) <= LineEnd(c)[r]
      BY <1>1, <3>1, Ends
    <3>3. pos = LineEnd(c)[m] /\ pos \in Nat /\ r \in Nat /\ m \in Nat /\ m <= r
          /\ LineEnd(c)[r] \in Nat
      BY <1>1, <1>2, <1>3, <1>5, <1>6
    <3> QED BY ONLY <3>2, <3>3
  <2>2. /\ q \in Nat /\ pos \in Nat /\ LineEnd(c)[r] \in Nat /\ MaxLine \in Nat
        /\ Len(b) = q - pos /\ Len(b) <= MaxLine /\ Len(Rest(c, b)) = q - LineEnd(c)[r]
    BY <1>1, <1>2, <1>4, <1>6, <1>12
  <2> QED BY ONLY <2>1, <2>2
<1>14. Buffered(c, sent, after, executed \o lines, Rest(c, b))
  <2> DEFINE all == executed \o lines
             left == Rest(c, b)
             read == ReadTo(c, all, left)
  <2>1. Len(all) = r
    BY <1>7, <1>8, <1>10
  <2>2. Taken(c, all) = LineEnd(c)[r]
    BY <2>1 DEF Taken
  <2>3. read = q
    <3>1. read = LineEnd(c)[r] + (q - LineEnd(c)[r])
      BY <1>12, <2>2 DEF ReadTo
    <3>2. q \in Nat
      BY <1>1
    <3> QED BY <1>6, <3>1, <3>2
  <2> HIDE DEF all, left, read
  <2>4. left = Part(S, Taken(c, all), q)
    BY <1>5, <2>2 DEF left
  <2>5. after = Part(S, q, sent) /\ Complete(c, q) = Len(all)
    BY <1>1, <2>1 DEF r
  <2>6. q + Len(after) = sent
    <3>1. S \in Seq(Piece(c)) /\ q \in Nat /\ sent \in Nat /\ q <= sent /\ sent <= Len(S)
      BY <1>1, <1>2
    <3>2. Len(Part(S, q, sent)) = sent - q
      BY ONLY <3>1, PartAt, Zenon
    <3>3. Len(after) = sent - q
      BY <1>1, <3>2
    <3> QED BY ONLY <3>1, <3>3
  <2>7. Buffered(c, sent, after, all, left)
    BY <2>3, <2>4, <2>5, <2>6, Zenon DEF Buffered, read
  <2> QED BY <2>7 DEF all, left
<1>15. ASSUME lines # <<>>
       PROVE  /\ one \in Seq(Lines(c)) /\ Ordered(c, sent, one) /\ Limited(c, one, refused)
              /\ executed \o lines # executed
  <2>1. x # 0
    <3>1. CASE x = 0
      <4>1. lines = <<>>
        BY <1>9, <3>1
      <4> QED BY <1>15, <4>1
    <3> QED BY <3>1
  <2> DEFINE n == m + 1
  <2>2. n \in m .. r /\ 1 \in 1 .. x /\ 0 + m + 1 = n
    BY <1>2, <1>6, <1>8, <2>1
  <2> HIDE DEF x
  <2>3. Head(lines) = n
    <3>1. lines[1] = m + 1
      BY <1>9, <2>2 DEF Run
    <3> QED BY <1>11, <1>15, <3>1
  <2>4. Append(Run(0, m), 0 + m + 1) = Run(0, m + 1)
    BY <1>2, RunProperties
  <2>5. one = Run(0, n)
    BY <1>4, <2>2, <2>3, <2>4
  <2>6. executed \o lines # executed
    <3>1. Len(Run(0, r)) = r /\ Len(Run(0, m)) = m
      <4>1. m \in m .. r
        BY <1>2, <1>5, <1>6
      <4> QED BY <1>7, <1>8, <4>1
    <3>2. r # m
      BY <1>2, <1>8, <2>1
    <3> QED BY <1>4, <1>10, <3>1, <3>2
  <2> HIDE DEF n
  <2> QED BY <1>7, <2>2, <2>5, <2>6
<1>16. /\ executed \o lines \in Seq(Lines(c))
       /\ Ordered(c, sent, executed \o lines) /\ Limited(c, executed \o lines, refused)
  BY <1>7, <1>8, <1>10
<1> QED BY <1>11, <1>12, <1>13, <1>14, <1>15, <1>16 DEF b, lines, after

\* A buffer that one recv pushes over the limit holds a line that is too long.
LEMMA RefusedIsLong ==
  ASSUME NEW c \in Clients, NEW sent, NEW kernel, NEW executed, NEW in,
         Account(c, sent, kernel, executed, in),
         NEW k \in 0 .. Len(kernel), k <= ReadSize, Len(Filling(in, kernel, k)) > MaxLine
  PROVE  \E n \in Lines(c) : Script[c][n] > MaxLine - ReadSize + 1
<1> DEFINE N == Len(Script[c])
           e == LineEnd(c)
           m == Len(executed)
           read == ReadTo(c, executed, in)
           size == Len(in)
<1>a. /\ kernel \in Seq(Piece(c)) /\ in \in Seq(Piece(c)) /\ Ordered(c, sent, executed)
      /\ Len(executed) \in Nat /\ Buffered(c, sent, kernel, executed, in)
  BY DEF Account
<1>1. /\ m \in 0 .. N /\ Taken(c, executed) \in Nat
      /\ Len(Filling(in, kernel, k)) = size + k
  BY ReadOn
<1>2. size \in Nat /\ MaxLine \in Nat /\ ReadSize \in Nat /\ ReadSize <= MaxLine /\ k \in Nat
      /\ N \in Nat /\ ReadSize > 0
  BY <1>a, LenProperties, IpcAssumption, Scripts
<1>3. Taken(c, executed) = e[m] /\ read = e[m] + size
  BY DEF Taken, ReadTo
<1>4. Complete(c, read) = m
  BY <1>a, Zenon DEF Buffered
<1>5. read \in 0 .. Len(Stream[c])
  <2>1. 0 \in 0 .. Len(kernel)
    BY <1>a, LenProperties
  <2>2. ReadOnTo(c, executed, in, 0) \in 0 .. Len(Stream[c])
    BY <2>1, ReadOn
  <2>3. read \in Nat
    BY <1>1, <1>2, <1>3
  <2> HIDE DEF read
  <2> QED BY <2>2, <2>3 DEF ReadOnTo, read
<1>6. m < N => read < e[m + 1]
  BY <1>4, <1>5, CompleteBounds
<1>7. \A n \in 1 .. N : Script[c][n] \in Nat /\ e[n] = e[n - 1] + Script[c][n]
  BY Ends
<1>8. e[N] = Len(Stream[c]) /\ e[m] \in Nat /\ Len(Stream[c]) \in Nat
  BY <1>1, Ends
<1> HIDE DEF e, N, m, read, size
<1>9. size > MaxLine - ReadSize
  BY <1>1, <1>2
<1>10. m < N
  <2> SUFFICES ASSUME m = N PROVE FALSE
    BY <1>1, <1>2
  <2>1. read <= e[m]
    BY <1>5, <1>8
  <2> QED BY <1>2, <1>3, <1>8, <1>9, <2>1
<1> DEFINE n == m + 1
<1>11. n \in 1 .. N /\ n - 1 = m /\ read < e[n]
  BY <1>1, <1>2, <1>6, <1>10
<1> HIDE DEF n
<1>12. Script[c][n] \in Nat /\ e[n] = e[m] + Script[c][n]
  BY <1>7, <1>11
<1>13. Script[c][n] > size
  BY <1>2, <1>3, <1>8, <1>11, <1>12
<1>14. Script[c][n] > MaxLine - ReadSize + 1
  BY <1>2, <1>9, <1>12, <1>13
<1> QED BY <1>11, <1>14 DEF Lines, N

-----------------------------------------------------------------------------
(* What the client has of its answers *)

Begins(c, s, t) == \E rest \in Seq(AnswerPiece(c)) : s \o rest = t

\* What it has heard, what is in the kernel and what waits in outBuffer are the
\* answers to what was executed, as long as both ends are there; what it can have
\* after that begins these answers, or these and a refusal.
Heard(c, ended, closed, kernel, heard, out, executed) ==
    /\ closed => kernel = <<>>
    /\ ~ended => Begins(c, heard \o kernel, AnswersTo(executed))
    /\ ~ended /\ ~closed => (heard \o kernel) \o out = AnswersTo(executed)
    /\ Begins(c, heard \o kernel, AnswersTo(executed) \o Answer(0))

LEMMA PiecesAssociative ==
  \A c : \A v, w, z \in Seq(AnswerPiece(c)) : v \o (w \o z) = (v \o w) \o z
<1> TAKE c
<1> QED BY Associative

LEMMA BeginsMore ==
  ASSUME NEW c \in Clients, NEW s \in Seq(AnswerPiece(c)), NEW t,
         NEW u \in Seq(AnswerPiece(c)), Begins(c, s, t)
  PROVE  Begins(c, s, t \o u)
<1> DEFINE P == AnswerPiece(c)
<1>1. PICK rest \in Seq(P) : s \o rest = t
  BY DEF Begins
<1>2. s \in Seq(P) /\ u \in Seq(P)
  OBVIOUS
<1> HIDE DEF P
<1>3. s \o (rest \o u) = (s \o rest) \o u
  <2>1. \A v, w, z \in Seq(P) : v \o (w \o z) = (v \o w) \o z
    BY ONLY Associative
  <2> QED BY <1>2, <2>1, Zenon
<1>4. rest \o u \in Seq(P)
  BY <1>2, ConcatProperties
<1>5. s \o (rest \o u) = t \o u
  BY <1>1, <1>3
<1> QED BY <1>4, <1>5, Zenon DEF Begins, P

LEMMA BeginsLess ==
  ASSUME NEW c \in Clients, NEW s \in Seq(AnswerPiece(c)), NEW t,
         NEW u \in Seq(AnswerPiece(c)), Begins(c, s \o u, t)
  PROVE  Begins(c, s, t)
<1> DEFINE P == AnswerPiece(c)
<1>1. PICK rest \in Seq(P) : (s \o u) \o rest = t
  BY DEF Begins
<1>2. s \in Seq(P) /\ u \in Seq(P)
  OBVIOUS
<1> HIDE DEF P
<1>3. s \o (u \o rest) = (s \o u) \o rest
  <2>1. \A v, w, z \in Seq(P) : v \o (w \o z) = (v \o w) \o z
    BY ONLY Associative
  <2> QED BY <1>2, <2>1, Zenon
<1>4. u \o rest \in Seq(P)
  BY <1>2, ConcatProperties
<1>5. s \o (u \o rest) = t
  BY <1>1, <1>3
<1> QED BY <1>4, <1>5, Zenon DEF Begins, P

\* The client goes on: it reads what the kernel has, or is gone.
LEMMA ClientKeepsHeard ==
  ASSUME NEW c \in Clients, NEW ended, NEW closed, NEW kernel \in Seq(AnswerPiece(c)),
         NEW heard \in Seq(AnswerPiece(c)), NEW out, NEW executed,
         Heard(c, ended, closed, kernel, heard, out, executed)
  PROVE  /\ Heard(c, ended, closed, <<>>, heard \o kernel, out, executed)
         /\ Heard(c, ended, TRUE, <<>>, heard, out, executed)
         /\ Heard(c, TRUE, closed, kernel, heard, <<>>, executed)
<1> DEFINE all == AnswersTo(executed)
<1>1. heard \o kernel \in Seq(AnswerPiece(c))
  BY ConcatProperties
<1>2. (heard \o kernel) \o <<>> = heard \o kernel /\ heard \o <<>> = heard
  BY <1>1, ConcatEmptySeq
<1>3. /\ closed => kernel = <<>>
      /\ ~ended => Begins(c, heard \o kernel, all)
      /\ ~ended /\ ~closed => (heard \o kernel) \o out = all
      /\ Begins(c, heard \o kernel, all \o Answer(0))
  BY Zenon DEF Heard
<1>4. (~ended => Begins(c, heard, all)) /\ Begins(c, heard, all \o Answer(0))
  <2>1. \A t : Begins(c, heard \o kernel, t) => Begins(c, heard, t)
    BY BeginsLess
  <2> QED BY <1>3, <2>1, Zenon
<1> HIDE DEF all
<1>5. Heard(c, ended, closed, <<>>, heard \o kernel, out, executed)
  BY <1>2, <1>3, Zenon DEF Heard, all
<1>6. Heard(c, ended, TRUE, <<>>, heard, out, executed)
  BY <1>2, <1>4, Zenon DEF Heard, all
<1>7. Heard(c, TRUE, closed, kernel, heard, <<>>, executed)
  BY <1>3, Zenon DEF Heard, all
<1> QED BY <1>5, <1>6, <1>7

\* The server sends x of what it has and keeps y.
LEMMA SendKeepsHeard ==
  ASSUME NEW c \in Clients, NEW kernel, NEW heard, NEW out, NEW executed, NEW lines, NEW x, NEW y,
         {kernel, heard, out, x, y} \subseteq Seq(AnswerPiece(c)),
         {executed, lines} \subseteq Seq(Lines(c)),
         Heard(c, FALSE, FALSE, kernel, heard, out, executed)
  PROVE  /\ x \o y = out \o AnswersTo(lines) =>
                Heard(c, FALSE, FALSE, kernel \o x, heard, y, executed \o lines)
         /\ x \o y = out \o Answer(0) =>
                Heard(c, TRUE, FALSE, kernel \o x, heard, <<>>, executed)
<1> DEFINE P == AnswerPiece(c)
           all == AnswersTo(executed)
           more == AnswersTo(lines)
           given == heard \o kernel
<1>1. all \in Seq(P) /\ more \in Seq(P) /\ AnswersTo(executed \o lines) = all \o more
  <2>1. executed \in Seq(1 .. Len(Script[c])) /\ lines \in Seq(1 .. Len(Script[c]))
    BY DEF Lines
  <2> QED BY <2>1, AnswersToProperties
<1>2. Answer(0) \in Seq(P)
  <2>1. 0 \in 0 .. Len(Script[c])
    BY Scripts
  <2> QED BY <2>1, AnswerType
<1>5. kernel \in Seq(P) /\ heard \in Seq(P) /\ out \in Seq(P) /\ x \in Seq(P) /\ y \in Seq(P)
  OBVIOUS
<1>3. given \in Seq(P)
  BY <1>5, ConcatProperties
<1>4. given \o out = all
  BY Zenon DEF Heard
<1> HIDE DEF P, all, more
<1>a. \A v, w, z \in Seq(P) : v \o (w \o z) = (v \o w) \o z
  BY ONLY PiecesAssociative DEF P
<1>6. heard \o (kernel \o x) = given \o x
  <2>1. heard \in Seq(P) /\ kernel \in Seq(P) /\ x \in Seq(P)
    BY <1>5
  <2>2. heard \o (kernel \o x) = (heard \o kernel) \o x
    BY ONLY <1>a, <2>1, Zenon
  <2> QED BY <2>2
<1>7. given \o x \in Seq(P)
  <2> HIDE DEF given
  <2> QED BY <1>3, <1>5, ConcatProperties
<1> HIDE DEF given
\* What is sent, and what is then kept, follows what was given before.
<1>8. \A w \in Seq(P) : x \o y = out \o w => (given \o x) \o y = all \o w
  <2> TAKE w \in Seq(P)
  <2> HAVE x \o y = out \o w
  <2>1. given \in Seq(P) /\ x \in Seq(P) /\ y \in Seq(P) /\ out \in Seq(P)
    BY <1>3, <1>5
  <2>2. given \o (x \o y) = (given \o x) \o y
    BY ONLY <1>a, <2>1, Zenon
  <2>3. given \o (out \o w) = (given \o out) \o w
    BY ONLY <1>a, <2>1, w \in Seq(P), Zenon
  <2> QED BY <1>4, <2>2, <2>3, Zenon
<1>9. ASSUME x \o y = out \o more
      PROVE  Heard(c, FALSE, FALSE, kernel \o x, heard, y, executed \o lines)
  <2> DEFINE after == executed \o lines
  <2>1. (given \o x) \o y = AnswersTo(after)
    BY <1>1, <1>8, <1>9, Zenon
  <2> HIDE DEF after
  <2>2. Begins(c, given \o x, AnswersTo(after))
    BY <1>5, <2>1, Zenon DEF Begins, P
  <2>3. Begins(c, given \o x, AnswersTo(after) \o Answer(0))
    BY <1>2, <1>7, <2>2, BeginsMore, Zenon DEF P
  <2>4. Heard(c, FALSE, FALSE, kernel \o x, heard, y, after)
    BY <1>6, <2>1, <2>2, <2>3, Zenon DEF Heard
  <2> QED BY <2>4 DEF after
<1>10. ASSUME x \o y = out \o Answer(0)
       PROVE  Heard(c, TRUE, FALSE, kernel \o x, heard, <<>>, executed)
  <2>1. (given \o x) \o y = all \o Answer(0)
    BY <1>2, <1>8, <1>10, Zenon
  <2>2. Begins(c, given \o x, all \o Answer(0))
    BY <1>5, <2>1, Zenon DEF Begins, P
  <2> QED BY <1>6, <2>2, Zenon DEF Heard, all
<1> QED BY <1>9, <1>10 DEF more

\* A line is executed for a client that is gone: the conversation ends there.
LEMMA GoneKeepsHeard ==
  ASSUME NEW c \in Clients, NEW kernel \in Seq(AnswerPiece(c)),
         NEW heard \in Seq(AnswerPiece(c)), NEW out,
         NEW executed \in Seq(Lines(c)), NEW n \in Lines(c),
         Heard(c, FALSE, TRUE, kernel, heard, out, executed)
  PROVE  Heard(c, TRUE, TRUE, kernel, heard, <<>>, Append(executed, n))
<1> DEFINE P == AnswerPiece(c)
           all == AnswersTo(executed)
           one == AnswersTo(<<n>>)
           given == heard \o kernel
<1>1. Append(executed, n) = executed \o <<n>> /\ <<n>> \in Seq(Lines(c))
  BY AppendIsConcat
<1>2. one \in Seq(P) /\ AnswersTo(executed \o <<n>>) = all \o one
  BY <1>1, AnswersToProperties DEF Lines
<1>3. Answer(0) \in Seq(P)
  <2>1. 0 \in 0 .. Len(Script[c])
    BY Scripts
  <2> QED BY <2>1, AnswerType
<1>4. given \in Seq(P)
  BY ConcatProperties
<1>5. kernel = <<>> /\ Begins(c, given, all)
  BY Zenon DEF Heard
<1> HIDE DEF P, all, one, given
<1>6. Begins(c, given, (all \o one) \o Answer(0))
  <2>1. Begins(c, given, all \o one)
    BY <1>2, <1>4, <1>5, BeginsMore, Zenon DEF P
  <2> QED BY <1>3, <1>4, <2>1, BeginsMore, Zenon DEF P
<1>7. AnswersTo(Append(executed, n)) = all \o one
  BY <1>1, <1>2, Zenon
<1> QED BY <1>5, <1>6, <1>7, Zenon DEF Heard, given

-----------------------------------------------------------------------------
(* The inductive invariant *)

Peers == [phase : {"away", "waiting", "accepted"}, sent : Nat, shut : BOOLEAN, closed : BOOLEAN]

SessionOf(c) ==
    [state : {"none", "open", "ended"}, inBuffer : Seq(Piece(c)), outBuffer : Seq(AnswerPiece(c)),
     executed : Seq(Lines(c)), refused : BOOLEAN]

IsMap(f) == f = [c \in Clients |-> f[c]]

Whole ==
    /\ client \in [Clients -> Peers]
    /\ IsMap(toServer) /\ IsMap(toClient) /\ IsMap(got) /\ IsMap(session)
    /\ revents \in [Clients -> SUBSET {"POLLIN", "POLLOUT", "POLLHUP"}]
    /\ listening \in BOOLEAN
    /\ reading \in Clients \cup {None, "stopped"}

TypedAt(c) ==
    /\ toServer[c] \in Seq(Piece(c))
    /\ toClient[c] \in Seq(AnswerPiece(c)) /\ Len(toClient[c]) <= Window
    /\ got[c] \in Seq(AnswerPiece(c))
    /\ session[c] \in SessionOf(c) /\ Len(session[c].inBuffer) <= MaxLine

\* A session exists from accept() on, and only an open one is served.
PhaseAt(c) ==
    /\ client[c].phase = "away" => session[c].state = "none"
    /\ client[c].phase = "waiting" /\ reading # "stopped" => session[c].state = "none"
    /\ session[c].state = "none" => session[c] = Fresh
    /\ reading = c \/ revents[c] # {} => session[c].state = "open"
    /\ reading = c => revents[c] = {}

AccountAt(c) ==
    /\ Ordered(c, client[c].sent, session[c].executed)
    /\ Limited(c, session[c].executed, session[c].refused)
    /\ session[c].state # "ended" =>
           Buffered(c, client[c].sent, toServer[c], session[c].executed, session[c].inBuffer)

HeardAt(c) ==
    Heard(c, session[c].state = "ended", client[c].closed, toClient[c], got[c],
          session[c].outBuffer, session[c].executed)

At(c) == TypedAt(c) /\ PhaseAt(c) /\ AccountAt(c) /\ HeardAt(c)

IInv ==
    /\ Whole
    /\ listening => reading = None
    /\ \A c \in Clients : At(c)

LEMMA IInvSafe ==
  ASSUME IInv
  PROVE  TypeOK /\ LineLimit
<1>1. ASSUME NEW c \in Clients
      PROVE  /\ toServer[c] \in Seq(Piece(c))
             /\ toClient[c] \in Seq(AnswerPiece(c)) /\ Len(toClient[c]) <= Window
             /\ got[c] \in Seq(AnswerPiece(c))
             /\ session[c] \in SessionOf(c) /\ Len(session[c].inBuffer) <= MaxLine
             /\ Limited(c, session[c].executed, session[c].refused)
  BY DEF IInv, At, TypedAt, AccountAt
<1>2. TypeOK
  BY <1>1 DEF IInv, Whole, TypeOK, SessionOf, Lines, Peers
<1>3. LineLimit
  BY <1>1 DEF LineLimit, Limited
<1> QED BY <1>2, <1>3

\* g is f with another value at c.
Updates(g, f, c, v) == g[c] = v /\ \A d \in Clients : d # c => g[d] = f[d]

LEMMA MapExcept ==
  \A f : IsMap(f) => \A c \in Clients : \A v :
      IsMap([f EXCEPT ![c] = v]) /\ Updates([f EXCEPT ![c] = v], f, c, v)
<1> TAKE f
<1> HAVE IsMap(f)
<1> TAKE c \in Clients
<1> TAKE v
<1> DEFINE g == [d \in Clients |-> IF d = c THEN v ELSE f[d]]
<1>1. [f EXCEPT ![c] = v] = g
  BY DEF IsMap
<1>2. Updates(g, f, c, v)
  BY DEF Updates
<1>3. IsMap(g)
  BY DEF IsMap
<1> HIDE DEF g
<1> QED BY <1>1, <1>2, <1>3, Zenon

-----------------------------------------------------------------------------
(* The steps *)

\* Nothing of a client's part of the state changes.
SameAt(c) ==
    /\ client'[c] = client[c] /\ toServer'[c] = toServer[c] /\ toClient'[c] = toClient[c]
    /\ got'[c] = got[c] /\ session'[c] = session[c] /\ revents'[c] = revents[c]

\* Nothing changes but one client's part, and what the server reads next.
OnlyAt(c) ==
    /\ Whole' /\ (listening' => reading' = None)
    /\ \A d \in Clients : d # c => SameAt(d) /\ (reading' = d => reading = d)
    /\ reading' # "stopped" => reading # "stopped"

LEMMA OthersKeep ==
  ASSUME IInv, NEW c \in Clients, OnlyAt(c), At(c)'
  PROVE  IInv'
<1>1. ASSUME NEW d \in Clients, d # c PROVE At(d)'
  <2>1. At(d) /\ SameAt(d) /\ (reading' = d => reading = d)
        /\ (reading' # "stopped" => reading # "stopped")
    BY <1>1 DEF IInv, OnlyAt
  <2>2. TypedAt(d)'
    BY <2>1 DEF At, TypedAt, SameAt
  <2>3. PhaseAt(d)'
    BY <2>1 DEF At, PhaseAt, SameAt
  <2>4. AccountAt(d)'
    BY <2>1 DEF At, AccountAt, SameAt
  <2>5. HeardAt(d)'
    BY <2>1 DEF At, HeardAt, SameAt
  <2> QED BY <2>2, <2>3, <2>4, <2>5 DEF At
<1>2. \A d \in Clients : At(d)'
  BY <1>1
<1> QED BY <1>2 DEF IInv, OnlyAt

LEMMA ConnectKeeps ==
  ASSUME IInv, NEW c \in Clients, Connect(c)
  PROVE  IInv'
<1>1. /\ client[c] \in Peers /\ client[c].phase = "away"
      /\ client'[c] = [client[c] EXCEPT !.phase = "waiting"]
      /\ client' \in [Clients -> Peers]
      /\ \A d \in Clients : d # c => client'[d] = client[d]
      /\ UNCHANGED <<toServer, toClient, got, session, revents, listening, reading>>
  BY DEF IInv, Whole, Connect, server, Peers
<1>2. client'[c].sent = client[c].sent /\ client'[c].closed = client[c].closed
  BY <1>1 DEF Peers
<1>3. OnlyAt(c)
  BY <1>1 DEF IInv, Whole, OnlyAt, SameAt, IsMap
<1>4. At(c)
  BY DEF IInv
<1>5. TypedAt(c)'
  BY <1>1, <1>4 DEF At, TypedAt
<1>6. PhaseAt(c)'
  BY <1>1, <1>4 DEF At, PhaseAt
<1>7. AccountAt(c)'
  BY <1>1, <1>2, <1>4 DEF At, AccountAt
<1>8. HeardAt(c)'
  BY <1>1, <1>2, <1>4 DEF At, HeardAt
<1> QED BY <1>3, <1>5, <1>6, <1>7, <1>8, OthersKeep DEF At

LEMMA HalfCloseKeeps ==
  ASSUME IInv, NEW c \in Clients, HalfClose(c)
  PROVE  IInv'
<1>1. /\ client[c] \in Peers
      /\ client'[c] = [client[c] EXCEPT !.shut = TRUE]
      /\ client' \in [Clients -> Peers]
      /\ \A d \in Clients : d # c => client'[d] = client[d]
      /\ UNCHANGED <<toServer, toClient, got, session, revents, listening, reading>>
  BY DEF IInv, Whole, HalfClose, server, Peers
<1>2. /\ client'[c].sent = client[c].sent /\ client'[c].closed = client[c].closed
      /\ client'[c].phase = client[c].phase
  BY <1>1 DEF Peers
<1>3. OnlyAt(c)
  BY <1>1 DEF IInv, Whole, OnlyAt, SameAt, IsMap
<1>4. At(c)
  BY DEF IInv
<1>5. TypedAt(c)'
  BY <1>1, <1>4 DEF At, TypedAt
<1>6. PhaseAt(c)'
  BY <1>1, <1>2, <1>4 DEF At, PhaseAt
<1>7. AccountAt(c)'
  BY <1>1, <1>2, <1>4 DEF At, AccountAt
<1>8. HeardAt(c)'
  BY <1>1, <1>2, <1>4 DEF At, HeardAt
<1> QED BY <1>3, <1>5, <1>6, <1>7, <1>8, OthersKeep DEF At

LEMMA SendStepKeeps ==
  ASSUME IInv, NEW c \in Clients, Send(c)
  PROVE  IInv'
<1>1. PICK n \in client[c].sent + 1 .. Len(Stream[c]) :
         /\ toServer' = [toServer EXCEPT ![c] = @ \o SubSeq(Stream[c], client[c].sent + 1, n)]
         /\ client' = [client EXCEPT ![c].sent = n]
  BY DEF Send
<1>2. /\ session[c].state # "ended" /\ client[c].phase # "away"
      /\ UNCHANGED <<toClient, got, session, revents, listening, reading>>
  BY DEF Send, Writable, server
<1> DEFINE sent == client[c].sent
           piece == SubSeq(Stream[c], sent + 1, n)
           kernel == toServer[c]
           executed == session[c].executed
           in == session[c].inBuffer
<1>3. Whole /\ TypedAt(c) /\ PhaseAt(c) /\ AccountAt(c) /\ HeardAt(c)
  BY DEF IInv, At
<1>4. kernel \in Seq(Piece(c)) /\ in \in Seq(Piece(c)) /\ executed \in Seq(Lines(c))
      /\ Len(executed) \in Nat
  <2>1. kernel \in Seq(Piece(c)) /\ session[c] \in SessionOf(c)
    BY <1>3 DEF TypedAt
  <2>2. in \in Seq(Piece(c)) /\ executed \in Seq(Lines(c))
    BY <2>1 DEF SessionOf
  <2> QED BY <2>1, <2>2, LenProperties
<1>5. Ordered(c, sent, executed) /\ Buffered(c, sent, kernel, executed, in)
  BY <1>2, <1>3 DEF AccountAt
<1>6. /\ Ordered(c, n, executed) /\ Buffered(c, n, kernel \o piece, executed, in)
      /\ piece \in Seq(Piece(c))
  BY <1>4, <1>5, SendKeeps
<1>7. kernel \o piece \in Seq(Piece(c))
  <2> HIDE DEF piece, kernel
  <2> QED BY <1>4, <1>6, ConcatProperties
<1>8. n \in Nat
  <2>1. sent \in Nat /\ Len(Stream[c]) \in Nat
    BY <1>3, Ends DEF Whole, Peers
  <2> QED BY <2>1
<1>9. /\ IsMap(toServer') /\ toServer'[c] = kernel \o piece
      /\ \A d \in Clients : d # c => toServer'[d] = toServer[d]
  <2>1. IsMap(toServer) /\ toServer' = [toServer EXCEPT ![c] = kernel \o piece]
    BY <1>1, <1>3 DEF Whole
  <2> HIDE DEF piece, kernel
  <2>2. IsMap(toServer') /\ Updates(toServer', toServer, c, kernel \o piece)
    BY <2>1, MapExcept, Zenon
  <2> QED BY <2>2 DEF Updates
<1>10. /\ client[c] \in Peers /\ client'[c] = [client[c] EXCEPT !.sent = n]
       /\ client' \in [Clients -> Peers]
       /\ \A d \in Clients : d # c => client'[d] = client[d]
  BY <1>1, <1>3, <1>8 DEF Whole, Peers
<1>11. /\ client'[c].sent = n /\ client'[c].closed = client[c].closed
       /\ client'[c].phase = client[c].phase
  BY <1>10 DEF Peers
<1> HIDE DEF piece, kernel, sent
<1>12. OnlyAt(c)
  <2>1. Whole'
    BY <1>2, <1>3, <1>9, <1>10 DEF Whole, IsMap
  <2>2. \A d \in Clients : d # c => SameAt(d)
    BY <1>2, <1>9, <1>10 DEF SameAt
  <2>3. listening' => reading' = None
    BY <1>2 DEF IInv
  <2> QED BY <1>2, <2>1, <2>2, <2>3 DEF OnlyAt
<1>13. TypedAt(c)'
  BY <1>2, <1>3, <1>7, <1>9 DEF TypedAt
<1>14. PhaseAt(c)'
  BY <1>2, <1>3, <1>11 DEF PhaseAt
<1>15. AccountAt(c)'
  BY <1>2, <1>3, <1>6, <1>9, <1>11 DEF AccountAt
<1>16. HeardAt(c)'
  BY <1>2, <1>3, <1>11 DEF HeardAt
<1> QED BY <1>12, <1>13, <1>14, <1>15, <1>16, OthersKeep DEF At

LEMMA ReceiveKeeps ==
  ASSUME IInv, NEW c \in Clients, Receive(c)
  PROVE  IInv'
<1>1. /\ got' = [got EXCEPT ![c] = got[c] \o toClient[c]]
      /\ toClient' = [toClient EXCEPT ![c] = <<>>]
      /\ UNCHANGED <<client, toServer, session, revents, listening, reading>>
  BY DEF Receive, server
<1>2. Whole /\ TypedAt(c) /\ PhaseAt(c) /\ AccountAt(c) /\ HeardAt(c)
  BY DEF IInv, At
<1>3. got[c] \in Seq(AnswerPiece(c)) /\ toClient[c] \in Seq(AnswerPiece(c))
  BY <1>2 DEF TypedAt
<1>4. got[c] \o toClient[c] \in Seq(AnswerPiece(c))
  BY <1>3, ConcatProperties
<1>5. /\ IsMap(got') /\ got'[c] = got[c] \o toClient[c]
      /\ \A d \in Clients : d # c => got'[d] = got[d]
  <2>1. IsMap(got)
    BY <1>2 DEF Whole
  <2>2. IsMap(got') /\ Updates(got', got, c, got[c] \o toClient[c])
    BY <1>1, <2>1, MapExcept, Zenon
  <2> QED BY <2>2 DEF Updates
<1>6. /\ IsMap(toClient') /\ toClient'[c] = <<>>
      /\ \A d \in Clients : d # c => toClient'[d] = toClient[d]
  <2>1. IsMap(toClient)
    BY <1>2 DEF Whole
  <2>2. IsMap(toClient') /\ Updates(toClient', toClient, c, <<>>)
    BY <1>1, <2>1, MapExcept, Zenon
  <2> QED BY <2>2 DEF Updates
<1>7. OnlyAt(c)
  <2>1. Whole'
    BY <1>1, <1>2, <1>5, <1>6 DEF Whole, IsMap
  <2>2. \A d \in Clients : d # c => SameAt(d)
    BY <1>1, <1>5, <1>6 DEF SameAt
  <2>3. listening' => reading' = None
    BY <1>1 DEF IInv
  <2> QED BY <1>1, <2>1, <2>2, <2>3 DEF OnlyAt
<1>8. TypedAt(c)'
  <2>1. Len(<<>>) <= Window
    BY IpcAssumption
  <2> QED BY <1>1, <1>2, <1>4, <1>5, <1>6, <2>1 DEF TypedAt
<1>9. PhaseAt(c)'
  BY <1>1, <1>2 DEF PhaseAt
<1>10. AccountAt(c)'
  BY <1>1, <1>2 DEF AccountAt
<1>11. HeardAt(c)'
  <2> DEFINE ended == session[c].state = "ended"
             out == session[c].outBuffer
             executed == session[c].executed
  <2>1. Heard(c, ended, client[c].closed, toClient[c], got[c], out, executed)
    BY <1>2 DEF HeardAt
  <2> HIDE DEF ended, out, executed
  <2>2. Heard(c, ended, client[c].closed, <<>>, got[c] \o toClient[c], out, executed)
    BY <1>3, <2>1, ClientKeepsHeard
  <2> QED BY <1>1, <1>5, <1>6, <2>2 DEF HeardAt, ended, out, executed
<1> QED BY <1>7, <1>8, <1>9, <1>10, <1>11, OthersKeep DEF At

LEMMA VanishKeeps ==
  ASSUME IInv, NEW c \in Clients, Vanish(c)
  PROVE  IInv'
<1>1. /\ client' = [client EXCEPT ![c].closed = TRUE]
      /\ toClient' = [toClient EXCEPT ![c] = <<>>]
      /\ UNCHANGED <<toServer, got, session, revents, listening, reading>>
  BY DEF Vanish, server
<1>2. Whole /\ TypedAt(c) /\ PhaseAt(c) /\ AccountAt(c) /\ HeardAt(c)
  BY DEF IInv, At
<1>3. got[c] \in Seq(AnswerPiece(c)) /\ toClient[c] \in Seq(AnswerPiece(c))
  BY <1>2 DEF TypedAt
<1>4. /\ client[c] \in Peers /\ client'[c] = [client[c] EXCEPT !.closed = TRUE]
      /\ client' \in [Clients -> Peers]
      /\ \A d \in Clients : d # c => client'[d] = client[d]
  BY <1>1, <1>2 DEF Whole, Peers
<1>5. /\ client'[c].sent = client[c].sent /\ client'[c].closed = TRUE
      /\ client'[c].phase = client[c].phase
  BY <1>4 DEF Peers
<1>6. /\ IsMap(toClient') /\ toClient'[c] = <<>>
      /\ \A d \in Clients : d # c => toClient'[d] = toClient[d]
  <2>1. IsMap(toClient)
    BY <1>2 DEF Whole
  <2>2. IsMap(toClient') /\ Updates(toClient', toClient, c, <<>>)
    BY <1>1, <2>1, MapExcept, Zenon
  <2> QED BY <2>2 DEF Updates
<1>7. OnlyAt(c)
  <2>1. Whole'
    BY <1>1, <1>2, <1>4, <1>6 DEF Whole, IsMap
  <2>2. \A d \in Clients : d # c => SameAt(d)
    BY <1>1, <1>4, <1>6 DEF SameAt
  <2>3. listening' => reading' = None
    BY <1>1 DEF IInv
  <2> QED BY <1>1, <2>1, <2>2, <2>3 DEF OnlyAt
<1>8. TypedAt(c)'
  <2>1. Len(<<>>) <= Window
    BY IpcAssumption
  <2> QED BY <1>1, <1>2, <1>6, <2>1 DEF TypedAt
<1>9. PhaseAt(c)'
  BY <1>1, <1>2, <1>5 DEF PhaseAt
<1>10. AccountAt(c)'
  BY <1>1, <1>2, <1>5 DEF AccountAt
<1>11. HeardAt(c)'
  <2> DEFINE ended == session[c].state = "ended"
             out == session[c].outBuffer
             executed == session[c].executed
  <2>1. Heard(c, ended, client[c].closed, toClient[c], got[c], out, executed)
    BY <1>2 DEF HeardAt
  <2> HIDE DEF ended, out, executed
  <2>2. Heard(c, ended, TRUE, <<>>, got[c], out, executed)
    BY <1>3, <2>1, ClientKeepsHeard
  <2> QED BY <1>1, <1>5, <1>6, <2>2 DEF HeardAt, ended, out, executed
<1> QED BY <1>7, <1>8, <1>9, <1>10, <1>11, OthersKeep DEF At

LEMMA ClosedIs ==
  ASSUME NEW c, NEW s \in SessionOf(c)
  PROVE  /\ Closed(s) \in SessionOf(c) /\ Closed(s).state = "ended"
         /\ Closed(s).inBuffer = <<>> /\ Closed(s).outBuffer = <<>>
         /\ Closed(s).executed = s.executed /\ Closed(s).refused = s.refused
<1> DEFINE In == Seq(Piece(c))
           Out == Seq(AnswerPiece(c))
           Done == Seq(Lines(c))
<1>1. <<>> \in In /\ <<>> \in Out
  OBVIOUS
<1>2. s \in [state : {"none", "open", "ended"}, inBuffer : In, outBuffer : Out,
              executed : Done, refused : BOOLEAN]
  BY DEF SessionOf
<1> HIDE DEF In, Out, Done
<1>3. /\ Closed(s) \in [state : {"none", "open", "ended"}, inBuffer : In, outBuffer : Out,
                         executed : Done, refused : BOOLEAN]
      /\ Closed(s).state = "ended"
      /\ Closed(s).inBuffer = <<>> /\ Closed(s).outBuffer = <<>>
      /\ Closed(s).executed = s.executed /\ Closed(s).refused = s.refused
  BY ONLY <1>1, <1>2 DEF Closed
<1> QED BY <1>3 DEF SessionOf, In, Out, Done

LEMMA OpenedIs ==
  ASSUME NEW c
  PROVE  [Fresh EXCEPT !.state = "open"] \in SessionOf(c)
<1> DEFINE In == Seq(Piece(c))
           Out == Seq(AnswerPiece(c))
           Done == Seq(Lines(c))
           All == [state : {"none", "open", "ended"}, inBuffer : In, outBuffer : Out,
                   executed : Done, refused : BOOLEAN]
<1>1. <<>> \in In /\ <<>> \in Out /\ <<>> \in Done
  OBVIOUS
<1> HIDE DEF In, Out, Done
<1>2. Fresh \in All
  BY <1>1 DEF Fresh
<1>3. \A s \in All : [s EXCEPT !.state = "open"] \in All
  OBVIOUS
<1>4. All = SessionOf(c)
  BY DEF SessionOf, In, Out, Done
<1> HIDE DEF All
<1> QED BY <1>2, <1>3, <1>4

\* A session that is closed, for whatever reason, keeps its record of what was done.
LEMMA ClosedAt ==
  ASSUME NEW c \in Clients, At(c), client'[c] = client[c], toServer'[c] = toServer[c],
         toClient'[c] = toClient[c], got'[c] = got[c], session'[c] = Closed(session[c]),
         revents'[c] = {}, reading' # c, client[c].phase # "away",
         client[c].phase = "waiting" => reading' = "stopped"
  PROVE  At(c)'
<1>1. TypedAt(c) /\ PhaseAt(c) /\ AccountAt(c) /\ HeardAt(c)
  BY DEF At
<1>2. session[c] \in SessionOf(c) /\ got[c] \in Seq(AnswerPiece(c))
      /\ toClient[c] \in Seq(AnswerPiece(c))
  BY <1>1 DEF TypedAt
<1>3. /\ session'[c] \in SessionOf(c) /\ session'[c].state = "ended"
      /\ session'[c].inBuffer = <<>> /\ session'[c].outBuffer = <<>>
      /\ session'[c].executed = session[c].executed /\ session'[c].refused = session[c].refused
  BY <1>2, ClosedIs
<1>4. TypedAt(c)'
  <2>1. Len(<<>>) <= MaxLine
    BY IpcAssumption
  <2> QED BY <1>1, <1>3, <2>1 DEF TypedAt
<1>5. PhaseAt(c)'
  BY <1>3 DEF PhaseAt
<1>6. AccountAt(c)'
  BY <1>1, <1>3 DEF AccountAt
<1>7. HeardAt(c)'
  <2> DEFINE ended == session[c].state = "ended"
             closed == client[c].closed
             out == session[c].outBuffer
             executed == session[c].executed
  <2>1. Heard(c, ended, closed, toClient[c], got[c], out, executed)
    BY <1>1 DEF HeardAt
  <2> HIDE DEF ended, closed, out, executed
  <2>2. Heard(c, TRUE, closed, toClient[c], got[c], <<>>, executed)
    BY <1>2, <2>1, ClientKeepsHeard
  <2>3. (session'[c].state = "ended") = TRUE
    BY <1>3
  <2>4. Heard(c, session'[c].state = "ended", client'[c].closed, toClient'[c], got'[c],
              session'[c].outBuffer, session'[c].executed)
    BY <1>3, <2>2, <2>3 DEF closed, executed
  <2> QED BY <2>4 DEF HeardAt
<1> QED BY <1>4, <1>5, <1>6, <1>7 DEF At

LEMMA PollKeeps ==
  ASSUME IInv, Poll
  PROVE  IInv'
<1>1. /\ reading = None /\ listening' \in BOOLEAN /\ revents' = [c \in Clients |-> Events(c)]
      /\ UNCHANGED <<client, toServer, toClient, got, session, reading>>
  BY DEF Poll
<1>2. \A c \in Clients : /\ Events(c) \in SUBSET {"POLLIN", "POLLOUT", "POLLHUP"}
                         /\ Events(c) # {} => session[c].state = "open"
  BY DEF Events
<1>3. Whole'
  BY <1>1, <1>2 DEF IInv, Whole, IsMap
<1>4. ASSUME NEW c \in Clients PROVE At(c)'
  <2>1. At(c) /\ c # None
    BY IpcAssumption DEF IInv
  <2>2. revents'[c] # {} => session[c].state = "open"
    BY <1>1, <1>2
  <2>3. TypedAt(c)'
    BY <1>1, <2>1 DEF At, TypedAt
  <2>4. PhaseAt(c)'
    BY <1>1, <2>1, <2>2 DEF At, PhaseAt
  <2>5. AccountAt(c)'
    BY <1>1, <2>1 DEF At, AccountAt
  <2>6. HeardAt(c)'
    BY <1>1, <2>1 DEF At, HeardAt
  <2> QED BY <2>3, <2>4, <2>5, <2>6 DEF At
<1> QED BY <1>1, <1>3, <1>4 DEF IInv

LEMMA AcceptKeeps ==
  ASSUME IInv, AcceptClients
  PROVE  IInv'
<1>1. /\ listening /\ listening' = FALSE
      /\ client' = [c \in Clients |->
             IF c \in Waiting THEN [client[c] EXCEPT !.phase = "accepted"] ELSE client[c]]
      /\ session' = [c \in Clients |->
             IF c \in Waiting THEN [Fresh EXCEPT !.state = "open"] ELSE session[c]]
      /\ UNCHANGED <<toServer, toClient, got, revents, reading>>
  BY DEF AcceptClients
<1>2. reading = None /\ Whole
  BY <1>1 DEF IInv
<1>3. Whole'
  BY <1>1, <1>2 DEF Whole, IsMap, Peers
<1>4. ASSUME NEW c \in Clients PROVE At(c)'
  <2>1. TypedAt(c) /\ PhaseAt(c) /\ AccountAt(c) /\ HeardAt(c) /\ c # None
    BY IpcAssumption DEF IInv, At
  <2>2. CASE c \in Waiting
    <3>1. client[c].phase = "waiting" /\ reading # "stopped" /\ client[c] \in Peers
      BY <1>2, <2>2, IpcAssumption DEF Waiting, Whole
    <3>2. session[c] = Fresh /\ revents[c] = {}
      BY <2>1, <3>1 DEF PhaseAt
    <3>3. /\ client'[c] = [client[c] EXCEPT !.phase = "accepted"]
          /\ session'[c] = [Fresh EXCEPT !.state = "open"]
      BY <1>1, <2>2
    <3>4. /\ client'[c].sent = client[c].sent /\ client'[c].closed = client[c].closed
          /\ client'[c].phase = "accepted"
      BY <3>1, <3>3 DEF Peers
    <3>5. /\ session'[c].state = "open" /\ session'[c].inBuffer = session[c].inBuffer
          /\ session'[c].outBuffer = session[c].outBuffer
          /\ session'[c].executed = session[c].executed
          /\ session'[c].refused = session[c].refused /\ session[c].state # "ended"
      BY <3>2, <3>3 DEF Fresh
    <3>6. session'[c] \in SessionOf(c)
      BY <3>3, OpenedIs
    <3>7. TypedAt(c)'
      BY <1>1, <2>1, <3>5, <3>6 DEF TypedAt
    <3>8. PhaseAt(c)'
      BY <1>1, <1>2, <2>1, <3>4, <3>5 DEF PhaseAt
    <3>9. AccountAt(c)'
      BY <1>1, <2>1, <3>4, <3>5 DEF AccountAt
    <3>10. HeardAt(c)'
      <4>1. (session'[c].state = "ended") = FALSE /\ (session[c].state = "ended") = FALSE
        BY <3>5
      <4> QED BY <1>1, <2>1, <3>4, <3>5, <4>1 DEF HeardAt
    <3> QED BY <3>7, <3>8, <3>9, <3>10 DEF At
  <2>3. CASE c \notin Waiting
    <3>1. client'[c] = client[c] /\ session'[c] = session[c]
      BY <1>1, <2>3
    <3>2. TypedAt(c)'
      BY <1>1, <2>1, <3>1 DEF TypedAt
    <3>3. PhaseAt(c)'
      BY <1>1, <2>1, <3>1 DEF PhaseAt
    <3>4. AccountAt(c)'
      BY <1>1, <2>1, <3>1 DEF AccountAt
    <3>5. HeardAt(c)'
      BY <1>1, <2>1, <3>1 DEF HeardAt
    <3> QED BY <3>2, <3>3, <3>4, <3>5 DEF At
  <2> QED BY <2>2, <2>3
<1> QED BY <1>1, <1>3, <1>4 DEF IInv

LEMMA StopKeeps ==
  ASSUME IInv, Stop
  PROVE  IInv'
<1>1. /\ reading' = "stopped" /\ listening' = FALSE /\ revents' = [c \in Clients |-> {}]
      /\ session' = [c \in Clients |->
             IF client[c].phase = "away" THEN session[c] ELSE Closed(session[c])]
      /\ UNCHANGED <<client, toServer, toClient, got>>
  BY DEF Stop
<1>2. Whole'
  BY <1>1 DEF IInv, Whole, IsMap
<1>3. ASSUME NEW c \in Clients PROVE At(c)'
  <2>1. At(c) /\ c # "stopped"
    BY IpcAssumption DEF IInv
  <2>2. CASE client[c].phase = "away"
    <3>1. session'[c] = session[c] /\ revents'[c] = {} /\ reading' # c
      BY <1>1, <2>1, <2>2
    <3>2. TypedAt(c)'
      BY <1>1, <2>1, <3>1 DEF At, TypedAt
    <3>3. PhaseAt(c)'
      BY <1>1, <2>1, <2>2, <3>1 DEF At, PhaseAt
    <3>4. AccountAt(c)'
      BY <1>1, <2>1, <3>1 DEF At, AccountAt
    <3>5. HeardAt(c)'
      BY <1>1, <2>1, <3>1 DEF At, HeardAt
    <3> QED BY <3>2, <3>3, <3>4, <3>5 DEF At
  <2>3. CASE client[c].phase # "away"
    <3>1. session'[c] = Closed(session[c]) /\ revents'[c] = {} /\ reading' # c
          /\ reading' = "stopped"
      BY <1>1, <2>1, <2>3
    <3> QED BY <1>1, <2>1, <2>3, <3>1, ClosedAt
  <2> QED BY <2>2, <2>3
<1> QED BY <1>1, <1>2, <1>3 DEF IInv

LEMMA ServedOnly ==
  ASSUME IInv, NEW c \in Clients, UNCHANGED <<client, got, listening>>, ~listening,
         IsMap(toServer'), IsMap(toClient'), IsMap(session'),
         \A d \in Clients : d # c => /\ toServer'[d] = toServer[d] /\ toClient'[d] = toClient[d]
                                   /\ session'[d] = session[d],
         revents' = [revents EXCEPT ![c] = {}] \/ revents' = revents,
         reading' \in {c, None}, reading # "stopped"
  PROVE  OnlyAt(c)
<1>1. Whole /\ None \notin Clients
  BY IpcAssumption DEF IInv
<1>2. /\ revents' \in [Clients -> SUBSET {"POLLIN", "POLLOUT", "POLLHUP"}]
      /\ \A d \in Clients : d # c => revents'[d] = revents[d]
  BY <1>1 DEF Whole
<1>3. Whole'
  BY <1>1, <1>2 DEF Whole, IsMap
<1>4. \A d \in Clients : d # c => SameAt(d)
  BY <1>2 DEF SameAt
<1>5. \A d \in Clients : d # c => (reading' = d => reading = d)
  BY <1>1
<1> QED BY <1>3, <1>4, <1>5 DEF OnlyAt

\* A session that is served is open, and its client has been accepted.
LEMMA ServedIsOpen ==
  ASSUME IInv, NEW c \in Clients, Serving(c) \/ reading = c
  PROVE  /\ ~listening /\ reading # "stopped" /\ session[c].state = "open"
         /\ client[c].phase = "accepted" /\ client[c] \in Peers /\ session[c] \in SessionOf(c)
         /\ c # None
<1>1. Whole /\ TypedAt(c) /\ PhaseAt(c) /\ (listening => reading = None)
  BY DEF IInv, At
<1>2. c # None /\ c # "stopped" /\ None # "stopped"
  BY IpcAssumption
<1>3. ~listening /\ reading # "stopped"
  BY <1>1, <1>2 DEF Serving
<1>4. session[c].state = "open"
  BY <1>1 DEF PhaseAt, Serving
<1>5. client[c] \in Peers /\ session[c] \in SessionOf(c)
  BY <1>1 DEF Whole, TypedAt
<1>6. client[c].phase # "away" /\ client[c].phase # "waiting"
  BY <1>1, <1>3, <1>4 DEF PhaseAt
<1>7. client[c].phase = "accepted"
  BY <1>5, <1>6 DEF Peers
<1> QED BY <1>2, <1>3, <1>4, <1>5, <1>7

LEMMA ServeHangupKeeps ==
  ASSUME IInv, NEW c \in Clients, ServeHangup(c)
  PROVE  IInv'
<1>1. /\ Serving(c) /\ session' = [session EXCEPT ![c] = Closed(session[c])]
      /\ revents' = [revents EXCEPT ![c] = {}]
      /\ UNCHANGED <<client, toServer, toClient, got, listening, reading>>
  BY DEF ServeHangup
<1>2. Whole /\ At(c) /\ reading = None /\ c # None
  BY <1>1, ServedIsOpen DEF IInv, Serving
<1>3. IsMap(session') /\ session'[c] = Closed(session[c])
      /\ \A d \in Clients : d # c => session'[d] = session[d]
  <2>1. IsMap(session)
    BY <1>2 DEF Whole
  <2>2. IsMap(session') /\ Updates(session', session, c, Closed(session[c]))
    BY <1>1, <2>1, MapExcept, Zenon
  <2> QED BY <2>2 DEF Updates
<1>4. /\ ~listening /\ reading # "stopped" /\ client[c].phase = "accepted"
  BY <1>1, ServedIsOpen
<1>5. OnlyAt(c)
  <2>1. IsMap(toServer') /\ IsMap(toClient')
    BY <1>1, <1>2 DEF Whole, IsMap
  <2> QED BY <1>1, <1>2, <1>3, <1>4, <2>1, ServedOnly
<1>6. revents'[c] = {}
  BY <1>1, <1>2 DEF Whole
<1>7. At(c)'
  BY <1>1, <1>2, <1>3, <1>4, <1>6, ClosedAt
<1> QED BY <1>5, <1>7, OthersKeep

LEMMA ReadEndsKeeps ==
  ASSUME IInv, NEW c \in Clients, ReadEnds(c)
  PROVE  IInv'
<1>1. /\ reading = c /\ reading' = None
      /\ session' = IF client[c].shut \/ client[c].closed
                    THEN [session EXCEPT ![c] = Closed(session[c])] ELSE session
      /\ UNCHANGED <<client, toServer, toClient, got, revents, listening>>
  BY DEF ReadEnds
<1>2. Whole /\ At(c) /\ PhaseAt(c) /\ c # None
  BY <1>1, ServedIsOpen DEF IInv, At
<1>3. /\ ~listening /\ reading # "stopped" /\ client[c].phase = "accepted"
      /\ session[c].state = "open"
  BY <1>1, ServedIsOpen
<1>4. IsMap(session)
  BY <1>2 DEF Whole
<1>5. IsMap(session') /\ \A d \in Clients : d # c => session'[d] = session[d]
  <2>1. CASE session' = session
    BY <1>4, <2>1 DEF IsMap
  <2>2. CASE session' = [session EXCEPT ![c] = Closed(session[c])]
    <3>1. IsMap(session') /\ Updates(session', session, c, Closed(session[c]))
      BY <1>4, <2>2, MapExcept, Zenon
    <3> QED BY <3>1 DEF Updates
  <2> QED BY <1>1, <2>1, <2>2
<1>6. OnlyAt(c)
  <2>1. IsMap(toServer') /\ IsMap(toClient')
    BY <1>1, <1>2 DEF Whole, IsMap
  <2> QED BY <1>1, <1>2, <1>3, <1>5, <2>1, ServedOnly
\* Nothing was left of what poll reported when reading began.
<1>7. CASE session' = session
  <2>1. TypedAt(c)'
    BY <1>1, <1>2, <1>7 DEF At, TypedAt
  <2>2. PhaseAt(c)'
    BY <1>1, <1>2, <1>3, <1>7 DEF PhaseAt
  <2>3. AccountAt(c)'
    BY <1>1, <1>2, <1>7 DEF At, AccountAt
  <2>4. HeardAt(c)'
    BY <1>1, <1>2, <1>7 DEF At, HeardAt
  <2> QED BY <1>6, <2>1, <2>2, <2>3, <2>4, OthersKeep DEF At
<1>8. CASE session' = [session EXCEPT ![c] = Closed(session[c])]
  <2>1. session'[c] = Closed(session[c])
    <3>1. Updates(session', session, c, Closed(session[c]))
      BY <1>4, <1>8, MapExcept, Zenon
    <3> QED BY <3>1 DEF Updates
  <2>2. revents'[c] = {}
    BY <1>1, <1>2 DEF PhaseAt
  <2>3. At(c)'
    BY <1>1, <1>2, <1>3, <2>1, <2>2, ClosedAt
  <2> QED BY <1>6, <2>3, OthersKeep
<1> QED BY <1>1, <1>7, <1>8

\* The other forms in which a session changes.
Flushed(s, out) == [s EXCEPT !.outBuffer = out]
Advanced(s, in, out, done) == [s EXCEPT !.inBuffer = in, !.outBuffer = out, !.executed = done]
Refused(s) == [Closed(s) EXCEPT !.refused = TRUE]
GivenUp(s, done) == [Closed(s) EXCEPT !.executed = done]

Becomes(c, u, state, in, out, done, refused) ==
    /\ u \in SessionOf(c) /\ u.state = state /\ u.inBuffer = in /\ u.outBuffer = out
    /\ u.executed = done /\ u.refused = refused

LEMMA SessionUpdates ==
  ASSUME NEW c, NEW s, NEW in, NEW out, NEW done, s \in SessionOf(c), in \in Seq(Piece(c)),
         out \in Seq(AnswerPiece(c)), done \in Seq(Lines(c))
  PROVE  /\ Becomes(c, Flushed(s, out), s.state, s.inBuffer, out, s.executed, s.refused)
         /\ Becomes(c, Advanced(s, in, out, done), s.state, in, out, done, s.refused)
         /\ Becomes(c, Refused(s), "ended", <<>>, <<>>, s.executed, TRUE)
         /\ Becomes(c, GivenUp(s, done), "ended", <<>>, <<>>, done, s.refused)
<1> DEFINE In == Seq(Piece(c))
           Out == Seq(AnswerPiece(c))
           Done == Seq(Lines(c))
           All == [state : {"none", "open", "ended"}, inBuffer : In, outBuffer : Out,
                   executed : Done, refused : BOOLEAN]
           t == Closed(s)
<1>1. in \in In /\ out \in Out /\ done \in Done
  OBVIOUS
<1>2. All = SessionOf(c)
  BY DEF SessionOf
<1>3. /\ s \in SessionOf(c) /\ t \in SessionOf(c) /\ t.state = "ended" /\ t.inBuffer = <<>>
      /\ t.outBuffer = <<>> /\ t.executed = s.executed /\ t.refused = s.refused
  BY ClosedIs
<1> HIDE DEF In, Out, Done, t
<1>4. s \in All /\ t \in All
  BY <1>2, <1>3
<1>5. ASSUME NEW u, u = Flushed(s, out)
      PROVE  /\ u \in All /\ u.state = s.state /\ u.inBuffer = s.inBuffer
             /\ u.outBuffer = out /\ u.executed = s.executed /\ u.refused = s.refused
  BY ONLY <1>1, <1>4, <1>5 DEF Flushed
<1>6. ASSUME NEW u, u = Advanced(s, in, out, done)
      PROVE  /\ u \in All /\ u.state = s.state /\ u.inBuffer = in
             /\ u.outBuffer = out /\ u.executed = done /\ u.refused = s.refused
  BY ONLY <1>1, <1>4, <1>6 DEF Advanced
<1>7. ASSUME NEW u, u = [t EXCEPT !.refused = TRUE]
      PROVE  /\ u \in All /\ u.state = "ended" /\ u.inBuffer = <<>>
             /\ u.outBuffer = <<>> /\ u.executed = s.executed /\ u.refused = TRUE
  BY ONLY <1>3, <1>4, <1>7
<1>8. ASSUME NEW u, u = [t EXCEPT !.executed = done]
      PROVE  /\ u \in All /\ u.state = "ended" /\ u.inBuffer = <<>>
             /\ u.outBuffer = <<>> /\ u.executed = done /\ u.refused = s.refused
  BY ONLY <1>1, <1>3, <1>4, <1>8
<1> HIDE DEF All
<1>9. Becomes(c, Flushed(s, out), s.state, s.inBuffer, out, s.executed, s.refused)
  BY <1>2, <1>5, Zenon DEF Becomes
<1>10. Becomes(c, Advanced(s, in, out, done), s.state, in, out, done, s.refused)
  BY <1>2, <1>6, Zenon DEF Becomes
<1>11. Becomes(c, Refused(s), "ended", <<>>, <<>>, s.executed, TRUE)
  BY <1>2, <1>7, Zenon DEF Becomes, Refused, t
<1>12. Becomes(c, GivenUp(s, done), "ended", <<>>, <<>>, done, s.refused)
  BY <1>2, <1>8, Zenon DEF Becomes, GivenUp, t
<1> QED BY <1>9, <1>10, <1>11, <1>12

LEMMA ServeReadyKeeps ==
  ASSUME IInv, NEW c \in Clients, ServeReady(c)
  PROVE  IInv'
<1> DEFINE broken == "POLLOUT" \in revents[c] /\ client[c].closed
           writes == "POLLOUT" \in revents[c] /\ ~client[c].closed
           s == session[c]
           out == s.outBuffer
           x == Sendable(c, out)
           y == Unsent(c, out)
           u == Flushed(s, y)
<1>1. /\ Serving(c)
      /\ session' = [session EXCEPT ![c] =
             IF broken THEN Closed(s) ELSE IF "POLLOUT" \in revents[c] THEN u ELSE s]
      /\ toClient' = [toClient EXCEPT ![c] =
             toClient[c] \o Sendable(c, IF "POLLOUT" \in revents[c] /\ ~broken THEN out ELSE <<>>)]
      /\ reading' = IF "POLLIN" \in revents[c] /\ ~broken THEN c ELSE None
      /\ revents' = [revents EXCEPT ![c] = {}]
      /\ UNCHANGED <<client, toServer, got, listening>>
  <2>1. /\ Serving(c) /\ revents' = [revents EXCEPT ![c] = {}]
        /\ UNCHANGED <<client, toServer, got, listening>>
    BY DEF ServeReady
  <2>2. session' = [session EXCEPT ![c] =
             IF broken THEN Closed(s) ELSE IF "POLLOUT" \in revents[c] THEN u ELSE s]
    BY Zenon DEF ServeReady, Flushed
  <2>3. toClient' = [toClient EXCEPT ![c] =
             toClient[c] \o Sendable(c, IF "POLLOUT" \in revents[c] /\ ~broken THEN out ELSE <<>>)]
    BY Zenon DEF ServeReady
  <2>4. reading' = IF "POLLIN" \in revents[c] /\ ~broken THEN c ELSE None
    BY Zenon DEF ServeReady
  <2> QED BY ONLY <2>1, <2>2, <2>3, <2>4
<1>2. /\ ~listening /\ reading # "stopped" /\ s.state = "open" /\ client[c].phase = "accepted"
      /\ s \in SessionOf(c) /\ c # None /\ client[c] \in Peers
  BY <1>1, ServedIsOpen
<1>3. Whole /\ At(c) /\ TypedAt(c) /\ PhaseAt(c) /\ AccountAt(c) /\ HeardAt(c)
  BY DEF IInv, At
<1>4. IsMap(session) /\ IsMap(toClient)
  BY <1>3 DEF Whole
<1>5. revents'[c] = {} /\ reading' \in {c, None}
  BY <1>1, <1>3 DEF Whole
<1>6. toClient[c] \in Seq(AnswerPiece(c)) /\ Len(toClient[c]) <= Window
      /\ got[c] \in Seq(AnswerPiece(c))
  BY <1>3 DEF TypedAt
<1>7. out \in Seq(AnswerPiece(c)) /\ s.executed \in Seq(Lines(c))
  BY <1>2 DEF SessionOf
<1> HIDE DEF s, out, x, y, u
<1>8. Sendable(c, <<>>) = <<>> /\ toClient[c] \o <<>> = toClient[c]
  <2>1. <<>> \in Seq(AnswerPiece(c))
    OBVIOUS
  <2>2. /\ Sendable(c, <<>>) \in Seq(AnswerPiece(c)) /\ Unsent(c, <<>>) \in Seq(AnswerPiece(c))
        /\ Sendable(c, <<>>) \o Unsent(c, <<>>) = <<>>
    BY <1>6, <2>1, FlushParts
  <2> DEFINE v == Sendable(c, <<>>)
             w == Unsent(c, <<>>)
  <2>3. v \in Seq(AnswerPiece(c)) /\ w \in Seq(AnswerPiece(c)) /\ v \o w = <<>>
    BY <2>2
  <2> HIDE DEF v, w
  <2>4. v = <<>>
    BY <2>3, ConcatEqualIffEmpty
  <2>5. toClient[c] \o <<>> = toClient[c]
    BY <1>6, ConcatEmptySeq
  <2> QED BY <2>4, <2>5 DEF v
<1>9. /\ x \in Seq(AnswerPiece(c)) /\ y \in Seq(AnswerPiece(c)) /\ x \o y = out
      /\ toClient[c] \o x \in Seq(AnswerPiece(c)) /\ Len(toClient[c] \o x) <= Window
  BY <1>6, <1>7, FlushParts DEF x, y
<1>10. IsMap(toServer') /\ UNCHANGED toServer
  BY <1>1, <1>3 DEF Whole, IsMap
<1>11. CASE broken
  <2>1. session' = [session EXCEPT ![c] = Closed(s)] /\ toClient' = [toClient EXCEPT ![c] = toClient[c]]
        /\ reading' = None
    BY <1>1, <1>8, <1>11
  <2>2. /\ IsMap(session') /\ Updates(session', session, c, Closed(s))
        /\ IsMap(toClient') /\ Updates(toClient', toClient, c, toClient[c])
    BY <1>4, <2>1, MapExcept, Zenon
  <2>3. session'[c] = Closed(session[c]) /\ toClient'[c] = toClient[c]
    BY <2>2 DEF Updates, s
  <2>4. OnlyAt(c)
    <3>1. \A d \in Clients : d # c => /\ toServer'[d] = toServer[d] /\ toClient'[d] = toClient[d]
                                     /\ session'[d] = session[d]
      BY <1>10, <2>2 DEF Updates
    <3> QED BY <1>1, <1>2, <1>5, <1>10, <2>2, <3>1, ServedOnly
  <2>5. At(c)'
    BY <1>1, <1>2, <1>3, <1>5, <1>10, <2>1, <2>3, ClosedAt
  <2> QED BY <2>4, <2>5, OthersKeep
<1>12. CASE writes
  <2>1. session' = [session EXCEPT ![c] = u] /\ toClient' = [toClient EXCEPT ![c] = toClient[c] \o x]
    BY <1>1, <1>12 DEF x
  <2>2. /\ IsMap(session') /\ Updates(session', session, c, u)
        /\ IsMap(toClient') /\ Updates(toClient', toClient, c, toClient[c] \o x)
    BY <1>4, <2>1, MapExcept, Zenon
  <2>3. session'[c] = u /\ toClient'[c] = toClient[c] \o x
    BY <2>2 DEF Updates
  <2>4. OnlyAt(c)
    <3>1. \A d \in Clients : d # c => /\ toServer'[d] = toServer[d] /\ toClient'[d] = toClient[d]
                                     /\ session'[d] = session[d]
      BY <1>10, <2>2 DEF Updates
    <3> QED BY <1>1, <1>2, <1>5, <1>10, <2>2, <3>1, ServedOnly
  <2>5. /\ u \in SessionOf(c) /\ u.state = s.state /\ u.inBuffer = s.inBuffer
        /\ u.outBuffer = y /\ u.executed = s.executed /\ u.refused = s.refused
    <3>1. <<>> \in Seq(Piece(c))
      OBVIOUS
    <3>2. Becomes(c, Flushed(s, y), s.state, s.inBuffer, y, s.executed, s.refused)
      BY <1>2, <1>7, <1>9, <3>1, SessionUpdates
    <3> QED BY <3>2, Zenon DEF Becomes, u
  <2>6. TypedAt(c)'
    BY <1>1, <1>3, <1>9, <1>10, <2>3, <2>5 DEF TypedAt, s
  <2>7. PhaseAt(c)'
    BY <1>1, <1>2, <1>5, <2>3, <2>5 DEF PhaseAt
  <2>8. AccountAt(c)'
    BY <1>1, <1>3, <1>10, <2>3, <2>5 DEF AccountAt, s
  <2>9. HeardAt(c)'
    <3>1. /\ (s.state = "ended") = FALSE /\ client[c].closed = FALSE /\ (u.state = "ended") = FALSE
      BY <1>2, <1>12, <2>5 DEF Peers
    <3>2. Heard(c, FALSE, FALSE, toClient[c], got[c], out, s.executed)
      BY <1>3, <3>1 DEF HeardAt, s, out
    <3>3. AnswersTo(<<>>) = <<>> /\ <<>> \in Seq(Lines(c))
      <4>1. <<>> \in Seq(1 .. Len(Script[c])) /\ <<>> \in Seq(Lines(c))
        OBVIOUS
      <4> QED BY <4>1, AnswersToProperties
    <3>4. out \o <<>> = out /\ s.executed \o <<>> = s.executed
      BY <1>7, ConcatEmptySeq
    <3>5. x \o y = out \o AnswersTo(<<>>)
      BY <1>9, <3>3, <3>4
    <3>6. {toClient[c], got[c], out, x, y} \subseteq Seq(AnswerPiece(c))
          /\ {s.executed, <<>>} \subseteq Seq(Lines(c))
      BY <1>6, <1>7, <1>9, <3>3
    <3>7. Heard(c, FALSE, FALSE, toClient[c] \o x, got[c], y, s.executed \o <<>>)
      BY <3>2, <3>5, <3>6, SendKeepsHeard
    <3> QED BY <1>1, <2>3, <2>5, <3>1, <3>4, <3>7 DEF HeardAt
  <2> QED BY <2>4, <2>6, <2>7, <2>8, <2>9, OthersKeep DEF At
<1>13. CASE "POLLOUT" \notin revents[c]
  <2>1. session' = [session EXCEPT ![c] = s] /\ toClient' = [toClient EXCEPT ![c] = toClient[c]]
    BY <1>1, <1>8, <1>13
  <2>2. session' = session /\ toClient' = toClient
    BY <1>4, <2>1 DEF IsMap, s
  <2>3. OnlyAt(c)
    <3>1. IsMap(session') /\ IsMap(toClient')
      BY <1>4, <2>2 DEF IsMap
    <3> QED BY <1>1, <1>2, <1>5, <1>10, <2>2, <3>1, ServedOnly
  <2>4. TypedAt(c)'
    BY <1>1, <1>3, <2>2 DEF TypedAt
  <2>5. PhaseAt(c)'
    BY <1>1, <1>2, <1>5, <2>2 DEF PhaseAt, s
  <2>6. AccountAt(c)'
    BY <1>1, <1>3, <2>2 DEF AccountAt
  <2>7. HeardAt(c)'
    BY <1>1, <1>3, <2>2 DEF HeardAt
  <2> QED BY <2>3, <2>4, <2>5, <2>6, <2>7, OthersKeep DEF At
<1>14. broken \/ writes \/ "POLLOUT" \notin revents[c]
  BY <1>2 DEF Peers
<1> QED BY <1>11, <1>12, <1>13, <1>14

\* Inside the read loop: what recv brings in, and what is known of the client then.
LEMMA RecvParts ==
  ASSUME IInv, NEW c \in Clients, reading = c, toServer[c] # <<>>
  PROVE  /\ Account(c, client[c].sent, toServer[c], session[c].executed, session[c].inBuffer)
         /\ \E n \in 0 .. Len(toServer[c]) :
                /\ n <= ReadSize /\ Filled(c) = Filling(session[c].inBuffer, toServer[c], n)
                /\ Remaining(c) = Part(toServer[c], n, Len(toServer[c]))
<1>1. TypedAt(c) /\ AccountAt(c) /\ session[c].state = "open" /\ session[c] \in SessionOf(c)
  BY ServedIsOpen DEF IInv, At
<1>2. toServer[c] \in Seq(Piece(c))
  BY <1>1 DEF TypedAt
<1>3. session[c].inBuffer \in Seq(Piece(c)) /\ session[c].executed \in Seq(Lines(c))
  BY <1>1 DEF SessionOf
<1>4. Account(c, client[c].sent, toServer[c], session[c].executed, session[c].inBuffer)
  <2>1. Len(session[c].executed) \in Nat
    BY <1>3, LenProperties
  <2>2. session[c].state # "ended"
    BY <1>1
  <2> QED BY <1>1, <1>2, <1>3, <2>1, <2>2 DEF AccountAt, Account
<1>5. PICK n \in 1 .. Len(toServer[c]) :
         /\ n <= ReadSize
         /\ Chunk(c) = Part(toServer[c], 0, n) /\ Len(Chunk(c)) = n
         /\ Remaining(c) = Part(toServer[c], n, Len(toServer[c]))
  BY <1>2, ReadParts
<1>6. Filled(c) = Filling(session[c].inBuffer, toServer[c], n)
  BY <1>5, Zenon DEF Filled, Filling
<1>7. n \in 0 .. Len(toServer[c])
  BY <1>2, LenProperties
<1> QED BY <1>4, <1>5, <1>6, <1>7

LEMMA RefuseKeeps ==
  ASSUME IInv, NEW c \in Clients, Refuse(c)
  PROVE  IInv'
<1> DEFINE s == session[c]
           out == s.outBuffer \o Answer(0)
           x == Sendable(c, out)
           y == Unsent(c, out)
           u == Refused(s)
           kernel == toClient[c]
<1>1. /\ reading = c /\ toServer[c] # <<>> /\ Len(Filled(c)) > MaxLine
      /\ session' = [session EXCEPT ![c] = u]
      /\ toClient' = IF client[c].closed THEN toClient ELSE [toClient EXCEPT ![c] = kernel \o x]
      /\ toServer' = [toServer EXCEPT ![c] = <<>>]
      /\ reading' = None
      /\ UNCHANGED <<client, got, revents, listening>>
  BY DEF Refuse, TooLong, Refused
<1>2. /\ ~listening /\ reading # "stopped" /\ s.state = "open" /\ client[c].phase = "accepted"
      /\ s \in SessionOf(c) /\ c # None /\ client[c] \in Peers
  BY <1>1, ServedIsOpen
<1>3. Whole /\ TypedAt(c) /\ PhaseAt(c) /\ AccountAt(c) /\ HeardAt(c)
  BY DEF IInv, At
<1>4. IsMap(session) /\ IsMap(toClient) /\ IsMap(toServer)
  BY <1>3 DEF Whole
<1>5. kernel \in Seq(AnswerPiece(c)) /\ Len(kernel) <= Window /\ got[c] \in Seq(AnswerPiece(c))
  BY <1>3 DEF TypedAt
<1>6. s.outBuffer \in Seq(AnswerPiece(c)) /\ s.executed \in Seq(Lines(c))
  BY <1>2 DEF SessionOf
<1>7. out \in Seq(AnswerPiece(c))
  <2>1. Answer(0) \in Seq(AnswerPiece(c))
    <3>1. 0 \in 0 .. Len(Script[c])
      BY Scripts
    <3> QED BY <3>1, AnswerType
  <2> QED BY <1>6, <2>1, ConcatProperties
<1>8. Becomes(c, u, "ended", <<>>, <<>>, s.executed, TRUE)
  <2>1. <<>> \in Seq(Piece(c))
    OBVIOUS
  <2> QED BY <1>2, <1>6, <2>1, SessionUpdates
<1>9. \E m \in Lines(c) : Script[c][m] > MaxLine - ReadSize + 1
  <2>1. Account(c, client[c].sent, toServer[c], s.executed, s.inBuffer)
    BY <1>1, RecvParts
  <2>2. PICK n \in 0 .. Len(toServer[c]) :
           n <= ReadSize /\ Filled(c) = Filling(s.inBuffer, toServer[c], n)
    BY <1>1, RecvParts
  <2>3. Len(Filling(s.inBuffer, toServer[c], n)) > MaxLine
    BY <1>1, <2>2
  <2> QED BY <2>1, <2>2, <2>3, RefusedIsLong
<1> HIDE DEF s, out, u, kernel
<1>10. /\ x \in Seq(AnswerPiece(c)) /\ y \in Seq(AnswerPiece(c)) /\ x \o y = out
       /\ kernel \o x \in Seq(AnswerPiece(c)) /\ Len(kernel \o x) <= Window
  BY <1>5, <1>7, FlushParts DEF kernel
<1> HIDE DEF x, y
<1>11. /\ IsMap(session') /\ Updates(session', session, c, u)
       /\ IsMap(toServer') /\ Updates(toServer', toServer, c, <<>>)
  BY <1>1, <1>4, MapExcept, Zenon
<1>12. IsMap(toClient') /\ \A d \in Clients : d # c => toClient'[d] = toClient[d]
  <2>1. CASE client[c].closed
    BY <1>1, <1>4, <2>1 DEF IsMap
  <2>2. CASE ~client[c].closed
    <3>1. toClient' = [toClient EXCEPT ![c] = kernel \o x]
      BY <1>1, <2>2
    <3>2. IsMap(toClient') /\ Updates(toClient', toClient, c, kernel \o x)
      BY <1>4, <3>1, MapExcept, Zenon
    <3> QED BY <3>2 DEF Updates
  <2> QED BY <2>1, <2>2
<1>13. /\ client[c].closed => toClient'[c] = kernel
       /\ ~client[c].closed => toClient'[c] = kernel \o x
  <2>1. CASE client[c].closed
    BY <1>1, <2>1 DEF kernel
  <2>2. CASE ~client[c].closed
    <3>1. toClient' = [toClient EXCEPT ![c] = kernel \o x]
      BY <1>1, <2>2
    <3>2. Updates(toClient', toClient, c, kernel \o x)
      BY <1>4, <3>1, MapExcept, Zenon
    <3> QED BY <2>2, <3>2 DEF Updates
  <2> QED BY <2>1, <2>2
<1>14. session'[c] = u /\ toServer'[c] = <<>>
  BY <1>11 DEF Updates
<1>15. OnlyAt(c)
  <2>1. \A d \in Clients : d # c => /\ toServer'[d] = toServer[d] /\ toClient'[d] = toClient[d]
                                   /\ session'[d] = session[d]
    BY <1>11, <1>12 DEF Updates
  <2> QED BY <1>1, <1>2, <1>11, <1>12, <2>1, ServedOnly
<1>16. /\ u \in SessionOf(c) /\ u.state = "ended" /\ u.inBuffer = <<>> /\ u.outBuffer = <<>>
       /\ u.executed = s.executed /\ u.refused = TRUE
  BY <1>8 DEF Becomes
<1>17. TypedAt(c)'
  <2>1. Len(<<>>) <= MaxLine /\ <<>> \in Seq(Piece(c))
    BY IpcAssumption
  <2>2. toClient'[c] \in Seq(AnswerPiece(c)) /\ Len(toClient'[c]) <= Window
    BY <1>5, <1>10, <1>13
  <2> QED BY <1>1, <1>5, <1>14, <1>16, <2>1, <2>2 DEF TypedAt
<1>18. PhaseAt(c)'
  <2>1. revents'[c] = {} /\ reading' # c
    BY <1>1, <1>2, <1>3 DEF PhaseAt
  <2> QED BY <1>1, <1>2, <1>14, <1>16, <2>1 DEF PhaseAt
<1>19. AccountAt(c)'
  <2>1. Ordered(c, client[c].sent, s.executed) /\ Limited(c, s.executed, s.refused)
    BY <1>3 DEF AccountAt, s
  <2>2. Limited(c, s.executed, TRUE)
    BY <1>9, <2>1 DEF Limited
  <2> QED BY <1>1, <1>14, <1>16, <2>1, <2>2 DEF AccountAt
<1>20. HeardAt(c)'
  <2>1. (s.state = "ended") = FALSE /\ (u.state = "ended") = TRUE
    BY <1>2, <1>16
  <2>2. Heard(c, FALSE, client[c].closed, kernel, got[c], s.outBuffer, s.executed)
    BY <1>3, <2>1 DEF HeardAt, s, kernel
  <2>3. Heard(c, TRUE, client[c].closed, toClient'[c], got[c], <<>>, s.executed)
    <3>1. CASE client[c].closed
      <4> DEFINE closed == client[c].closed
                 before == s.outBuffer
                 done == s.executed
      <4>1. Heard(c, FALSE, closed, kernel, got[c], before, done)
        BY <2>2
      <4> HIDE DEF closed, before, done
      <4>2. Heard(c, TRUE, closed, kernel, got[c], <<>>, done)
        BY <1>5, <4>1, ClientKeepsHeard
      <4> QED BY <1>13, <3>1, <4>2 DEF closed, done
    <3>2. CASE ~client[c].closed
      <4>1. client[c].closed = FALSE /\ toClient'[c] = kernel \o x
        BY <1>2, <1>13, <3>2 DEF Peers
      <4>2. Heard(c, FALSE, FALSE, kernel, got[c], s.outBuffer, s.executed)
        BY <2>2, <4>1
      <4>3. x \o y = s.outBuffer \o Answer(0)
        BY <1>10 DEF out
      <4>4. {kernel, got[c], s.outBuffer, x, y} \subseteq Seq(AnswerPiece(c))
            /\ {s.executed, <<>>} \subseteq Seq(Lines(c))
        BY <1>5, <1>6, <1>10
      <4>5. Heard(c, TRUE, FALSE, kernel \o x, got[c], <<>>, s.executed)
        BY <4>2, <4>3, <4>4, SendKeepsHeard
      <4> QED BY <4>1, <4>5
    <3> QED BY <3>1, <3>2
  <2> QED BY <1>1, <1>14, <1>16, <2>1, <2>3 DEF HeardAt
<1> QED BY <1>15, <1>17, <1>18, <1>19, <1>20, OthersKeep DEF At

LEMMA ExecuteKeeps ==
  ASSUME IInv, NEW c \in Clients, Execute(c)
  PROVE  IInv'
<1> DEFINE s == session[c]
           kernel == toClient[c]
           sent == client[c].sent
           lines == LinesIn(c, Filled(c))
           rest == Rest(c, Filled(c))
           left == Remaining(c)
           waiting == s.outBuffer
           done == s.executed
           out == waiting \o AnswersTo(lines)
           x == Sendable(c, out)
           y == Unsent(c, out)
           one == Append(done, Head(lines))
           kept == IF lines = <<>> THEN waiting ELSE y
           u == Advanced(s, rest, kept, done \o lines)
           v == GivenUp(s, one)
           gone == client[c].closed /\ lines # <<>>
<1>1. /\ reading = c /\ toServer[c] # <<>> /\ Len(Filled(c)) <= MaxLine
      /\ toServer' = [toServer EXCEPT ![c] = left]
      /\ UNCHANGED <<client, got, revents, listening>>
  <2>1. /\ reading = c /\ toServer[c] # <<>> /\ ~(Len(Filled(c)) > MaxLine)
        /\ toServer' = [toServer EXCEPT ![c] = left]
        /\ UNCHANGED <<client, got, revents, listening>>
    BY DEF Execute, TooLong
  <2>2. Len(Filled(c)) \in Nat /\ MaxLine \in Nat
    <3>1. PICK n \in 0 .. Len(toServer[c]) : Filled(c) = Filling(s.inBuffer, toServer[c], n)
      BY <2>1, RecvParts
    <3>2. Filling(s.inBuffer, toServer[c], n) \in Seq(Piece(c))
      BY <2>1, RecvParts, ReadOn
    <3> QED BY <3>1, <3>2, LenProperties, IpcAssumption
  <2> QED BY <2>1, <2>2
<1>2. gone => /\ session' = [session EXCEPT ![c] = v] /\ reading' = None
              /\ UNCHANGED toClient
  BY Zenon DEF Execute, GivenUp
<1>3. ~gone => /\ session' = [session EXCEPT ![c] = u] /\ reading' = c
               /\ toClient' = IF lines = <<>> THEN toClient
                              ELSE [toClient EXCEPT ![c] = kernel \o x]
  BY Zenon DEF Execute, Advanced
<1>4. /\ ~listening /\ reading # "stopped" /\ s.state = "open" /\ client[c].phase = "accepted"
      /\ s \in SessionOf(c) /\ c # None /\ client[c] \in Peers
  BY <1>1, ServedIsOpen
<1>5. Whole /\ TypedAt(c) /\ PhaseAt(c) /\ AccountAt(c) /\ HeardAt(c)
  BY DEF IInv, At
<1>6. IsMap(session) /\ IsMap(toClient) /\ IsMap(toServer) /\ revents[c] = {}
  BY <1>1, <1>5 DEF Whole, PhaseAt
<1>7. kernel \in Seq(AnswerPiece(c)) /\ Len(kernel) <= Window /\ got[c] \in Seq(AnswerPiece(c))
  BY <1>5 DEF TypedAt
<1>8. waiting \in Seq(AnswerPiece(c)) /\ done \in Seq(Lines(c))
  BY <1>4 DEF SessionOf
<1>9. /\ lines \in Seq(Lines(c)) /\ done \o lines \in Seq(Lines(c))
      /\ Ordered(c, sent, done \o lines) /\ Limited(c, done \o lines, s.refused)
      /\ Buffered(c, sent, left, done \o lines, rest)
      /\ rest \in Seq(Piece(c)) /\ Len(rest) <= MaxLine /\ left \in Seq(Piece(c))
      /\ lines # <<>> => one \in Seq(Lines(c)) /\ Ordered(c, sent, one) /\ Limited(c, one, s.refused)
  <2> DEFINE in == s.inBuffer
             before == toServer[c]
  <2>1. Account(c, sent, before, done, in)
    BY <1>1, RecvParts
  <2>2. PICK n \in 0 .. Len(before) :
           Filled(c) = Filling(in, before, n) /\ left = Part(before, n, Len(before))
    BY <1>1, RecvParts
  <2>3. Limited(c, done, s.refused)
    BY <1>5 DEF AccountAt
  <2>4. before \in Seq(Piece(c))
    BY <2>1 DEF Account
  <2>5. left \in Seq(Piece(c))
    BY <2>2, <2>4, CutInTwo
  <2>6. Len(Filling(in, before, n)) <= MaxLine
    BY <1>1, <2>2
  <2> HIDE DEF before, in, sent, done
  <2>7. /\ lines \in Seq(Lines(c)) /\ done \o lines \in Seq(Lines(c))
        /\ Ordered(c, sent, done \o lines) /\ Limited(c, done \o lines, s.refused)
        /\ Buffered(c, sent, Part(before, n, Len(before)), done \o lines, rest)
        /\ rest \in Seq(Piece(c)) /\ Len(rest) <= MaxLine
        /\ lines # <<>> => one \in Seq(Lines(c)) /\ Ordered(c, sent, one) /\ Limited(c, one, s.refused)
    BY <2>1, <2>2, <2>3, <2>6, TakeLines
  <2> QED BY <2>2, <2>5, <2>7
<1>10. out \in Seq(AnswerPiece(c)) /\ AnswersTo(lines) \in Seq(AnswerPiece(c))
       /\ (lines = <<>> => AnswersTo(lines) = <<>>)
  <2>1. AnswersTo(lines) \in Seq(AnswerPiece(c)) /\ AnswersTo(<<>>) = <<>>
    BY <1>9, AnswersToProperties DEF Lines
  <2> QED BY <1>8, <2>1, ConcatProperties
<1> HIDE DEF s, kernel, lines, rest, left, waiting, done, out, one, sent
<1>11. /\ x \in Seq(AnswerPiece(c)) /\ y \in Seq(AnswerPiece(c)) /\ x \o y = out
       /\ kernel \o x \in Seq(AnswerPiece(c)) /\ Len(kernel \o x) <= Window
  BY <1>7, <1>10, FlushParts DEF kernel
<1> HIDE DEF x, y
<1>12. kept \in Seq(AnswerPiece(c))
  BY <1>8, <1>11
<1> HIDE DEF kept
<1>13. Becomes(c, u, s.state, rest, kept, done \o lines, s.refused)
  BY <1>4, <1>9, <1>12, SessionUpdates
<1>14. lines # <<>> => Becomes(c, v, "ended", <<>>, <<>>, one, s.refused)
  BY <1>4, <1>9, <1>12, SessionUpdates
<1> HIDE DEF u, v
<1>15. /\ u \in SessionOf(c) /\ u.state = "open" /\ u.inBuffer = rest /\ u.outBuffer = kept
       /\ u.executed = done \o lines /\ u.refused = s.refused
  BY <1>4, <1>13 DEF Becomes
<1>16. lines # <<>> => /\ v \in SessionOf(c) /\ v.state = "ended" /\ v.inBuffer = <<>>
                       /\ v.outBuffer = <<>> /\ v.executed = one /\ v.refused = s.refused
  BY <1>14 DEF Becomes
<1>17. IsMap(toServer') /\ Updates(toServer', toServer, c, left)
  BY <1>1, <1>6, MapExcept, Zenon
<1>18. toServer'[c] = left /\ \A d \in Clients : d # c => toServer'[d] = toServer[d]
  BY <1>17 DEF Updates
<1>19. CASE gone
  <2>1. IsMap(session') /\ Updates(session', session, c, v)
    <3>1. session' = [session EXCEPT ![c] = v]
      BY <1>2, <1>19
    <3> QED BY ONLY c \in Clients, <1>6, <3>1, MapExcept, Zenon
  <2>2. session'[c] = v /\ \A d \in Clients : d # c => session'[d] = session[d]
    BY <2>1 DEF Updates
  <2>3. /\ v \in SessionOf(c) /\ v.state = "ended" /\ v.inBuffer = <<>>
        /\ v.outBuffer = <<>> /\ v.executed = one /\ v.refused = s.refused
    BY <1>16, <1>19
  <2>4. reading' = None /\ toClient' = toClient /\ client[c].closed = TRUE
    BY <1>2, <1>4, <1>19 DEF Peers
  <2>5. OnlyAt(c)
    <3>1. IsMap(toClient') /\ \A d \in Clients : d # c => toClient'[d] = toClient[d]
      BY <1>6, <2>4 DEF IsMap
    <3> QED BY <1>1, <1>4, <1>17, <1>18, <2>1, <2>2, <2>4, <3>1, ServedOnly
  <2>6. TypedAt(c)'
    <3>1. Len(<<>>) <= MaxLine
      BY IpcAssumption
    <3> QED BY <1>1, <1>5, <1>9, <1>18, <2>2, <2>3, <2>4, <3>1 DEF TypedAt
  <2>7. PhaseAt(c)'
    BY <1>1, <1>4, <1>6, <2>2, <2>3, <2>4 DEF PhaseAt
  <2>8. AccountAt(c)'
    BY <1>1, <1>9, <1>19, <2>2, <2>3 DEF AccountAt, sent
  <2>9. HeardAt(c)'
    <3>1. (s.state = "ended") = FALSE /\ (v.state = "ended") = TRUE
      BY <1>4, <2>3
    <3>2. Heard(c, FALSE, TRUE, kernel, got[c], waiting, done)
      BY <1>5, <2>4, <3>1 DEF HeardAt, s, kernel, waiting, done
    <3>3. Head(lines) \in Lines(c)
      BY <1>9, <1>19, HeadTailProperties
    <3>4. Heard(c, TRUE, TRUE, kernel, got[c], <<>>, one)
      BY <1>7, <1>8, <3>2, <3>3, GoneKeepsHeard DEF one
    <3> QED BY <1>1, <2>2, <2>3, <2>4, <3>1, <3>4 DEF HeardAt, kernel
  <2> QED BY <2>5, <2>6, <2>7, <2>8, <2>9, OthersKeep DEF At
<1>20. CASE ~gone
  <2>1. IsMap(session') /\ Updates(session', session, c, u)
    <3>1. session' = [session EXCEPT ![c] = u]
      BY <1>3, <1>20
    <3> QED BY ONLY c \in Clients, <1>6, <3>1, MapExcept, Zenon
  <2>2. session'[c] = u /\ \A d \in Clients : d # c => session'[d] = session[d]
    BY <2>1 DEF Updates
  <2>3. reading' = c
    BY <1>3, <1>20
  <2>4. /\ IsMap(toClient') /\ \A d \in Clients : d # c => toClient'[d] = toClient[d]
        /\ lines = <<>> => toClient'[c] = kernel
        /\ lines # <<>> => toClient'[c] = kernel \o x
    <3>1. CASE lines = <<>>
      <4>1. toClient' = toClient
        BY <1>3, <1>20, <3>1
      <4> QED BY <1>6, <3>1, <4>1 DEF IsMap, kernel
    <3>2. CASE lines # <<>>
      <4>1. toClient' = [toClient EXCEPT ![c] = kernel \o x]
        BY <1>3, <1>20, <3>2
      <4>2. IsMap(toClient') /\ Updates(toClient', toClient, c, kernel \o x)
        BY <1>6, <4>1, MapExcept, Zenon
      <4> QED BY <3>2, <4>2 DEF Updates
    <3> QED BY <3>1, <3>2
  <2>5. OnlyAt(c)
    BY <1>1, <1>4, <1>17, <1>18, <2>1, <2>2, <2>3, <2>4, ServedOnly
  <2>6. TypedAt(c)'
    <3>1. toClient'[c] \in Seq(AnswerPiece(c)) /\ Len(toClient'[c]) <= Window
      BY <1>7, <1>11, <2>4
    <3> QED BY <1>1, <1>7, <1>9, <1>15, <1>18, <2>2, <3>1 DEF TypedAt
  <2>7. PhaseAt(c)'
    BY <1>1, <1>4, <1>6, <1>15, <2>2, <2>3 DEF PhaseAt
  <2>8. AccountAt(c)'
    BY <1>1, <1>9, <1>15, <1>18, <2>2 DEF AccountAt, sent
  <2>9. HeardAt(c)'
    <3>1. (s.state = "ended") = FALSE /\ (u.state = "ended") = FALSE
      BY <1>4, <1>15
    <3>2. Heard(c, FALSE, client[c].closed, kernel, got[c], waiting, done)
      BY <1>5, <3>1 DEF HeardAt, s, kernel, waiting, done
    <3>3. CASE lines = <<>>
      <4>1. done \o lines = done /\ kept = waiting
        BY <1>8, <3>3, ConcatEmptySeq DEF kept
      <4>2. Heard(c, FALSE, client[c].closed, toClient'[c], got[c], kept, done \o lines)
        BY <2>4, <3>2, <3>3, <4>1
      <4> QED BY <1>1, <1>15, <2>2, <3>1, <4>2 DEF HeardAt
    <3>4. CASE lines # <<>>
      <4>1. client[c].closed = FALSE /\ kept = y /\ toClient'[c] = kernel \o x
        BY <1>4, <1>20, <2>4, <3>4 DEF Peers, kept
      <4>2. Heard(c, FALSE, FALSE, kernel, got[c], waiting, done)
        BY <3>2, <4>1
      <4>3. x \o y = waiting \o AnswersTo(lines)
        BY <1>11 DEF out
      <4>4. {kernel, got[c], waiting, x, y} \subseteq Seq(AnswerPiece(c))
            /\ {done, lines} \subseteq Seq(Lines(c))
        BY <1>7, <1>8, <1>9, <1>11
      <4>5. Heard(c, FALSE, FALSE, kernel \o x, got[c], y, done \o lines)
        BY <4>2, <4>3, <4>4, SendKeepsHeard
      <4> QED BY <1>1, <1>15, <2>2, <3>1, <4>1, <4>5 DEF HeardAt
    <3> QED BY <3>3, <3>4
  <2> QED BY <2>5, <2>6, <2>7, <2>8, <2>9, OthersKeep DEF At
<1> QED BY <1>19, <1>20

-----------------------------------------------------------------------------
(* The invariant holds of every behaviour *)

LEMMA InitHolds ==
  ASSUME Init
  PROVE  IInv
<1>1. Whole /\ (listening => reading = None)
  BY DEF Init, Whole, IsMap, Peers
<1>2. ASSUME NEW c \in Clients PROVE At(c)
  <2>1. /\ client[c].phase = "away" /\ client[c].sent = 0 /\ client[c].closed = FALSE
        /\ toServer[c] = <<>> /\ toClient[c] = <<>> /\ got[c] = <<>> /\ session[c] = Fresh
        /\ revents[c] = {} /\ reading # c
    BY IpcAssumption DEF Init
  <2>2. /\ session[c].state = "none" /\ session[c].inBuffer = <<>> /\ session[c].outBuffer = <<>>
        /\ session[c].executed = <<>> /\ session[c].refused = FALSE
    BY <2>1 DEF Fresh
  <2>3. Len(<<>>) = 0 /\ \A S : <<>> \in Seq(S)
    OBVIOUS
  <2>4. TypedAt(c)
    <3>1. Len(<<>>) <= MaxLine /\ Len(<<>>) <= Window
      BY IpcAssumption
    <3>2. Fresh \in SessionOf(c)
      <4> DEFINE In == Seq(Piece(c))
                 Out == Seq(AnswerPiece(c))
                 Done == Seq(Lines(c))
      <4>1. <<>> \in In /\ <<>> \in Out /\ <<>> \in Done
        OBVIOUS
      <4> HIDE DEF In, Out, Done
      <4>2. Fresh \in [state : {"none", "open", "ended"}, inBuffer : In, outBuffer : Out,
                       executed : Done, refused : BOOLEAN]
        BY ONLY <4>1 DEF Fresh
      <4> QED BY <4>2 DEF SessionOf, In, Out, Done
    <3> QED BY <2>1, <2>2, <2>3, <3>1, <3>2 DEF TypedAt
  <2>5. PhaseAt(c)
    BY <2>1, <2>2 DEF PhaseAt
  <2>6. AccountAt(c)
    <3>1. 0 \in 0 .. Len(Script[c]) /\ 0 \in 0 .. Len(Stream[c])
      BY Scripts, Ends
    <3>2. LineEnd(c)[0] = 0
      BY Ends
    <3>3. Complete(c, 0) = 0
      <4>1. {i \in 1 .. 0 : IsNewline(c, Stream[c][i])} = {}
        OBVIOUS
      <4> QED BY <4>1, FS_EmptySet, Zenon DEF Complete
    <3>4. Run(0, 0) = <<>>
      BY DEF Run
    <3>5. Part(Stream[c], 0, 0) = <<>>
      <4>1. Stream[c] \in Seq(Piece(c))
        BY StreamLaid
      <4> QED BY <3>1, <4>1, PartEmpty
    <3>6. Ordered(c, 0, <<>>)
      BY <2>3, <3>1, <3>3, <3>4 DEF Ordered
    <3>7. Limited(c, <<>>, FALSE)
      BY <2>3 DEF Limited
    <3>8. Taken(c, <<>>) = 0 /\ ReadTo(c, <<>>, <<>>) = 0
      BY <2>3, <3>2 DEF Taken, ReadTo
    <3>9. Buffered(c, 0, <<>>, <<>>, <<>>)
      BY <2>3, <3>3, <3>5, <3>8 DEF Buffered
    <3> QED BY <2>1, <2>2, <3>6, <3>7, <3>9 DEF AccountAt
  <2>7. HeardAt(c)
    <3>1. AnswersTo(<<>>) = <<>>
      <4>1. <<>> \in Seq(1 .. Len(Script[c]))
        OBVIOUS
      <4> QED BY <4>1, AnswersToProperties
    <3>2. Answer(0) \in Seq(AnswerPiece(c))
      <4>1. 0 \in 0 .. Len(Script[c])
        BY Scripts
      <4> QED BY <4>1, AnswerType
    <3>3. <<>> \o <<>> = <<>> /\ <<>> \o Answer(0) = Answer(0)
      BY <3>2, ConcatEmptySeq
    <3>4. Begins(c, <<>>, <<>>) /\ Begins(c, <<>>, Answer(0))
      BY <2>3, <3>2, <3>3, Zenon DEF Begins
    <3>5. Heard(c, FALSE, FALSE, <<>>, <<>>, <<>>, <<>>)
      BY <3>1, <3>3, <3>4, Zenon DEF Heard
    <3>6. (session[c].state = "ended") = FALSE
      BY <2>2
    <3> QED BY <2>1, <2>2, <3>5, <3>6 DEF HeardAt
  <2> QED BY <2>4, <2>5, <2>6, <2>7 DEF At
<1> QED BY <1>1, <1>2 DEF IInv

LEMMA StepHolds ==
  ASSUME IInv, [Next]_vars
  PROVE  IInv'
<1>1. ASSUME NEW c \in Clients,
             \/ Connect(c) \/ Send(c) \/ Receive(c) \/ HalfClose(c) \/ Vanish(c)
             \/ Served(c)
      PROVE  IInv'
  <2>1. CASE Connect(c)
    BY <2>1, ConnectKeeps
  <2>2. CASE Send(c)
    BY <2>2, SendStepKeeps
  <2>3. CASE Receive(c)
    BY <2>3, ReceiveKeeps
  <2>4. CASE HalfClose(c)
    BY <2>4, HalfCloseKeeps
  <2>5. CASE Vanish(c)
    BY <2>5, VanishKeeps
  <2>6. CASE ServeHangup(c)
    BY <2>6, ServeHangupKeeps
  <2>7. CASE ServeReady(c)
    BY <2>7, ServeReadyKeeps
  <2>8. CASE Refuse(c)
    BY <2>8, RefuseKeeps
  <2>9. CASE Execute(c)
    BY <2>9, ExecuteKeeps
  <2>10. CASE ReadEnds(c)
    BY <2>10, ReadEndsKeeps
  <2> QED BY <1>1, <2>1, <2>2, <2>3, <2>4, <2>5, <2>6, <2>7, <2>8, <2>9, <2>10 DEF Served
<1>2. CASE Poll
  BY <1>2, PollKeeps
<1>3. CASE AcceptClients
  BY <1>3, AcceptKeeps
<1>4. CASE Stop
  BY <1>4, StopKeeps
<1>5. CASE UNCHANGED vars
  <2>1. UNCHANGED <<client, toServer, toClient, got, session, revents, listening, reading>>
    BY <1>5 DEF vars
  <2>2. Whole' /\ (listening => reading = None)'
    BY <2>1 DEF IInv, Whole, IsMap
  <2>3. ASSUME NEW c \in Clients PROVE At(c)'
    BY <2>1 DEF IInv, At, TypedAt, PhaseAt, AccountAt, HeardAt
  <2> QED BY <2>2, <2>3 DEF IInv
<1> QED BY <1>1, <1>2, <1>3, <1>4, <1>5 DEF Next

\* The inductive invariant: each client's stream is cut without a gap or an
\* overlap into the lines that were executed, inBuffer, the kernel's buffer and
\* what is still to be sent, and the answers likewise (IpcServer.cpp:254-408).
THEOREM StreamsAccounted == Spec => []IInv
<1>1. Init => IInv
  BY InitHolds
<1>2. IInv /\ [Next]_vars => IInv'
  BY StepHolds
<1> QED BY <1>1, <1>2, PTL DEF Spec

\* The variables keep their types, inBuffer its limit and the kernel its window,
\* for every set of clients and every script (IpcServer.cpp:254-342).
THEOREM IpcTypeCorrect == Spec => []TypeOK
<1>1. IInv => TypeOK
  BY IInvSafe
<1> QED BY <1>1, StreamsAccounted, PTL

\* No line over the limit is executed, and nobody is refused who sends no line
\* that one recv could push over it (IpcServer.cpp:262-286).
THEOREM LineLimitHolds == Spec => []LineLimit
<1>1. IInv => LineLimit
  BY IInvSafe
<1> QED BY <1>1, StreamsAccounted, PTL

-----------------------------------------------------------------------------
(* The promise is kept *)

LEMMA PromiseOperators ==
  /\ \A s : Promise!FlattenSeq(s) = FlattenSeq(s)
  /\ \A n : Promise!Answer(n) = Answer(n)
<1>1. \A s : Promise!FlattenSeq(s) = FlattenSeq(s)
  BY Zenon DEF FlattenSeq, Promise!FlattenSeq
<1>2. \A n : Promise!Answer(n) = Answer(n)
  BY Zenon DEF Promise!Answer, Answer
<1> QED BY <1>1, <1>2

\* The abstract state.
Said == [c \in Clients |-> Complete(c, client[c].sent)]
Done == [c \in Clients |-> session[c].executed]
Over == [c \in Clients |-> session[c].state = "ended"]

\* Each abstract step, in terms of that state.
LEMMA PromiseSays ==
  ASSUME NEW c \in Clients, NEW n \in Said[c] + 1 .. Len(Script[c]),
         Said' = [Said EXCEPT ![c] = n], Done' = Done, got' = got, Over' = Over
  PROVE  Promise!Next
BY DEF Promise!Next, Promise!Say, Said, Done, Over, Complete

LEMMA PromiseExecutes ==
  ASSUME NEW c \in Clients, ~Over[c], NEW n \in Len(Done[c]) + 1 .. Said[c],
         Done' = [Done EXCEPT ![c] = [i \in 1 .. n |-> i]],
         Over' = Over \/ Over' = [Over EXCEPT ![c] = TRUE], Said' = Said, got' = got
  PROVE  Promise!Next
BY DEF Promise!Next, Promise!Execute, Promise!FirstLines, Said, Done, Over, Complete

LEMMA PromiseHears ==
  ASSUME NEW c \in Clients, session[c].executed \in Seq(Lines(c)),
         NEW n \in Len(got[c]) + 1 .. Len(AnswersTo(session[c].executed) \o Answer(0)),
         got' = [got EXCEPT ![c] = SubSeq(AnswersTo(session[c].executed) \o Answer(0), 1, n)],
         Promise!IsPrefix(got[c], got'[c]),
         Said' = Said, Done' = Done, Over' = Over
  PROVE  Promise!Next
<1>1. Promise!Answers(c) = AnswersTo(session[c].executed) \o Answer(0)
  <2> DEFINE s == session[c].executed
  <2>1. DOMAIN s = 1 .. Len(s)
    BY LenProperties
  <2>2. [d \in Clients |-> session[d].executed][c] = s
    OBVIOUS
  <2>3. Promise!Answers(c) = Promise!FlattenSeq([i \in DOMAIN s |-> Promise!Answer(s[i])])
                                 \o Promise!Answer(0)
    BY <2>2, Zenon DEF Promise!Answers
  <2> HIDE DEF s
  <2>4. [i \in DOMAIN s |-> Promise!Answer(s[i])] = [i \in 1 .. Len(s) |-> Answer(s[i])]
    BY <2>1, PromiseOperators
  <2>5. Promise!FlattenSeq([i \in DOMAIN s |-> Promise!Answer(s[i])]) = AnswersTo(s)
    BY <2>4, PromiseOperators, Zenon DEF AnswersTo
  <2> QED BY <2>3, <2>5, PromiseOperators, Zenon DEF s
<1>2. UNCHANGED <<Said, Done, Over>>
  OBVIOUS
<1>3. Promise!Hear(c)
  BY <1>1, <1>2 DEF Promise!Hear, Said, Done, Over, Complete
<1> QED BY <1>3 DEF Promise!Next

LEMMA PromiseEnds ==
  ASSUME NEW c \in Clients, Over' = [Over EXCEPT ![c] = TRUE],
         Said' = Said, Done' = Done, got' = got
  PROVE  Promise!Next
BY DEF Promise!Next, Promise!End, Said, Done, Over, Complete

LEMMA PromiseEndsAll ==
  ASSUME NEW gone \in SUBSET Clients, Over' = [c \in Clients |-> Over[c] \/ c \in gone],
         Said' = Said, Done' = Done, got' = got
  PROVE  Promise!Next
BY DEF Promise!Next, Promise!EndAll, Said, Done, Over, Complete

LEMMA PromiseWaits ==
  ASSUME Said' = Said, Done' = Done, got' = got, Over' = Over
  PROVE  UNCHANGED Promise!vars
BY DEF Promise!vars, Said, Done, Over, Complete

\* A client's part of the abstract state stays as it is.
SeenAlike(c) ==
    /\ client'[c].sent = client[c].sent
    /\ session'[c].executed = session[c].executed
    /\ (session'[c].state = "ended") = (session[c].state = "ended")

LEMMA MapsDiffer ==
  \A f, g : IsMap(f) /\ IsMap(g) =>
      \A c \in Clients : \A v : Updates(g, f, c, v) => g = [f EXCEPT ![c] = v]
<1> SUFFICES ASSUME NEW f, NEW g, NEW c \in Clients, NEW v, IsMap(f), IsMap(g), Updates(g, f, c, v)
             PROVE  g = [f EXCEPT ![c] = v]
  OBVIOUS
<1> DEFINE h == [f EXCEPT ![c] = v]
<1>1. IsMap(h) /\ Updates(h, f, c, v)
  BY MapExcept, Zenon
<1> HIDE DEF h
<1>2. \A d \in Clients : h[d] = g[d]
  BY <1>1 DEF Updates
<1>3. h = [d \in Clients |-> h[d]] /\ g = [d \in Clients |-> g[d]]
  BY <1>1 DEF IsMap
<1>4. [d \in Clients |-> h[d]] = [d \in Clients |-> g[d]]
  BY <1>2
<1> QED BY <1>3, <1>4 DEF h

LEMMA AlikeWaits ==
  ASSUME \A c \in Clients : SeenAlike(c), got' = got
  PROVE  UNCHANGED Promise!vars
<1>1. Said' = Said
  BY DEF SeenAlike, Said
<1>2. Done' = Done
  BY DEF SeenAlike, Done
<1>3. Over' = Over
  BY DEF SeenAlike, Over
<1> QED BY <1>1, <1>2, <1>3, PromiseWaits

LEMMA OneEnds ==
  ASSUME NEW c \in Clients, \A d \in Clients : d # c => SeenAlike(d), got' = got,
         client'[c].sent = client[c].sent, session'[c].executed = session[c].executed,
         session'[c].state = "ended"
  PROVE  Promise!Next
<1>1. Said' = Said
  BY DEF SeenAlike, Said
<1>2. Done' = Done
  BY DEF SeenAlike, Done
<1>3. Over' = [Over EXCEPT ![c] = TRUE]
  <2>1. IsMap(Over) /\ IsMap(Over')
    BY DEF Over, IsMap
  <2>2. Updates(Over', Over, c, TRUE)
    BY DEF Updates, Over, SeenAlike
  <2> QED BY <2>1, <2>2, MapsDiffer, Zenon
<1> QED BY <1>1, <1>2, <1>3, PromiseEnds

LEMMA SendSays ==
  ASSUME IInv, NEW c \in Clients, Send(c)
  PROVE  Promise!Next \/ UNCHANGED Promise!vars
<1>1. PICK n \in client[c].sent + 1 .. Len(Stream[c]) : client' = [client EXCEPT ![c].sent = n]
  BY DEF Send
<1>2. UNCHANGED <<toClient, got, session, revents, listening, reading>>
  BY DEF Send, server
<1>3. client[c] \in Peers /\ client \in [Clients -> Peers] /\ client[c].sent \in 0 .. Len(Stream[c])
  BY DEF IInv, Whole, At, AccountAt, Ordered
<1>4. client'[c].sent = n /\ \A d \in Clients : d # c => client'[d] = client[d]
  BY <1>1, <1>3 DEF Peers
<1>5. n \in 0 .. Len(Stream[c]) /\ client[c].sent <= n
  BY <1>1, <1>3, Ends
<1> DEFINE k == Complete(c, client[c].sent)
           m == Complete(c, n)
<1>6. k \in Nat /\ m \in 0 .. Len(Script[c]) /\ k <= m /\ Len(Script[c]) \in Nat
  BY <1>3, <1>5, CompleteGrows, CompleteBounds, Scripts
<1> HIDE DEF k, m
<1>7. Said[c] = k
  BY DEF Said, k
<1>8. Updates(Said', Said, c, m)
  BY <1>4 DEF Updates, Said, m
<1>9. Said' = [Said EXCEPT ![c] = m]
  <2>1. IsMap(Said) /\ IsMap(Said')
    BY DEF Said, IsMap
  <2> QED BY <1>8, <2>1, MapsDiffer, Zenon
<1>10. Done' = Done /\ Over' = Over /\ got' = got
  BY <1>2 DEF Done, Over
<1>11. CASE k = m
  <2>1. [Said EXCEPT ![c] = Said[c]] = Said
    BY DEF Said
  <2>2. Said' = Said
    BY <1>7, <1>9, <1>11, <2>1
  <2> QED BY <1>10, <2>2, PromiseWaits
<1>12. CASE k # m
  <2>1. m \in Said[c] + 1 .. Len(Script[c])
    BY <1>6, <1>7, <1>12
  <2> QED BY <1>9, <1>10, <2>1, PromiseSays
<1> QED BY <1>11, <1>12

\* A prefix that has been read, and the one after it.
LEMMA BeginsIsPart ==
  ASSUME NEW c, NEW s \in Seq(AnswerPiece(c)), NEW t \in Seq(AnswerPiece(c)), NEW u, Begins(c, s \o t, u)
  PROVE  /\ Len(s \o t) \in Len(s) .. Len(u) /\ Len(s \o t) = Len(s) + Len(t)
         /\ SubSeq(u, 1, Len(s \o t)) = s \o t /\ SubSeq(s \o t, 1, Len(s)) = s
         /\ SubSeq(s, 1, Len(s)) = s
<1> DEFINE P == AnswerPiece(c)
           v == s \o t
<1>1. PICK rest \in Seq(P) : v \o rest = u
  BY DEF Begins
<1>2. s \in Seq(P) /\ t \in Seq(P)
  OBVIOUS
<1> HIDE DEF P
<1>3. v \in Seq(P) /\ Len(v) = Len(s) + Len(t) /\ Len(s) \in Nat /\ Len(t) \in Nat
  BY <1>2, ConcatProperties, LenProperties
<1>4. SubSeq(v, 1, Len(s)) = s /\ SubSeq(s, 1, Len(s)) = s
  BY <1>2, SubSeqOfConcat1, SubSeqFull
<1> HIDE DEF v
<1>5. Len(u) = Len(v) + Len(rest) /\ Len(rest) \in Nat /\ u \in Seq(P)
  BY <1>1, <1>3, ConcatProperties, LenProperties
<1>6. SubSeq(u, 1, Len(v)) = v
  BY <1>1, <1>3
<1>7. Len(v) \in Len(s) .. Len(u)
  BY <1>3, <1>5
<1> QED BY <1>3, <1>4, <1>6, <1>7 DEF v

LEMMA ReceiveHears ==
  ASSUME IInv, NEW c \in Clients, Receive(c)
  PROVE  Promise!Next
<1> DEFINE s == got[c]
           t == toClient[c]
           v == s \o t
           u == AnswersTo(session[c].executed) \o Answer(0)
           n == Len(v)
<1>1. t # <<>> /\ got' = [got EXCEPT ![c] = v] /\ UNCHANGED <<client, toServer, session>>
  BY DEF Receive, server
<1>2. IsMap(got) /\ TypedAt(c) /\ HeardAt(c)
  BY DEF IInv, At, Whole
<1>3. s \in Seq(AnswerPiece(c)) /\ t \in Seq(AnswerPiece(c)) /\ session[c] \in SessionOf(c)
  BY <1>2 DEF TypedAt
<1>4. session[c].executed \in Seq(Lines(c))
  BY <1>3 DEF SessionOf
<1>5. Begins(c, v, u)
  BY <1>2, Zenon DEF HeardAt, Heard
<1> HIDE DEF s, t, u
<1>6. /\ Len(v) \in Len(s) .. Len(u) /\ Len(v) = Len(s) + Len(t)
      /\ SubSeq(u, 1, Len(v)) = v /\ SubSeq(v, 1, Len(s)) = s /\ SubSeq(s, 1, Len(s)) = s
  BY <1>3, <1>5, BeginsIsPart
<1>7. Len(s) \in Nat /\ Len(t) \in Nat /\ Len(t) # 0
  BY <1>1, <1>3, LenProperties, EmptySeq
<1> HIDE DEF v
<1>8. n \in Len(s) + 1 .. Len(u)
  BY <1>6, <1>7
<1>9. got'[c] = v
  BY <1>1, <1>2 DEF IsMap
<1>10. Promise!IsPrefix(s, v)
  BY <1>6, <1>7 DEF Promise!IsPrefix
<1>11. Done' = Done /\ Over' = Over /\ Said' = Said
  BY <1>1 DEF Done, Over, Said
<1>12. got' = [got EXCEPT ![c] = SubSeq(u, 1, n)]
  BY <1>1, <1>6
<1> HIDE DEF n
<1> QED BY <1>4, <1>8, <1>9, <1>10, <1>11, <1>12, PromiseHears DEF s, u

\* What changes one session only, and neither clients nor what they have read.
LEMMA SessionStep ==
  ASSUME IInv, NEW c \in Clients, NEW u, session' = [session EXCEPT ![c] = u],
         client' = client, got' = got
  PROVE  /\ session'[c] = u /\ client'[c].sent = client[c].sent
         /\ \A d \in Clients : d # c => SeenAlike(d)
         /\ u.state = "ended" /\ u.executed = session[c].executed => Promise!Next
         /\ u.state # "ended" /\ session[c].state # "ended" /\ u.executed = session[c].executed
                => UNCHANGED Promise!vars
<1>1. IsMap(session)
  BY DEF IInv, Whole
<1>2. Updates(session', session, c, u)
  BY <1>1, MapExcept, Zenon
<1>3. session'[c] = u /\ \A d \in Clients : d # c => session'[d] = session[d]
  BY <1>2 DEF Updates
<1>4. \A d \in Clients : d # c => SeenAlike(d)
  BY <1>3 DEF SeenAlike
<1>5. ASSUME u.state = "ended" /\ u.executed = session[c].executed PROVE Promise!Next
  BY <1>3, <1>4, <1>5, OneEnds
<1>6. ASSUME u.state # "ended" /\ session[c].state # "ended" /\ u.executed = session[c].executed
      PROVE  UNCHANGED Promise!vars
  <2>1. SeenAlike(c)
    BY <1>3, <1>6 DEF SeenAlike
  <2>2. \A d \in Clients : SeenAlike(d)
    BY <1>4, <2>1
  <2> QED BY <2>2, AlikeWaits
<1> QED BY <1>3, <1>4, <1>5, <1>6

LEMMA ServeHangupEnds ==
  ASSUME IInv, NEW c \in Clients, ServeHangup(c)
  PROVE  Promise!Next
<1>1. Serving(c) /\ session' = [session EXCEPT ![c] = Closed(session[c])]
      /\ client' = client /\ got' = got
  BY DEF ServeHangup
<1>2. session[c] \in SessionOf(c)
  BY <1>1, ServedIsOpen
<1>3. Closed(session[c]).state = "ended" /\ Closed(session[c]).executed = session[c].executed
  BY <1>2, ClosedIs
<1> QED BY <1>1, <1>3, SessionStep

LEMMA ServeReadyEnds ==
  ASSUME IInv, NEW c \in Clients, ServeReady(c)
  PROVE  Promise!Next \/ UNCHANGED Promise!vars
<1> DEFINE s == session[c]
           y == Unsent(c, s.outBuffer)
           broken == "POLLOUT" \in revents[c] /\ client[c].closed
           u == IF broken THEN Closed(s) ELSE IF "POLLOUT" \in revents[c] THEN Flushed(s, y) ELSE s
<1>1. Serving(c) /\ client' = client /\ got' = got
  BY DEF ServeReady
<1>2. session' = [session EXCEPT ![c] = u]
  BY Zenon DEF ServeReady, Flushed
<1>3. s \in SessionOf(c) /\ s.state = "open" /\ TypedAt(c)
  BY <1>1, ServedIsOpen DEF IInv, At
<1>4. Closed(s).state = "ended" /\ Closed(s).executed = s.executed
  BY <1>3, ClosedIs
<1>5. Flushed(s, y).state = "open" /\ Flushed(s, y).executed = s.executed
  <2>1. s.outBuffer \in Seq(AnswerPiece(c)) /\ s.executed \in Seq(Lines(c))
    BY <1>3 DEF SessionOf
  <2>2. y \in Seq(AnswerPiece(c))
    BY <1>3, <2>1, FlushParts DEF TypedAt
  <2>3. <<>> \in Seq(Piece(c))
    OBVIOUS
  <2> HIDE DEF s, y
  <2>4. Becomes(c, Flushed(s, y), s.state, s.inBuffer, y, s.executed, s.refused)
    BY <1>3, <2>1, <2>2, <2>3, SessionUpdates
  <2> QED BY <1>3, <2>4 DEF Becomes
<1>6. \/ u.state = "ended" /\ u.executed = s.executed
      \/ u.state = "open" /\ u.executed = s.executed
  <2> HIDE DEF s, y
  <2> QED BY <1>3, <1>4, <1>5
<1> HIDE DEF u
<1> QED BY <1>1, <1>2, <1>3, <1>6, SessionStep

LEMMA RefuseEnds ==
  ASSUME IInv, NEW c \in Clients, Refuse(c)
  PROVE  Promise!Next
<1> DEFINE s == session[c]
<1>1. reading = c /\ session' = [session EXCEPT ![c] = Refused(s)] /\ client' = client /\ got' = got
  BY DEF Refuse, Refused
<1>2. s \in SessionOf(c)
  BY <1>1, ServedIsOpen
<1>3. Refused(s).state = "ended" /\ Refused(s).executed = s.executed
  <2>1. /\ <<>> \in Seq(Piece(c)) /\ <<>> \in Seq(AnswerPiece(c)) /\ <<>> \in Seq(Lines(c))
    OBVIOUS
  <2>2. Becomes(c, Refused(s), "ended", <<>>, <<>>, s.executed, TRUE)
    BY <1>2, <2>1, SessionUpdates
  <2> QED BY <2>2 DEF Becomes
<1> QED BY <1>1, <1>3, SessionStep

LEMMA ReadEndsEnds ==
  ASSUME IInv, NEW c \in Clients, ReadEnds(c)
  PROVE  Promise!Next \/ UNCHANGED Promise!vars
<1>1. /\ reading = c /\ client' = client /\ got' = got
      /\ session' = [session EXCEPT ![c] = Closed(session[c])] \/ session' = session
  BY DEF ReadEnds
<1>2. session[c] \in SessionOf(c)
  BY <1>1, ServedIsOpen
<1>3. Closed(session[c]).state = "ended" /\ Closed(session[c]).executed = session[c].executed
  BY <1>2, ClosedIs
<1>4. CASE session' = session
  BY <1>1, <1>4, AlikeWaits DEF SeenAlike
<1>5. CASE session' = [session EXCEPT ![c] = Closed(session[c])]
  BY <1>1, <1>3, <1>5, SessionStep
<1> QED BY <1>1, <1>4, <1>5

LEMMA AcceptWaits ==
  ASSUME IInv, AcceptClients
  PROVE  UNCHANGED Promise!vars
<1>1. /\ listening
      /\ client' = [c \in Clients |->
             IF c \in Waiting THEN [client[c] EXCEPT !.phase = "accepted"] ELSE client[c]]
      /\ session' = [c \in Clients |->
             IF c \in Waiting THEN [Fresh EXCEPT !.state = "open"] ELSE session[c]]
      /\ got' = got
  BY DEF AcceptClients
<1>2. reading # "stopped"
  BY <1>1, IpcAssumption DEF IInv
<1>3. ASSUME NEW c \in Clients PROVE SeenAlike(c)
  <2>1. PhaseAt(c) /\ client[c] \in Peers
    BY DEF IInv, At, Whole
  <2>2. CASE c \in Waiting
    <3>1. session[c] = Fresh
      BY <1>2, <2>1, <2>2 DEF PhaseAt, Waiting
    <3>2. client'[c].sent = client[c].sent
      BY <1>1, <2>1, <2>2 DEF Peers
    <3> QED BY <1>1, <2>2, <3>1, <3>2 DEF SeenAlike, Fresh
  <2>3. CASE c \notin Waiting
    BY <1>1, <2>3 DEF SeenAlike
  <2> QED BY <2>2, <2>3
<1> QED BY <1>1, <1>3, AlikeWaits

LEMMA StopEndsAll ==
  ASSUME IInv, Stop
  PROVE  Promise!Next
<1> DEFINE gone == {c \in Clients : client[c].phase # "away"}
<1>1. /\ session' = [c \in Clients |->
             IF client[c].phase = "away" THEN session[c] ELSE Closed(session[c])]
      /\ client' = client /\ got' = got
  BY DEF Stop
<1>2. ASSUME NEW c \in Clients
      PROVE  /\ session'[c].executed = session[c].executed
             /\ (session'[c].state = "ended") = (Over[c] \/ c \in gone)
  <2>1. PhaseAt(c) /\ session[c] \in SessionOf(c)
    BY DEF IInv, At, TypedAt
  <2>2. CASE client[c].phase = "away"
    <3>1. session'[c] = session[c] /\ c \notin gone
      BY <1>1, <2>2
    <3> QED BY <3>1 DEF Over
  <2>3. CASE client[c].phase # "away"
    <3>1. session'[c] = Closed(session[c]) /\ c \in gone
      BY <1>1, <2>3
    <3>2. Closed(session[c]).state = "ended" /\ Closed(session[c]).executed = session[c].executed
      BY <2>1, ClosedIs
    <3> QED BY <3>1, <3>2
  <2> QED BY <2>2, <2>3
<1> HIDE DEF gone
<1>3. Over' = [c \in Clients |-> Over[c] \/ c \in gone]
  <2>1. Over' = [c \in Clients |-> session'[c].state = "ended"]
    BY DEF Over
  <2>2. ASSUME NEW c \in Clients PROVE (session'[c].state = "ended") = (Over[c] \/ c \in gone)
    BY <1>2
  <2> HIDE DEF Over
  <2> QED BY <2>1, <2>2, Zenon
<1>4. Done' = Done
  BY <1>2 DEF Done
<1>5. Said' = Said
  BY <1>1 DEF Said
<1>6. gone \in SUBSET Clients
  BY DEF gone
<1> QED BY <1>1, <1>3, <1>4, <1>5, <1>6, PromiseEndsAll

\* The lines of one recv are new ones, and the order of the whole is the invariant's.
LEMMA ExecuteExecutes ==
  ASSUME IInv, NEW c \in Clients, Execute(c)
  PROVE  Promise!Next \/ UNCHANGED Promise!vars
<1> DEFINE s == session[c]
           lines == LinesIn(c, Filled(c))
           done == s.executed
           y == Unsent(c, s.outBuffer \o AnswersTo(lines))
           kept == IF lines = <<>> THEN s.outBuffer ELSE y
           one == Append(done, Head(lines))
           u == Advanced(s, Rest(c, Filled(c)), kept, done \o lines)
           v == GivenUp(s, one)
           gone == client[c].closed /\ lines # <<>>
           w == IF gone THEN v ELSE u
           after == IF gone THEN one ELSE done \o lines
<1>1. reading = c /\ toServer[c] # <<>> /\ client' = client /\ got' = got
      /\ ~(Len(Filled(c)) > MaxLine)
  BY DEF Execute, TooLong
<1>2. session' = [session EXCEPT ![c] = w]
  BY Zenon DEF Execute, GivenUp, Advanced
<1>3. s \in SessionOf(c) /\ s.state = "open" /\ TypedAt(c)
  BY <1>1, ServedIsOpen DEF IInv, At
<1>4. s.outBuffer \in Seq(AnswerPiece(c)) /\ done \in Seq(Lines(c))
  BY <1>3 DEF SessionOf
<1>5. /\ lines \in Seq(Lines(c)) /\ done \o lines \in Seq(Lines(c))
      /\ Rest(c, Filled(c)) \in Seq(Piece(c))
      /\ lines # <<>> => one \in Seq(Lines(c))
  <2> DEFINE in == s.inBuffer
             before == toServer[c]
             sent == client[c].sent
  <2>1. Account(c, sent, before, done, in) /\ Limited(c, done, s.refused)
    BY <1>1, RecvParts DEF IInv, At, AccountAt
  <2>2. PICK n \in 0 .. Len(before) : Filled(c) = Filling(in, before, n)
    BY <1>1, RecvParts
  <2>3. Len(Filling(in, before, n)) <= MaxLine
    <3>1. Filling(in, before, n) \in Seq(Piece(c))
      BY <2>1, ReadOn
    <3>2. Len(Filling(in, before, n)) \in Nat /\ MaxLine \in Nat
      BY <3>1, LenProperties, IpcAssumption
    <3> QED BY <1>1, <2>2, <3>2
  <2> HIDE DEF before, in, sent, done
  <2> QED BY <2>1, <2>2, <2>3, TakeLines
<1>6. kept \in Seq(AnswerPiece(c))
  <2>1. AnswersTo(lines) \in Seq(AnswerPiece(c))
    BY <1>5, AnswersToProperties DEF Lines
  <2>2. s.outBuffer \o AnswersTo(lines) \in Seq(AnswerPiece(c))
    BY <1>4, <2>1, ConcatProperties
  <2>3. y \in Seq(AnswerPiece(c))
    BY <1>3, <2>2, FlushParts DEF TypedAt
  <2> HIDE DEF y
  <2> QED BY <1>4, <2>3
<1> HIDE DEF s, lines, kept, one, done
<1>7. Becomes(c, u, s.state, Rest(c, Filled(c)), kept, done \o lines, s.refused)
  BY <1>3, <1>5, <1>6, SessionUpdates
<1>8. lines # <<>> => Becomes(c, v, "ended", <<>>, <<>>, one, s.refused)
  BY <1>3, <1>5, <1>6, SessionUpdates
<1> HIDE DEF u, v
<1>9. /\ w.executed = after
      /\ gone => w.state = "ended"
      /\ ~gone => w.state = "open"
  BY <1>3, <1>7, <1>8 DEF Becomes
<1> HIDE DEF w
<1>10. session'[c] = w /\ client'[c].sent = client[c].sent
       /\ \A d \in Clients : d # c => SeenAlike(d)
  BY <1>1, <1>2, SessionStep
<1>11. CASE lines = <<>>
  <2>1. after = s.executed /\ ~gone
    BY <1>4, <1>11, ConcatEmptySeq DEF done
  <2>2. w.executed = session[c].executed /\ w.state # "ended" /\ session[c].state # "ended"
    BY <1>3, <1>9, <2>1 DEF s
  <2> QED BY <1>1, <1>2, <2>2, SessionStep
<1>12. CASE lines # <<>>
  <2> DEFINE n == Len(after)
  <2>1. n \in Nat /\ Len(done) \in Nat /\ Len(done) < n
    <3>1. Len(done \o lines) = Len(done) + Len(lines) /\ Len(done) \in Nat /\ Len(lines) \in Nat
          /\ Len(lines) # 0
      BY <1>4, <1>5, <1>12, ConcatProperties, LenProperties, EmptySeq
    <3>2. Head(lines) \in Lines(c)
      BY <1>5, <1>12, HeadTailProperties
    <3>3. Len(one) = Len(done) + 1
      BY <1>4, <3>2, AppendProperties DEF one
    <3> QED BY <3>1, <3>3
  <2>2. n <= Complete(c, client[c].sent) /\ after = Run(0, n)
    <3>1. IInv'
      BY ExecuteKeeps
    <3>2. Ordered(c, client'[c].sent, session'[c].executed)
      BY <3>1 DEF IInv, At, AccountAt
    <3> QED BY <1>9, <1>10, <3>2 DEF Ordered
  <2>3. Complete(c, client[c].sent) \in Nat
    <3>1. client[c].sent \in 0 .. Len(Stream[c])
      BY DEF IInv, At, AccountAt, Ordered
    <3> QED BY <3>1, CompleteBounds, Scripts
  <2> HIDE DEF after, n
  <2>4. after = [i \in 1 .. n |-> i]
    BY <2>1, <2>2 DEF Run
  <2>5. n \in Len(Done[c]) + 1 .. Said[c]
    BY <2>1, <2>2, <2>3 DEF Done, Said, done, s
  <2>6. Done' = [Done EXCEPT ![c] = [i \in 1 .. n |-> i]]
    <3>1. IsMap(Done) /\ IsMap(Done')
      BY DEF Done, IsMap
    <3>2. Updates(Done', Done, c, [i \in 1 .. n |-> i])
      BY <1>9, <1>10, <2>4 DEF Updates, Done, SeenAlike
    <3> QED BY <3>1, <3>2, MapsDiffer, Zenon
  <2>7. ~Over[c]
    BY <1>3 DEF Over, s
  <2>8. Over' = Over \/ Over' = [Over EXCEPT ![c] = TRUE]
    <3>1. IsMap(Over) /\ IsMap(Over')
      BY DEF Over, IsMap
    <3>2. CASE gone
      <4>1. Updates(Over', Over, c, TRUE)
        BY <1>9, <1>10, <3>2 DEF Updates, Over, SeenAlike
      <4> QED BY <3>1, <4>1, MapsDiffer, Zenon
    <3>3. CASE ~gone
      <4>1. \A d \in Clients : (session'[d].state = "ended") = (session[d].state = "ended")
        BY <1>3, <1>9, <1>10, <3>3 DEF SeenAlike, s
      <4> QED BY <4>1 DEF Over
    <3> QED BY <3>2, <3>3
  <2>9. Said' = Said
    BY <1>1 DEF Said
  <2> QED BY <1>1, <2>5, <2>6, <2>7, <2>8, <2>9, PromiseExecutes
<1> QED BY <1>11, <1>12

LEMMA PromiseStarts ==
  ASSUME Init
  PROVE  Promise!Init
<1>1. ASSUME NEW c \in Clients PROVE Complete(c, client[c].sent) = 0
  <2>1. client[c].sent = 0
    BY DEF Init
  <2>2. {i \in 1 .. 0 : IsNewline(c, Stream[c][i])} = {}
    OBVIOUS
  <2>3. Complete(c, 0) = 0
    BY <2>2, FS_EmptySet, Zenon DEF Complete
  <2> QED BY <2>1, <2>3
<1>2. Said = [c \in Clients |-> 0]
  BY <1>1 DEF Said
<1>3. Done = [c \in Clients |-> <<>>]
  BY DEF Done, Init, Fresh
<1>4. Over = [c \in Clients |-> FALSE]
  BY DEF Over, Init, Fresh
<1>5. got = [c \in Clients |-> <<>>]
  BY DEF Init
<1> QED BY <1>2, <1>3, <1>4, <1>5 DEF Promise!Init, Said, Done, Over, Complete

LEMMA PromiseStep ==
  ASSUME IInv, [Next]_vars
  PROVE  Promise!Next \/ UNCHANGED Promise!vars
<1>1. ASSUME NEW c \in Clients,
             \/ Connect(c) \/ Send(c) \/ Receive(c) \/ HalfClose(c) \/ Vanish(c)
             \/ Served(c)
      PROVE  Promise!Next \/ UNCHANGED Promise!vars
  <2>1. CASE Connect(c) \/ HalfClose(c) \/ Vanish(c)
    <3>1. client \in [Clients -> Peers]
      BY DEF IInv, Whole
    <3>2. \/ client' = [client EXCEPT ![c].phase = "waiting"]
          \/ client' = [client EXCEPT ![c].shut = TRUE]
          \/ client' = [client EXCEPT ![c].closed = TRUE]
      BY <2>1 DEF Connect, HalfClose, Vanish
    <3>3. \A d \in Clients : client'[d].sent = client[d].sent
      BY <3>1, <3>2 DEF Peers
    <3>4. session' = session /\ got' = got
      BY <2>1 DEF Connect, HalfClose, Vanish, server
    <3> QED BY <3>3, <3>4, AlikeWaits DEF SeenAlike
  <2>2. CASE Send(c)
    BY <2>2, SendSays
  <2>3. CASE Receive(c)
    BY <2>3, ReceiveHears
  <2>4. CASE ServeHangup(c)
    BY <2>4, ServeHangupEnds
  <2>5. CASE ServeReady(c)
    BY <2>5, ServeReadyEnds
  <2>6. CASE Refuse(c)
    BY <2>6, RefuseEnds
  <2>7. CASE Execute(c)
    BY <2>7, ExecuteExecutes
  <2>8. CASE ReadEnds(c)
    BY <2>8, ReadEndsEnds
  <2> QED BY <1>1, <2>1, <2>2, <2>3, <2>4, <2>5, <2>6, <2>7, <2>8 DEF Served
<1>2. CASE Poll
  BY <1>2, AlikeWaits DEF Poll, SeenAlike
<1>3. CASE AcceptClients
  BY <1>3, AcceptWaits
<1>4. CASE Stop
  BY <1>4, StopEndsAll
<1>5. CASE UNCHANGED vars
  BY <1>5, AlikeWaits DEF vars, SeenAlike
<1> QED BY <1>1, <1>2, <1>3, <1>4, <1>5 DEF Next

\* Whatever the pieces in which lines and answers travel, every client's lines
\* are executed once and in order and it hears a prefix of their answers: the
\* server implements LineServer (IpcServer.cpp:254-408).
THEOREM PromiseKept == Spec => KeepsPromise
<1>1. Init => Promise!Init
  BY PromiseStarts
<1>2. IInv /\ [Next]_vars => [Promise!Next]_Promise!vars
  BY PromiseStep
<1> QED BY <1>1, <1>2, StreamsAccounted, PTL DEF Spec, KeepsPromise, Promise!Spec

=============================================================================
