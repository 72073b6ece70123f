---------------------------- MODULE FramingProofs ----------------------------
(***************************************************************************)
(* Proofs about Framing: what is delivered, for every set of frames, every *)
(* payload, every number of frames in a session and every way to cut their *)
(* bytes into chunks.                                                      *)
(*                                                                         *)
(* Frames count as they end on the wire: EndIn(s, k) is where frame k of   *)
(* the session s ends, and Counts(s, k, q) says that k of them have come   *)
(* in full with the first q bytes.  The invariant says what the            *)
(* StreamFramer holds then: Held, the bytes after the end of frame k, and  *)
(* before the first frame has come in full also what earlier sessions have *)
(* left, which is a row of cut frames.  A cut frame begins with a start    *)
(* marker and has no end marker, since a payload is escaped (EscapeType);  *)
(* so has a row of them (LeftIs), and the first end marker in the buffer   *)
(* is the end of the next frame of this session (TurnHeld).  What that     *)
(* turn unpacks is the frame that was sent (UnpackPacked), or nothing when *)
(* cut frames precede it and no mixture passes for a frame (GotMore).      *)
(***************************************************************************)
EXTENDS Framing, SequenceTheorems, FiniteSetTheorems, WellFoundedInduction, TLAPS

-----------------------------------------------------------------------------
(* Induction.  A set takes the place of the predicate, because the provers  *)
(* cannot instantiate a theorem that has an operator as a parameter.        *)

LEMMA Induction ==
  ASSUME NEW T, 0 \in T, \A n \in Nat : n \in T => n + 1 \in T
  PROVE  \A n \in Nat : n \in T
<1> DEFINE R == OpToRel(<, Nat)
           F == Nat \ T
<1>1. SUFFICES ASSUME F # {} PROVE FALSE
  OBVIOUS
<1>2. IsWellFoundedOn(R, Nat)
  BY NatLessThanWellFounded
<1>3. \A i, j \in Nat : i < j => <<i, j>> \in R
  BY DEF OpToRel
<1> HIDE DEF R
<1>4. PICK x \in F : \A y \in F : <<y, x>> \notin R
  BY <1>1, <1>2, WFMin
<1>5. x \in Nat /\ x - 1 \in Nat /\ x - 1 < x /\ x - 1 + 1 = x
  OBVIOUS
<1>6. x - 1 \in F
  BY <1>5
<1> QED BY <1>3, <1>4, <1>5, <1>6

-----------------------------------------------------------------------------
(* Folds along a sequence *)

\* g is init, and what op makes of it with each of the first n elements of s.
Folds(g, op, init, s, n) == g[0] = init /\ \A i \in 1 .. n : g[i] = op[<<g[i - 1], s[i]>>]

LEMMA FoldExists ==
  ASSUME NEW A, NEW B, NEW op \in [A \X B -> A], NEW init \in A,
         NEW n \in Nat, NEW s, \A i \in 1 .. n : s[i] \in B
  PROVE  \E g \in [0 .. n -> A] : Folds(g, op, init, s, n)
<1> DEFINE Has(m) == \E g \in [0 .. m -> A] : Folds(g, op, init, s, m)
           T == {m \in Nat : m <= n => Has(m)}
<1>1. 0 \in T
  <2> DEFINE g == [i \in 0 .. 0 |-> init]
  <2>1. g \in [0 .. 0 -> A] /\ Folds(g, op, init, s, 0)
    BY DEF Folds
  <2>2. Has(0)
    BY <2>1
  <2> HIDE DEF Has
  <2> QED BY <2>2
<1>2. ASSUME NEW m \in Nat, m \in T PROVE m + 1 \in T
  <2>1. m + 1 <= n => Has(m)
    <3> HIDE DEF Has
    <3> QED BY <1>2
  <2>2. ASSUME m + 1 <= n PROVE Has(m + 1)
    <3>1. PICK h \in [0 .. m -> A] : Folds(h, op, init, s, m)
      BY <2>1, <2>2
    <3> DEFINE last == op[<<h[m], s[m + 1]>>]
               g == [i \in 0 .. m + 1 |-> IF i <= m THEN h[i] ELSE last]
    <3>2. last \in A
      <4>1. h[m] \in A /\ s[m + 1] \in B
        BY <2>2
      <4> QED BY <4>1
    <3>3. h[0] = init /\ \A i \in 1 .. m : h[i] = op[<<h[i - 1], s[i]>>]
      BY <3>1 DEF Folds
    <3> HIDE DEF last
    <3>4. g \in [0 .. m + 1 -> A]
      BY <3>2
    <3>5. (\A i \in 0 .. m : g[i] = h[i]) /\ g[m + 1] = last
      OBVIOUS
    <3> HIDE DEF g
    <3>6. ASSUME NEW i \in 1 .. m + 1 PROVE g[i] = op[<<g[i - 1], s[i]>>]
      <4>1. CASE i = m + 1
        <5>1. i - 1 = m /\ m \in 0 .. m
          BY <4>1
        <5> QED BY <3>5, <4>1, <5>1, Zenon DEF last
      <4>2. CASE i # m + 1
        <5>1. i \in 1 .. m /\ i \in 0 .. m /\ i - 1 \in 0 .. m
          BY <4>2
        <5> QED BY <3>3, <3>5, <5>1, Zenon
      <4> QED BY <4>1, <4>2
    <3>7. g[0] = init
      <4>1. 0 \in 0 .. m
        OBVIOUS
      <4> QED BY <3>3, <3>5, <4>1, Zenon
    <3>8. Folds(g, op, init, s, m + 1)
      BY <3>6, <3>7, Zenon DEF Folds
    <3> QED BY <3>4, <3>8
  <2> HIDE DEF Has
  <2> QED BY <2>2
<1> HIDE DEF T
<1>3. n \in T
  BY <1>1, <1>2, Induction
<1>4. Has(n)
  <2> HIDE DEF Has
  <2> QED BY <1>3 DEF T
<1> QED BY <1>4

-----------------------------------------------------------------------------
(* FlattenSeq *)

\* What FlattenSeq has put together after each of the first n sequences.
StepsTo(f, g, n) == g[0] = <<>> /\ \A i \in 1 .. n : g[i] = g[i - 1] \o f[i]

LEMMA StepsExist ==
  ASSUME NEW S, NEW f \in Seq(Seq(S)), NEW n \in Nat, n <= Len(f)
  PROVE  \E g \in [0 .. n -> Seq(S)] : StepsTo(f, g, n)
<1> DEFINE A == Seq(S)
           op == [p \in A \X A |-> p[1] \o p[2]]
<1>1. Len(f) \in Nat /\ \A i \in 1 .. Len(f) : f[i] \in A
  BY LenProperties, ElementOfSeq
<1>2. \A s, t \in A : s \o t \in A /\ op[<<s, t>>] = s \o t
  BY ConcatProperties
<1>3. op \in [A \X A -> A]
  BY ConcatProperties
<1>4. <<>> \in A /\ \A i \in 1 .. n : f[i] \in A
  BY <1>1
<1> HIDE DEF A, op
<1> DEFINE none == <<>>
<1>5. none \in A
  BY <1>4
<1> HIDE DEF none
<1>6. PICK g \in [0 .. n -> A] : Folds(g, op, none, f, n)
  BY <1>3, <1>4, <1>5, FoldExists
<1>7. g[0] = <<>> /\ \A i \in 1 .. n : g[i] = op[<<g[i - 1], f[i]>>]
  BY <1>6 DEF Folds, none
<1>8. ASSUME NEW i \in 1 .. n PROVE g[i] = g[i - 1] \o f[i]
  <2>1. i - 1 \in 0 .. n
    OBVIOUS
  <2> QED BY <1>2, <1>4, <1>7, <2>1
<1> QED BY <1>7, <1>8 DEF StepsTo, A

\* A sequence of sequences is put together one after the other.
LEMMA FlattenSteps ==
  ASSUME NEW S, NEW f \in Seq(Seq(S))
  PROVE  \E g \in [0 .. Len(f) -> Seq(S)] :
             StepsTo(f, g, Len(f)) /\ FlattenSeq(f) = g[Len(f)]
<1>1. Len(f) \in Nat /\ \A i \in 1 .. Len(f) : f[i] \in Seq(S)
  BY LenProperties, ElementOfSeq
<1>2. PICK g \in [0 .. Len(f) -> Seq(S)] : StepsTo(f, g, Len(f))
  BY <1>1, StepsExist
<1>3. g[0] = <<>> /\ \A i \in 1 .. Len(f) : g[i] = g[i - 1] \o f[i]
  BY <1>2 DEF StepsTo
<1>4. CASE Len(f) = 0
  <2>1. f = <<>>
    BY <1>4, EmptySeq
  <2>2. FlattenSeq(f) = f
    BY <1>4, Zenon DEF FlattenSeq
  <2> QED BY <1>2, <1>3, <1>4, <2>1, <2>2
<1>5. CASE Len(f) # 0
  <2> DEFINE flat(e) == [i \in 1 .. Len(f) |-> IF i = 1 THEN f[i] ELSE e[i - 1] \o f[i]]
             h == [i \in 1 .. Len(f) |-> g[i]]
             k == CHOOSE e : e = flat(e)
             T == {i \in Nat : i + 1 <= Len(f) => k[i + 1] = g[i + 1]}
  <2>1. FlattenSeq(f) = k[Len(f)]
    BY <1>5, Zenon DEF FlattenSeq
  <2>2. g[1] = f[1]
    <3>1. g[1] = <<>> \o f[1]
      <4>1. 1 \in 1 .. Len(f) /\ 1 - 1 = 0
        BY <1>1, <1>5
      <4>2. g[1] = g[1 - 1] \o f[1]
        BY <1>3, <4>1, Zenon
      <4> QED BY <1>3, <4>1, <4>2, Zenon
    <3> QED BY <1>1, <1>5, <3>1, ConcatEmptySeq
  <2>3. \A i \in 1 .. Len(f) : i # 1 => g[i] = g[i - 1] \o f[i] /\ i - 1 \in 1 .. Len(f)
    <3>1. \A i \in 1 .. Len(f) : i # 1 => i - 1 \in 1 .. Len(f)
      BY <1>1
    <3> QED BY <1>3, <3>1, Zenon
  <2>4. \A i \in 1 .. Len(f) : h[i] = g[i]
    OBVIOUS
  <2>5. h = flat(h)
    <3>1. ASSUME NEW i \in 1 .. Len(f)
          PROVE  g[i] = IF i = 1 THEN f[i] ELSE h[i - 1] \o f[i]
      BY <2>2, <2>3, <2>4, Zenon
    <3>2. flat(h) = [i \in 1 .. Len(f) |-> g[i]]
      BY <3>1, Zenon
    <3> QED BY <3>2, Zenon
  <2> HIDE DEF h
  <2>6. k = flat(k)
    BY <2>5, Zenon
  <2> HIDE DEF k
  <2>7. \A i \in 1 .. Len(f) : k[i] = IF i = 1 THEN f[i] ELSE k[i - 1] \o f[i]
    BY <2>6, Zenon
  <2>8. 0 \in T
    <3>1. 1 \in 1 .. Len(f) /\ 0 + 1 = 1
      BY <1>1, <1>5
    <3>2. k[1] = g[1]
      BY <2>2, <2>7, <3>1, Zenon
    <3> QED BY <3>1, <3>2
  <2>9. ASSUME NEW i \in Nat, i \in T PROVE i + 1 \in T
    <3> SUFFICES ASSUME i + 1 + 1 <= Len(f) PROVE k[i + 1 + 1] = g[i + 1 + 1]
      OBVIOUS
    <3> DEFINE j == i + 1 + 1
    <3>1. j \in 1 .. Len(f) /\ j # 1 /\ j - 1 = i + 1 /\ i + 1 <= Len(f)
      BY <1>1
    <3>2. k[i + 1] = g[i + 1]
      BY <2>9, <3>1
    <3> HIDE DEF j
    <3>3. k[j] = k[j - 1] \o f[j] /\ g[j] = g[j - 1] \o f[j]
      BY <2>3, <2>7, <3>1, Zenon
    <3>4. k[j] = g[j]
      BY <3>1, <3>2, <3>3, Zenon
    <3> QED BY <3>4 DEF j
  <2> HIDE DEF T
  <2>10. Len(f) - 1 \in T
    <3>1. Len(f) - 1 \in Nat
      BY <1>1, <1>5
    <3>2. \A i \in Nat : i \in T
      BY <2>8, <2>9, Induction
    <3> QED BY <3>1, <3>2
  <2>11. k[Len(f)] = g[Len(f)]
    BY <1>1, <1>5, <2>10 DEF T
  <2> QED BY <1>2, <2>1, <2>11
<1> QED BY <1>4, <1>5

LEMMA StepsUnique ==
  ASSUME NEW f, NEW n \in Nat, NEW g, NEW h, StepsTo(f, g, n), StepsTo(f, h, n)
  PROVE  \A i \in 0 .. n : g[i] = h[i]
<1> DEFINE T == {i \in Nat : i <= n => g[i] = h[i]}
<1>1. 0 \in T
  BY Zenon DEF StepsTo
<1>2. ASSUME NEW i \in Nat, i \in T PROVE i + 1 \in T
  <2> SUFFICES ASSUME i + 1 <= n PROVE g[i + 1] = h[i + 1]
    OBVIOUS
  <2>1. i + 1 \in 1 .. n /\ i + 1 - 1 = i /\ i <= n
    OBVIOUS
  <2>2. g[i] = h[i]
    BY <1>2, <2>1
  <2> DEFINE j == i + 1
  <2>3. j \in 1 .. n /\ j - 1 = i
    BY <2>1
  <2> HIDE DEF j
  <2>4. g[j] = g[j - 1] \o f[j] /\ h[j] = h[j - 1] \o f[j]
    BY <2>3, Zenon DEF StepsTo
  <2>5. g[j] = h[j]
    BY <2>2, <2>3, <2>4, Zenon
  <2> QED BY <2>5 DEF j
<1> HIDE DEF T
<1>3. \A i \in Nat : i \in T
  BY <1>1, <1>2, Induction
<1> QED BY <1>3 DEF T

LEMMA FlattenIs ==
  ASSUME NEW S, NEW f \in Seq(Seq(S)), NEW g, StepsTo(f, g, Len(f))
  PROVE  FlattenSeq(f) = g[Len(f)]
<1>1. Len(f) \in Nat /\ Len(f) \in 0 .. Len(f)
  BY LenProperties
<1>2. PICK h \in [0 .. Len(f) -> Seq(S)] : StepsTo(f, h, Len(f)) /\ FlattenSeq(f) = h[Len(f)]
  BY FlattenSteps
<1> QED BY <1>1, <1>2, StepsUnique

LEMMA FlattenType ==
  ASSUME NEW S, NEW f \in Seq(Seq(S))
  PROVE  FlattenSeq(f) \in Seq(S)
<1>1. PICK h \in [0 .. Len(f) -> Seq(S)] : FlattenSeq(f) = h[Len(f)]
  BY FlattenSteps
<1> QED BY <1>1, LenProperties

LEMMA FlattenNothing == FlattenSeq(<<>>) = <<>>
<1>1. Len(<<>>) = 0
  OBVIOUS
<1> QED BY <1>1, Zenon DEF FlattenSeq

LEMMA Associative ==
  \A S : \A s, t, u \in Seq(S) : s \o (t \o u) = (s \o t) \o u
<1> TAKE S
<1> TAKE s, t, u \in Seq(S)
<1> QED BY ConcatAssociative

LEMMA BytesAssociative ==
  \A s, t, u \in Seq(Byte) : s \o (t \o u) = (s \o t) \o u
<1> TAKE s, t, u \in Seq(Byte)
<1> QED BY ConcatAssociative

LEMMA ConcatAt ==
  \A S : \A s, t \in Seq(S) :
      /\ s \o t \in Seq(S) /\ Len(s \o t) = Len(s) + Len(t)
      /\ \A i \in 1 .. Len(s) + Len(t) : (s \o t)[i] = IF i <= Len(s) THEN s[i] ELSE t[i - Len(s)]
<1> TAKE S
<1> TAKE s, t \in Seq(S)
<1> QED BY ConcatProperties

LEMMA FlattenAppend ==
  ASSUME NEW S, NEW a \in Seq(Seq(S)), NEW x \in Seq(S)
  PROVE  FlattenSeq(Append(a, x)) = FlattenSeq(a) \o x
<1> DEFINE n == Len(a)
           f == Append(a, x)
<1>1. n \in Nat
  BY LenProperties
<1>2. f \in Seq(Seq(S)) /\ Len(f) = n + 1 /\ f[n + 1] = x /\ \A i \in 1 .. n : f[i] = a[i]
  BY AppendProperties
<1>3. PICK g \in [0 .. Len(f) -> Seq(S)] : StepsTo(f, g, Len(f)) /\ FlattenSeq(f) = g[Len(f)]
  BY <1>2, FlattenSteps
<1> HIDE DEF n, f
<1>4. StepsTo(a, g, n)
  <2>1. \A i \in 1 .. n : i \in 1 .. n + 1
    BY <1>1
  <2> QED BY <1>2, <1>3, <2>1, Zenon DEF StepsTo
<1>5. FlattenSeq(a) = g[n]
  BY <1>4, FlattenIs DEF n
<1>6. g[n + 1] = g[n] \o f[n + 1]
  <2> DEFINE m == n + 1
  <2>1. m \in 1 .. n + 1 /\ m - 1 = n
    BY <1>1
  <2> HIDE DEF m
  <2>2. g[m] = g[m - 1] \o f[m]
    BY <1>2, <1>3, <2>1, Zenon DEF StepsTo
  <2> QED BY <2>1, <2>2, Zenon DEF m
<1> QED BY <1>2, <1>3, <1>5, <1>6, Zenon DEF f

-----------------------------------------------------------------------------
(* Parts of a sequence *)

\* What follows the first i elements, up to the j-th.
Part(s, i, j) == SubSeq(s, i + 1, j)

LEMMA PartProperties ==
  ASSUME NEW S, NEW s \in Seq(S), NEW i \in Nat, NEW j \in Nat, i <= j, j <= Len(s)
  PROVE  /\ Part(s, i, j) \in Seq(S) /\ Len(Part(s, i, j)) = j - i
         /\ \A x \in 1 .. j - i : Part(s, i, j)[x] = s[i + x] /\ i + x \in 1 .. Len(s)
<1>1. Len(s) \in Nat /\ \A x \in 1 .. Len(s) : s[x] \in S
  BY LenProperties, ElementOfSeq
<1> DEFINE k == i + 1
<1>2. k \in Int /\ j \in Int /\ (\A x \in k .. j : s[x] \in S)
  BY <1>1
<1>3. j - k + 1 = j - i /\ (k <= j => j - k + 1 = j - i) /\ (~(k <= j) => j - i = 0)
  OBVIOUS
<1>4. \A x \in 1 .. j - i : k + x - 1 = i + x /\ i + x \in 1 .. Len(s)
  BY <1>1
<1> HIDE DEF k
<1>5. /\ SubSeq(s, k, j) \in Seq(S)
      /\ Len(SubSeq(s, k, j)) = IF k <= j THEN j - k + 1 ELSE 0
      /\ \A x \in 1 .. j - k + 1 : SubSeq(s, k, j)[x] = s[k + x - 1]
  BY <1>2, SubSeqProperties
<1>6. SubSeq(s, k, j) = Part(s, i, j)
  BY DEF Part, k
<1>7. \A x \in 1 .. j - i : Part(s, i, j)[x] = s[i + x]
  BY <1>3, <1>4, <1>5, <1>6
<1> QED BY <1>3, <1>4, <1>5, <1>6, <1>7

\* The same, for citing it where the names are others.
LEMMA PartAt ==
  \A S : \A s \in Seq(S) : \A u, v \in Nat : u <= v /\ v <= Len(s) =>
      /\ Part(s, u, v) \in Seq(S) /\ Len(Part(s, u, v)) = v - u
      /\ \A x \in 1 .. v - u : Part(s, u, v)[x] = s[u + x]
<1> TAKE S
<1> TAKE s \in Seq(S)
<1> TAKE u, v \in Nat
<1> SUFFICES ASSUME u <= v, v <= Len(s)
             PROVE  /\ Part(s, u, v) \in Seq(S) /\ Len(Part(s, u, v)) = v - u
                    /\ \A x \in 1 .. v - u : Part(s, u, v)[x] = s[u + x]
  OBVIOUS
<1> QED BY PartProperties

LEMMA PartEmpty ==
  ASSUME NEW s, NEW i \in Nat
  PROVE  Part(s, i, i) = <<>>
  BY SubSeqEmpty DEF Part

LEMMA PartsJoin ==
  ASSUME NEW S, NEW s \in Seq(S), NEW i \in Nat, NEW j \in Nat, NEW k \in Nat,
         i <= j, j <= k, k <= Len(s)
  PROVE  Part(s, i, j) \o Part(s, j, k) = Part(s, i, k)
<1>1. Len(s) \in Nat
  BY LenProperties
<1>2. i + 1 \in 1 .. Len(s) + 1 /\ j \in (i + 1) - 1 .. Len(s) /\ k \in j .. Len(s)
  BY <1>1
<1>3. SubSeq(s, i + 1, j) \o SubSeq(s, j + 1, k) = SubSeq(s, i + 1, k)
  BY <1>2, ConcatAdjacentSubSeq
<1> QED BY <1>3 DEF Part

LEMMA PartsJoinAt ==
  \A S : \A s \in Seq(S) : \A i, j, k \in Nat :
      i <= j /\ j <= k /\ k <= Len(s) => Part(s, i, j) \o Part(s, j, k) = Part(s, i, k)
<1> TAKE S
<1> TAKE s \in Seq(S)
<1> TAKE i, j, k \in Nat
<1> QED BY PartsJoin

LEMMA PartOfAll ==
  ASSUME NEW S, NEW s \in Seq(S)
  PROVE  Part(s, 0, Len(s)) = s
<1>1. SubSeq(s, 1, Len(s)) = s
  BY SubSeqFull
<1> QED BY <1>1 DEF Part

-----------------------------------------------------------------------------
(* The codec *)

LEMMA ChecksumType ==
  ASSUME NEW bytes \in Seq(Byte)
  PROVE  CalculateChecksum(bytes) \in Byte
<1> DEFINE n == Len(bytes)
           op == [p \in Byte \X Byte |-> (p[1] + p[2]) % 256]
           sums(e) == [i \in 0 .. n |-> IF i = 0 THEN 0 ELSE (e[i - 1] + bytes[i]) % 256]
           sum == CHOOSE e : e = sums(e)
           T == {i \in Nat : i <= n => sum[i] \in Byte}
<1>1. n \in Nat /\ \A i \in 1 .. n : bytes[i] \in Byte
  BY LenProperties, ElementOfSeq
<1>2. \A a, b \in Byte : (a + b) % 256 \in Byte /\ op[<<a, b>>] = (a + b) % 256
  <2>1. \A c \in Nat : c % 256 \in Byte
    BY DEF Byte
  <2>2. \A a, b \in Byte : a + b \in Nat
    BY DEF Byte
  <2> HIDE DEF Byte
  <2>3. \A a, b \in Byte : op[<<a, b>>] = (a + b) % 256
    OBVIOUS
  <2> QED BY <2>1, <2>2, <2>3, Zenon
<1>3. op \in [Byte \X Byte -> Byte]
  BY <1>2
<1>4. 0 \in Byte
  BY DEF Byte
<1>5. CalculateChecksum(bytes) = sum[n]
  BY Zenon DEF CalculateChecksum
<1> HIDE DEF n, op
<1>6. PICK g \in [0 .. n -> Byte] : Folds(g, op, 0, bytes, n)
  BY <1>1, <1>3, <1>4, FoldExists
<1>7. g = sums(g)
  <2>1. ASSUME NEW i \in 0 .. n PROVE g[i] = IF i = 0 THEN 0 ELSE (g[i - 1] + bytes[i]) % 256
    <3>1. CASE i = 0
      BY <1>6, <3>1 DEF Folds
    <3>2. CASE i # 0
      <4>1. i \in 1 .. n /\ i - 1 \in 0 .. n
        BY <1>1, <3>2
      <4>2. g[i - 1] \in Byte /\ bytes[i] \in Byte /\ g[i] = op[<<g[i - 1], bytes[i]>>]
        BY <1>1, <1>6, <4>1 DEF Folds
      <4> QED BY <1>2, <3>2, <4>2
    <3> QED BY <3>1, <3>2
  <2>2. sums(g) = [i \in 0 .. n |-> g[i]]
    BY <2>1, Zenon
  <2> QED BY <2>2, Zenon
<1>8. sum = sums(sum)
  BY <1>7, Zenon
<1> HIDE DEF sum
<1>9. \A i \in 0 .. n : sum[i] = IF i = 0 THEN 0 ELSE (sum[i - 1] + bytes[i]) % 256
  BY <1>8, Zenon
<1>10. 0 \in T
  BY <1>1, <1>4, <1>9
<1>11. ASSUME NEW i \in Nat, i \in T PROVE i + 1 \in T
  <2> SUFFICES ASSUME i + 1 <= n PROVE sum[i + 1] \in Byte
    OBVIOUS
  <2> DEFINE j == i + 1
  <2>1. j \in 0 .. n /\ j # 0 /\ j - 1 = i /\ j \in 1 .. n /\ i <= n
    BY <1>1
  <2>2. sum[i] \in Byte
    BY <1>11, <2>1
  <2> HIDE DEF j
  <2>3. sum[j] = (sum[j - 1] + bytes[j]) % 256
    BY <1>9, <2>1
  <2>4. sum[j] \in Byte
    <3>1. sum[j - 1] \in Byte /\ bytes[j] \in Byte
      BY <1>1, <2>1, <2>2, Zenon
    <3>2. \A a, b \in Byte : (a + b) % 256 \in Byte
      BY <1>2, Zenon
    <3>3. (sum[j - 1] + bytes[j]) % 256 \in Byte
      BY ONLY <3>1, <3>2, Zenon
    <3> QED BY <2>3, <3>3, Zenon
  <2> QED BY <2>4 DEF j
<1>12. n \in T
  <2> HIDE DEF T
  <2> QED BY <1>1, <1>10, <1>11, Induction
<1> QED BY <1>1, <1>5, <1>12

Reading == [out : Seq(Byte), escaped : BOOLEAN, valid : BOOLEAN]
NothingRead == [out |-> <<>>, escaped |-> FALSE, valid |-> TRUE]

LEMMA ReadByteType ==
  \A r \in Reading, byte \in Byte : ReadByte(r, byte) \in Reading
<1> SUFFICES ASSUME NEW r \in Reading, NEW byte \in Byte PROVE ReadByte(r, byte) \in Reading
  OBVIOUS
<1>1. r.out \in Seq(Byte) /\ r.escaped \in BOOLEAN /\ r.valid \in BOOLEAN
      /\ r = [out |-> r.out, escaped |-> r.escaped, valid |-> r.valid]
  BY DEF Reading
<1> DEFINE cleared == {Cleared(b) : b \in Special}
<1>2. byte \in cleared => byte + 16 \in Byte
  BY DEF Cleared, Special, kStartMarker, kEndMarker, kEscapeSentry, Byte
<1> HIDE DEF cleared
<1>3. CASE r.escaped /\ byte \in cleared
  <2>1. Append(r.out, byte + 16) \in Seq(Byte)
    BY <1>1, <1>2, <1>3, AppendProperties
  <2>2. ReadByte(r, byte) = [out |-> Append(r.out, byte + 16), escaped |-> FALSE, valid |-> r.valid]
    BY <1>1, <1>3 DEF ReadByte, cleared
  <2> QED BY <1>1, <2>1, <2>2 DEF Reading
<1>4. CASE r.escaped /\ byte \notin cleared
  <2>1. ReadByte(r, byte) = [out |-> r.out, escaped |-> FALSE, valid |-> FALSE]
    BY <1>1, <1>4 DEF ReadByte, cleared
  <2> QED BY <1>1, <2>1 DEF Reading
<1>5. CASE ~r.escaped /\ byte = kEscapeSentry
  <2>1. ReadByte(r, byte) = [out |-> r.out, escaped |-> TRUE, valid |-> r.valid]
    BY <1>1, <1>5 DEF ReadByte, cleared
  <2> QED BY <1>1, <2>1 DEF Reading
<1>6. CASE ~r.escaped /\ byte # kEscapeSentry
  <2>1. Append(r.out, byte) \in Seq(Byte)
    BY <1>1, AppendProperties
  <2>2. ReadByte(r, byte) = [out |-> Append(r.out, byte), escaped |-> FALSE, valid |-> r.valid]
    BY <1>1, <1>6 DEF ReadByte, cleared
  <2> QED BY <1>1, <2>1, <2>2 DEF Reading
<1> QED BY <1>1, <1>3, <1>4, <1>5, <1>6

\* What has been read after each byte.
Reads(g, bytes, n) == g[0] = NothingRead /\ \A i \in 1 .. n : g[i] = ReadByte(g[i - 1], bytes[i])

LEMMA ReadBytesIs ==
  ASSUME NEW bytes, Len(bytes) \in Nat,
         NEW g \in [0 .. Len(bytes) -> Reading], Reads(g, bytes, Len(bytes))
  PROVE  ReadBytes(bytes) = g[Len(bytes)]
<1> DEFINE n == Len(bytes)
           reads(e) == [i \in 0 .. n |-> IF i = 0 THEN NothingRead ELSE ReadByte(e[i - 1], bytes[i])]
           read == CHOOSE e : e = reads(e)
           T == {i \in Nat : i <= n => read[i] = g[i]}
<1>1. ReadBytes(bytes) = read[n]
  BY Zenon DEF ReadBytes, NothingRead
<1> HIDE DEF n
<1>2. n \in Nat /\ g \in [0 .. n -> Reading] /\ g[0] = NothingRead
      /\ \A i \in 1 .. n : g[i] = ReadByte(g[i - 1], bytes[i])
  BY DEF n, Reads
<1>3. g = reads(g)
  <2>1. ASSUME NEW i \in 0 .. n
        PROVE  g[i] = IF i = 0 THEN NothingRead ELSE ReadByte(g[i - 1], bytes[i])
    <3>1. i # 0 => i \in 1 .. n
      BY <1>2
    <3> QED BY <1>2, <3>1, Zenon
  <2>2. reads(g) = [i \in 0 .. n |-> g[i]]
    BY <2>1, Zenon
  <2> QED BY <1>2, <2>2, Zenon
<1>4. read = reads(read)
  BY <1>3, Zenon
<1> HIDE DEF read
<1>5. \A i \in 0 .. n : read[i] = IF i = 0 THEN NothingRead ELSE ReadByte(read[i - 1], bytes[i])
  BY <1>4, Zenon
<1>6. 0 \in T
  <2>1. 0 \in 0 .. n
    BY <1>2
  <2>2. read[0] = g[0]
    BY <1>2, <1>5, <2>1, Zenon
  <2> QED BY <2>2
<1>7. ASSUME NEW i \in Nat, i \in T PROVE i + 1 \in T
  <2> SUFFICES ASSUME i + 1 <= n PROVE read[i + 1] = g[i + 1]
    OBVIOUS
  <2> DEFINE j == i + 1
  <2>1. j \in 0 .. n /\ j # 0 /\ j - 1 = i /\ j \in 1 .. n /\ i <= n
    BY <1>2
  <2>2. read[i] = g[i]
    BY <1>7, <2>1
  <2> HIDE DEF j
  <2>3. read[j] = g[j]
    BY <1>2, <1>5, <2>1, <2>2, Zenon
  <2> QED BY <2>3 DEF j
<1>8. n \in T
  <2> HIDE DEF T
  <2> QED BY <1>2, <1>6, <1>7, Induction
<1>9. read[n] = g[n]
  BY <1>2, <1>8
<1> QED BY <1>1, <1>9 DEF n

LEMMA ReadBytesSteps ==
  ASSUME NEW bytes \in Seq(Byte)
  PROVE  \E g \in [0 .. Len(bytes) -> Reading] :
             Reads(g, bytes, Len(bytes)) /\ ReadBytes(bytes) = g[Len(bytes)]
<1> DEFINE n == Len(bytes)
           op == [p \in Reading \X Byte |-> ReadByte(p[1], p[2])]
<1>1. n \in Nat /\ \A i \in 1 .. n : bytes[i] \in Byte
  BY LenProperties, ElementOfSeq
<1>2. \A r \in Reading, byte \in Byte : op[<<r, byte>>] = ReadByte(r, byte)
  OBVIOUS
<1>3. op \in [Reading \X Byte -> Reading]
  BY ReadByteType
<1>4. NothingRead \in Reading
  BY DEF NothingRead, Reading
<1> HIDE DEF op
<1>5. PICK g \in [0 .. n -> Reading] : Folds(g, op, NothingRead, bytes, n)
  <2> HIDE DEF n
  <2> QED BY <1>1, <1>3, <1>4, FoldExists
<1>6. ASSUME NEW i \in 1 .. n PROVE g[i] = ReadByte(g[i - 1], bytes[i])
  <2>1. i - 1 \in 0 .. n
    BY <1>1
  <2>2. g[i - 1] \in Reading /\ bytes[i] \in Byte
    BY <1>1, <1>5, <2>1
  <2>3. g[i] = op[<<g[i - 1], bytes[i]>>]
    BY <1>5 DEF Folds
  <2> QED BY <1>2, <2>2, <2>3
<1>7. Reads(g, bytes, n)
  BY <1>5, <1>6, Zenon DEF Reads, Folds
<1> QED BY <1>1, <1>7, ReadBytesIs

LEMMA ReadBytesType ==
  ASSUME NEW bytes \in Seq(Byte)
  PROVE  ReadBytes(bytes) \in Reading
<1>1. PICK g \in [0 .. Len(bytes) -> Reading] : ReadBytes(bytes) = g[Len(bytes)]
  BY ReadBytesSteps
<1> QED BY <1>1, LenProperties

LEMMA ReadBytesOfNone == ReadBytes(<<>>) = NothingRead
<1> DEFINE none == <<>>
<1>1. none \in Seq(Byte) /\ Len(none) = 0
  OBVIOUS
<1> HIDE DEF none
<1>2. PICK g \in [0 .. Len(none) -> Reading] :
          Reads(g, none, Len(none)) /\ ReadBytes(none) = g[Len(none)]
  BY <1>1, ReadBytesSteps
<1>3. ReadBytes(none) = NothingRead
  BY <1>1, <1>2, Zenon DEF Reads
<1> QED BY <1>3 DEF none

LEMMA ReadBytesAppend ==
  \A bytes \in Seq(Byte), byte \in Byte :
      ReadBytes(Append(bytes, byte)) = ReadByte(ReadBytes(bytes), byte)
<1> SUFFICES ASSUME NEW bytes \in Seq(Byte), NEW byte \in Byte
             PROVE  ReadBytes(Append(bytes, byte)) = ReadByte(ReadBytes(bytes), byte)
  OBVIOUS
<1> DEFINE n == Len(bytes)
           m == n + 1
           s == Append(bytes, byte)
<1>1. n \in Nat /\ m \in 1 .. m /\ m - 1 = n /\ \A i \in 1 .. n : i \in 1 .. m
  BY LenProperties
<1>2. s \in Seq(Byte) /\ Len(s) = m /\ s[m] = byte /\ \A i \in 1 .. n : s[i] = bytes[i]
  BY AppendProperties
<1> HIDE DEF m, s
<1>3. PICK g \in [0 .. m -> Reading] : Reads(g, s, m) /\ ReadBytes(s) = g[m]
  BY <1>2, ReadBytesSteps
<1> DEFINE h == [i \in 0 .. n |-> g[i]]
<1>4. h \in [0 .. n -> Reading] /\ \A i \in 0 .. n : h[i] = g[i]
  BY <1>1 DEF m
<1> HIDE DEF h
<1>5. Reads(h, bytes, n)
  <2>1. 0 \in 0 .. n /\ \A i \in 1 .. n : i \in 0 .. n /\ i - 1 \in 0 .. n
    BY <1>1
  <2> HIDE DEF n
  <2> QED BY <1>1, <1>2, <1>3, <1>4, <2>1, Zenon DEF Reads
<1>6. ReadBytes(bytes) = h[n]
  BY <1>1, <1>4, <1>5, ReadBytesIs
<1>7. h[n] = g[n]
  BY <1>1, <1>4
<1>8. g[m] = ReadByte(g[m - 1], s[m])
  BY <1>1, <1>3, Zenon DEF Reads
<1> QED BY <1>1, <1>2, <1>3, <1>6, <1>7, <1>8, Zenon DEF s

LEMMA PartAppend ==
  ASSUME NEW S, NEW s \in Seq(S), NEW i \in Nat, NEW j \in Nat, i <= j, j < Len(s)
  PROVE  Part(s, i, j + 1) = Append(Part(s, i, j), s[j + 1])
<1> DEFINE k == j + 1
<1>1. Len(s) \in Nat /\ k \in Nat /\ i <= k /\ k <= Len(s) /\ j <= Len(s) /\ k \in 1 .. Len(s)
      /\ k - i = (j - i) + 1 /\ i + (k - i) = k /\ j - i \in Nat /\ j - i + 1 \in 1 .. k - i
  BY LenProperties
<1>2. s[k] \in S
  BY <1>1, ElementOfSeq
<1> HIDE DEF k
<1> DEFINE t == Part(s, i, k)
           u == Part(s, i, j)
           v == Append(u, s[k])
<1>3. t \in Seq(S) /\ Len(t) = k - i /\ \A x \in 1 .. k - i : t[x] = s[i + x]
  <2>1. s \in Seq(S) /\ i \in Nat /\ k \in Nat /\ i <= k /\ k <= Len(s)
    BY <1>1
  <2> QED BY ONLY <2>1, PartAt, Zenon
<1>4. u \in Seq(S) /\ Len(u) = j - i /\ \A x \in 1 .. j - i : u[x] = s[i + x]
  <2>1. s \in Seq(S) /\ i \in Nat /\ j \in Nat /\ i <= j /\ j <= Len(s)
    BY <1>1
  <2> QED BY ONLY <2>1, PartAt, Zenon
<1> HIDE DEF t, u
<1>5. v \in Seq(S) /\ Len(v) = k - i /\ v[j - i + 1] = s[k] /\ \A x \in 1 .. j - i : v[x] = u[x]
  BY <1>1, <1>2, <1>4, AppendProperties
<1> HIDE DEF v
<1>6. ASSUME NEW x \in 1 .. k - i PROVE t[x] = v[x]
  <2>1. CASE x \in 1 .. j - i
    BY <1>3, <1>4, <1>5, <2>1
  <2>2. CASE x \notin 1 .. j - i
    <3>1. x = k - i /\ x = j - i + 1
      BY <1>1, <2>2
    <3> QED BY <1>1, <1>3, <1>5, <3>1
  <2> QED BY <2>1, <2>2
<1>7. t = v
  BY <1>3, <1>5, <1>6, SeqEqual
<1> QED BY <1>7 DEF t, u, v, k

-----------------------------------------------------------------------------
(* Escaping *)

\* The bytes that may stand between the markers of a frame.
Clean == Byte \ {kStartMarker, kEndMarker}

EscapedByte(byte) == IF byte \in Special THEN <<kEscapeSentry, Cleared(byte)>> ELSE <<byte>>

LEMMA EscapedByteType ==
  \A byte \in Byte : EscapedByte(byte) \in Seq(Clean) /\ Len(EscapedByte(byte)) >= 1
<1> SUFFICES ASSUME NEW byte \in Byte
             PROVE  EscapedByte(byte) \in Seq(Clean) /\ Len(EscapedByte(byte)) >= 1
  OBVIOUS
<1>1. CASE byte \in Special
  <2>1. kEscapeSentry \in Clean /\ Cleared(byte) \in Clean
    BY <1>1 DEF Clean, Byte, Special, Cleared, kStartMarker, kEndMarker, kEscapeSentry
  <2>2. EscapedByte(byte) = <<kEscapeSentry, Cleared(byte)>>
    BY <1>1 DEF EscapedByte
  <2> HIDE DEF Clean
  <2> QED BY <2>1, <2>2
<1>2. CASE byte \notin Special
  <2>1. byte \in Clean
    BY <1>2 DEF Clean, Special
  <2>2. EscapedByte(byte) = <<byte>>
    BY <1>2 DEF EscapedByte
  <2> HIDE DEF Clean
  <2> QED BY <2>1, <2>2
<1> QED BY <1>1, <1>2

LEMMA EscapeSteps ==
  ASSUME NEW bytes \in Seq(Byte)
  PROVE  \E g \in [0 .. Len(bytes) -> Seq(Clean)] :
             /\ g[0] = <<>> /\ \A i \in 1 .. Len(bytes) : g[i] = g[i - 1] \o EscapedByte(bytes[i])
             /\ EscapeBytes(bytes) = g[Len(bytes)]
<1> DEFINE n == Len(bytes)
           f == [i \in 1 .. n |-> EscapedByte(bytes[i])]
<1>1. n \in Nat /\ DOMAIN bytes = 1 .. n /\ \A i \in 1 .. n : bytes[i] \in Byte
  BY LenProperties, ElementOfSeq
<1>2. EscapeBytes(bytes) = FlattenSeq(f)
  BY <1>1, Zenon DEF EscapeBytes, EscapedByte
<1> HIDE DEF n
<1>3. \A i \in 1 .. n : EscapedByte(bytes[i]) \in Seq(Clean)
  BY <1>1, EscapedByteType
<1>4. f \in Seq(Seq(Clean)) /\ Len(f) = n /\ \A i \in 1 .. n : f[i] = EscapedByte(bytes[i])
  BY <1>1, <1>3
<1> HIDE DEF f
<1>5. PICK g \in [0 .. Len(f) -> Seq(Clean)] : StepsTo(f, g, Len(f)) /\ FlattenSeq(f) = g[Len(f)]
  BY <1>4, FlattenSteps
<1>6. g[0] = <<>> /\ \A i \in 1 .. n : g[i] = g[i - 1] \o EscapedByte(bytes[i])
  BY <1>4, <1>5, Zenon DEF StepsTo
<1>7. g \in [0 .. n -> Seq(Clean)] /\ EscapeBytes(bytes) = g[n]
  BY <1>2, <1>4, <1>5
<1> QED BY <1>6, <1>7 DEF n

LEMMA EscapeType ==
  ASSUME NEW bytes \in Seq(Byte)
  PROVE  EscapeBytes(bytes) \in Seq(Clean) /\ Len(EscapeBytes(bytes)) >= Len(bytes)
<1> DEFINE n == Len(bytes)
<1>1. n \in Nat /\ \A i \in 1 .. n : bytes[i] \in Byte
  BY LenProperties, ElementOfSeq
<1>2. PICK g \in [0 .. n -> Seq(Clean)] :
          /\ g[0] = <<>> /\ \A i \in 1 .. n : g[i] = g[i - 1] \o EscapedByte(bytes[i])
          /\ EscapeBytes(bytes) = g[n]
  BY EscapeSteps
<1> HIDE DEF n
<1> DEFINE T == {i \in Nat : i <= n => Len(g[i]) >= i}
<1>3. 0 \in T
  BY <1>2
<1>4. ASSUME NEW i \in Nat, i \in T PROVE i + 1 \in T
  <2> SUFFICES ASSUME i + 1 <= n PROVE Len(g[i + 1]) >= i + 1
    OBVIOUS
  <2> DEFINE j == i + 1
             u == g[i]
             v == EscapedByte(bytes[j])
  <2>1. j \in 1 .. n /\ j - 1 = i /\ i \in 0 .. n /\ i <= n
    BY <1>1
  <2>2. u \in Seq(Clean) /\ Len(u) >= i
    BY <1>2, <1>4, <2>1
  <2>3. v \in Seq(Clean) /\ Len(v) >= 1
    BY <1>1, <2>1, EscapedByteType
  <2> HIDE DEF j
  <2>4. g[j] = g[j - 1] \o v
    BY <1>2, <2>1
  <2>5. g[j] = u \o v
    BY <2>1, <2>4, Zenon
  <2> HIDE DEF u, v
  <2>6. Len(u) \in Nat /\ Len(v) \in Nat /\ Len(u \o v) = Len(u) + Len(v)
    BY <2>2, <2>3, LenProperties, ConcatProperties
  <2> QED BY <2>2, <2>3, <2>5, <2>6 DEF j
<1>5. n \in T
  <2> HIDE DEF T
  <2> QED BY <1>1, <1>3, <1>4, Induction
<1> QED BY <1>1, <1>2, <1>5 DEF n

LEMMA CleanIsByte == Seq(Clean) \subseteq Seq(Byte)
<1> SUFFICES ASSUME NEW s \in Seq(Clean) PROVE s \in Seq(Byte)
  OBVIOUS
<1>1. Len(s) \in Nat /\ DOMAIN s = 1 .. Len(s) /\ s = [i \in 1 .. Len(s) |-> s[i]]
      /\ \A i \in 1 .. Len(s) : s[i] \in Clean
  BY LenProperties, ElementOfSeq
<1>2. \A i \in 1 .. Len(s) : s[i] \in Byte
  BY <1>1 DEF Clean
<1> QED BY <1>1, <1>2

\* Reading on over an escaped byte yields the byte.
LEMMA ReadEscaped ==
  ASSUME NEW bytes \in Seq(Byte), NEW byte \in Byte, NEW out \in Seq(Byte),
         ReadBytes(bytes) = [out |-> out, escaped |-> FALSE, valid |-> TRUE]
  PROVE  ReadBytes(bytes \o EscapedByte(byte))
             = [out |-> Append(out, byte), escaped |-> FALSE, valid |-> TRUE]
<1> DEFINE cleared == {Cleared(b) : b \in Special}
<1>1. CASE byte \in Special
  <2>1. kEscapeSentry \in Byte /\ Cleared(byte) \in Byte /\ Cleared(byte) \in cleared
        /\ Cleared(byte) + 16 = byte
    BY <1>1 DEF Byte, Special, Cleared, kStartMarker, kEndMarker, kEscapeSentry
  <2> DEFINE one == Append(bytes, kEscapeSentry)
  <2>2. one \in Seq(Byte)
    BY <2>1, AppendProperties
  <2> HIDE DEF one
  <2>3. bytes \o EscapedByte(byte) = Append(one, Cleared(byte))
    BY <1>1, <2>1 DEF EscapedByte, one
  <2>4. ReadBytes(one) = ReadByte(ReadBytes(bytes), kEscapeSentry)
    BY <2>1, ReadBytesAppend DEF one
  <2>5. ReadBytes(one) = [out |-> out, escaped |-> TRUE, valid |-> TRUE]
    <3>1. ReadByte([out |-> out, escaped |-> FALSE, valid |-> TRUE], kEscapeSentry)
              = [out |-> out, escaped |-> TRUE, valid |-> TRUE]
      BY DEF ReadByte
    <3> QED BY <2>4, <3>1
  <2>6. ReadBytes(Append(one, Cleared(byte))) = ReadByte(ReadBytes(one), Cleared(byte))
    BY <2>1, <2>2, ReadBytesAppend
  <2> DEFINE c == Cleared(byte)
  <2>7. c \in cleared /\ c + 16 = byte
    BY <2>1
  <2> HIDE DEF c
  <2>8. ReadByte([out |-> out, escaped |-> TRUE, valid |-> TRUE], c)
            = [out |-> Append(out, c + 16), escaped |-> FALSE, valid |-> TRUE]
    <3> HIDE DEF cleared
    <3> QED BY <2>7 DEF ReadByte, cleared
  <2> QED BY <2>3, <2>5, <2>6, <2>7, <2>8, Zenon DEF c
<1>2. CASE byte \notin Special
  <2>1. bytes \o EscapedByte(byte) = Append(bytes, byte)
    BY <1>2 DEF EscapedByte
  <2>2. ReadBytes(Append(bytes, byte)) = ReadByte(ReadBytes(bytes), byte)
    BY ReadBytesAppend
  <2>3. byte # kEscapeSentry
    BY <1>2 DEF Special
  <2>4. ReadByte([out |-> out, escaped |-> FALSE, valid |-> TRUE], byte)
            = [out |-> Append(out, byte), escaped |-> FALSE, valid |-> TRUE]
    BY <2>3 DEF ReadByte
  <2> QED BY <2>1, <2>2, <2>4
<1> QED BY <1>1, <1>2

\* What escapeBytes has written, unescapeBytes reads.
LEMMA UnescapeEscape ==
  ASSUME NEW bytes \in Seq(Byte)
  PROVE  UnescapeBytes(EscapeBytes(bytes)) = bytes
<1> DEFINE n == Len(bytes)
           come(i) == [out |-> Part(bytes, 0, i), escaped |-> FALSE, valid |-> TRUE]
<1>1. n \in Nat /\ \A i \in 1 .. n : bytes[i] \in Byte
  BY LenProperties, ElementOfSeq
<1>2. PICK g \in [0 .. n -> Seq(Clean)] :
          /\ g[0] = <<>> /\ \A i \in 1 .. n : g[i] = g[i - 1] \o EscapedByte(bytes[i])
          /\ EscapeBytes(bytes) = g[n]
  BY EscapeSteps
<1> DEFINE T == {i \in Nat : i <= n => ReadBytes(g[i]) = come(i)}
<1>3. 0 \in T
  <2>1. Part(bytes, 0, 0) = <<>>
    BY PartEmpty
  <2>2. ReadBytes(g[0]) = come(0)
    BY <1>2, <2>1, ReadBytesOfNone DEF NothingRead
  <2> QED BY <2>2
<1>4. ASSUME NEW i \in Nat, i \in T PROVE i + 1 \in T
  <2> SUFFICES ASSUME i + 1 <= n PROVE ReadBytes(g[i + 1]) = come(i + 1)
    OBVIOUS
  <2> DEFINE j == i + 1
             u == g[i]
             out == Part(bytes, 0, i)
  <2>1. j \in 1 .. n /\ j - 1 = i /\ i \in 0 .. n /\ i <= n /\ i < n /\ 0 <= i
    BY <1>1
  <2>2. u \in Seq(Byte) /\ ReadBytes(u) = come(i)
    BY <1>2, <1>4, <2>1, CleanIsByte
  <2>3. out \in Seq(Byte) /\ bytes[j] \in Byte
    BY <1>1, <2>1, PartAt
  <2>4. Part(bytes, 0, j) = Append(out, bytes[j])
    BY <2>1, PartAppend
  <2> HIDE DEF j, out
  <2>5. g[j] = g[j - 1] \o EscapedByte(bytes[j])
    BY <1>2, <2>1
  <2>6. g[j] = u \o EscapedByte(bytes[j])
    BY <2>1, <2>5, Zenon
  <2> HIDE DEF u
  <2>7. ReadBytes(u) = [out |-> out, escaped |-> FALSE, valid |-> TRUE]
    BY <2>2 DEF out
  <2>8. ReadBytes(u \o EscapedByte(bytes[j]))
            = [out |-> Append(out, bytes[j]), escaped |-> FALSE, valid |-> TRUE]
    BY <2>2, <2>3, <2>7, ReadEscaped
  <2>9. ReadBytes(g[j]) = come(j)
    BY <2>4, <2>6, <2>8
  <2> QED BY <2>9 DEF j
<1>5. ReadBytes(g[n]) = come(n)
  <2>1. n \in T
    <3> HIDE DEF T
    <3> QED BY <1>1, <1>3, <1>4, Induction
  <2> QED BY <1>1, <2>1
<1>6. Part(bytes, 0, n) = bytes
  BY PartOfAll
<1> HIDE DEF n
<1>7. ReadBytes(EscapeBytes(bytes)) = [out |-> bytes, escaped |-> FALSE, valid |-> TRUE]
  BY <1>2, <1>5, <1>6
<1> QED BY <1>7 DEF UnescapeBytes

-----------------------------------------------------------------------------
(* Packing *)

Body(frame) == <<frame.type, frame.seq>> \o LengthWord(Len(frame.payload)) \o frame.payload
Summed(frame) == Append(Body(frame), CalculateChecksum(Body(frame)))

LEMMA FrameIs ==
  ASSUME NEW frame \in Frames
  PROVE  /\ frame.type \in Byte /\ frame.seq \in Byte /\ frame.payload \in Seq(Byte)
         /\ Len(frame.payload) \in Nat
         /\ frame = [type |-> frame.type, seq |-> frame.seq, payload |-> frame.payload]
<1>1. frame \in UnpackedFrame
  BY FramingAssumption
<1>2. frame.payload \in Seq(Byte)
  BY <1>1 DEF UnpackedFrame
<1>3. Len(frame.payload) \in Nat
  BY <1>2, LenProperties
<1> QED BY <1>1, <1>3 DEF UnpackedFrame

LEMMA LengthWordIs ==
  ASSUME NEW n \in Nat
  PROVE  LengthWord(n) \in Seq(Byte) /\ Len(LengthWord(n)) = 4
<1>1. \A m \in Nat : m % 256 \in Byte
  BY DEF Byte
<1>2. n \div 16777216 \in Nat /\ n \div 65536 \in Nat /\ n \div 256 \in Nat
  OBVIOUS
<1> DEFINE a == (n \div 16777216) % 256
           b == (n \div 65536) % 256
           c == (n \div 256) % 256
           d == n % 256
<1>3. a \in Byte /\ b \in Byte /\ c \in Byte /\ d \in Byte
  BY <1>1, <1>2
<1>4. LengthWord(n) = <<a, b, c, d>>
  BY DEF LengthWord
<1> HIDE DEF a, b, c, d
<1> QED BY <1>3, <1>4

LEMMA BodyIs ==
  ASSUME NEW frame \in Frames
  PROVE  /\ Body(frame) \in Seq(Byte) /\ Len(Body(frame)) = 6 + Len(frame.payload)
         /\ Body(frame)[1] = frame.type /\ Body(frame)[2] = frame.seq
         /\ \A x \in 1 .. 4 : Body(frame)[2 + x] = LengthWord(Len(frame.payload))[x]
         /\ \A x \in 1 .. Len(frame.payload) : Body(frame)[6 + x] = frame.payload[x]
<1> DEFINE p == frame.payload
           m == Len(p)
           w == LengthWord(m)
           two == <<frame.type, frame.seq>>
           h == two \o w
<1>1. frame.type \in Byte /\ frame.seq \in Byte /\ p \in Seq(Byte)
  BY FrameIs
<1>2. m \in Nat
  BY FrameIs
<1> HIDE DEF m, p
<1>3. /\ h \in Seq(Byte) /\ Len(h) = 6
      /\ h[1] = frame.type /\ h[2] = frame.seq /\ \A x \in 1 .. 4 : h[2 + x] = w[x]
  <2>1. w \in Seq(Byte) /\ Len(w) = 4
    BY <1>2, LengthWordIs
  <2>2. two \in Seq(Byte) /\ Len(two) = 2 /\ two[1] = frame.type /\ two[2] = frame.seq
    BY <1>1
  <2> HIDE DEF w, two
  <2>3. /\ h \in Seq(Byte) /\ Len(h) = Len(two) + Len(w)
        /\ \A i \in 1 .. Len(two) + Len(w) : h[i] = IF i <= Len(two) THEN two[i] ELSE w[i - Len(two)]
    BY ONLY <2>1, <2>2, ConcatAt, Zenon
  <2> HIDE DEF h
  <2>4. Len(h) = 6 /\ \A i \in 1 .. 6 : h[i] = IF i <= 2 THEN two[i] ELSE w[i - 2]
    BY <2>1, <2>2, <2>3
  <2>5. \A x \in 1 .. 4 : 2 + x \in 1 .. 6 /\ ~(2 + x <= 2) /\ 2 + x - 2 = x
    OBVIOUS
  <2>6. \A x \in 1 .. 4 : h[2 + x] = w[x]
    BY <2>4, <2>5
  <2>7. 1 \in 1 .. 6 /\ 1 <= 2 /\ 2 \in 1 .. 6 /\ 2 <= 2
    OBVIOUS
  <2>8. h[1] = two[1] /\ h[2] = two[2]
    BY <2>4, <2>7
  <2> QED BY <2>2, <2>3, <2>4, <2>6, <2>8, Zenon
<1> HIDE DEF h, w
<1>4. /\ h \o p \in Seq(Byte) /\ Len(h \o p) = 6 + m
      /\ \A i \in 1 .. 6 + m : (h \o p)[i] = IF i <= 6 THEN h[i] ELSE p[i - 6]
  <2>1. h \in Seq(Byte) /\ p \in Seq(Byte) /\ Len(h) = 6 /\ Len(p) = m
    BY <1>1, <1>3 DEF m
  <2>2. /\ h \o p \in Seq(Byte) /\ Len(h \o p) = Len(h) + Len(p)
        /\ \A i \in 1 .. Len(h) + Len(p) :
               (h \o p)[i] = IF i <= Len(h) THEN h[i] ELSE p[i - Len(h)]
    BY ONLY <2>1, ConcatAt, Zenon
  <2> QED BY <2>1, <2>2, Zenon
<1>5. \A x \in 1 .. m : 6 + x \in 1 .. 6 + m /\ ~(6 + x <= 6) /\ 6 + x - 6 = x
  BY <1>2
<1>6. \A x \in 1 .. m : (h \o p)[6 + x] = p[x]
  BY <1>4, <1>5
<1>7. \A i \in 1 .. 6 : i \in 1 .. 6 + m /\ (h \o p)[i] = h[i]
  BY <1>2, <1>4
<1>8. Body(frame) = h \o p
  BY DEF Body, h, p, m, w
<1>9. \A x \in 1 .. 4 : (h \o p)[2 + x] = w[x]
  <2>1. \A x \in 1 .. 4 : 2 + x \in 1 .. 6
    OBVIOUS
  <2> QED BY <1>3, <1>7, <2>1
<1>10. (h \o p)[1] = frame.type /\ (h \o p)[2] = frame.seq
  <2>1. 1 \in 1 .. 6 /\ 2 \in 1 .. 6
    OBVIOUS
  <2> QED BY <1>3, <1>7, <2>1, Zenon
<1> DEFINE b == Body(frame)
<1> HIDE DEF b
<1>11. b = h \o p
  BY <1>8 DEF b
<1>12. /\ b \in Seq(Byte) /\ Len(b) = 6 + m /\ b[1] = frame.type /\ b[2] = frame.seq
       /\ \A x \in 1 .. 4 : b[2 + x] = w[x]
       /\ \A x \in 1 .. m : b[6 + x] = p[x]
  BY <1>4, <1>6, <1>9, <1>10, <1>11, Zenon
<1> QED BY <1>12 DEF m, p, w, b

LEMMA SummedIs ==
  ASSUME NEW frame \in Frames
  PROVE  /\ Summed(frame) \in Seq(Byte) /\ Len(Summed(frame)) = 7 + Len(frame.payload)
         /\ Summed(frame)[7 + Len(frame.payload)] = CalculateChecksum(Body(frame))
         /\ \A x \in 1 .. 6 + Len(frame.payload) : Summed(frame)[x] = Body(frame)[x]
         /\ Len(frame.payload) \in Nat
<1> DEFINE b == Body(frame)
           c == CalculateChecksum(b)
           m == Len(frame.payload)
<1>1. m \in Nat /\ b \in Seq(Byte) /\ Len(b) = 6 + m
  BY BodyIs, FrameIs, LenProperties
<1>2. c \in Byte
  BY <1>1, ChecksumType
<1> HIDE DEF b, c, m
<1>3. /\ Append(b, c) \in Seq(Byte) /\ Len(Append(b, c)) = 7 + m
      /\ Append(b, c)[7 + m] = c /\ \A x \in 1 .. 6 + m : Append(b, c)[x] = b[x]
  <2>1. 6 + m + 1 = 7 + m
    BY <1>1
  <2> QED BY <1>1, <1>2, <2>1, AppendProperties
<1>4. Summed(frame) = Append(b, c)
  BY DEF Summed, b, c
<1> QED BY <1>1, <1>3, <1>4 DEF b, c, m

\* A packed frame has its markers at the ends and nowhere else.
LEMMA PackFrameIs ==
  ASSUME NEW frame \in Frames
  PROVE  LET p == PackFrame(frame)
         IN  /\ p \in Seq(Byte) /\ Len(p) \in Nat /\ Len(p) >= 9
             /\ p[1] = kStartMarker /\ p[Len(p)] = kEndMarker
             /\ \A x \in 2 .. Len(p) - 1 : p[x] \in Clean
             /\ SubSeq(p, 2, Len(p) - 1) = EscapeBytes(Summed(frame))
<1> DEFINE e == EscapeBytes(Summed(frame))
           m == Len(e)
           p == PackFrame(frame)
           one == <<kStartMarker>>
           last == <<kEndMarker>>
<1>1. e \in Seq(Clean) /\ m \in Nat /\ m >= 7
  <2>1. Summed(frame) \in Seq(Byte) /\ Len(Summed(frame)) >= 7
    BY SummedIs
  <2> QED BY <2>1, EscapeType, LenProperties
<1>2. e \in Seq(Byte)
  BY <1>1, CleanIsByte
<1>3. p = (one \o e) \o last
  BY Zenon DEF PackFrame, Summed, Body, p, e, one, last
<1>4. /\ one \in Seq(Byte) /\ Len(one) = 1 /\ one[1] = kStartMarker
      /\ last \in Seq(Byte) /\ Len(last) = 1 /\ last[1] = kEndMarker
  BY DEF Byte, kStartMarker, kEndMarker
<1> HIDE DEF one, last, e, p
<1> DEFINE front == one \o e
<1>5. front \in Seq(Byte) /\ Len(front) = 1 + m
      /\ \A i \in 1 .. 1 + m : front[i] = IF i <= 1 THEN one[i] ELSE e[i - 1]
  <2> HIDE DEF m
  <2> QED BY <1>2, <1>4, ConcatProperties DEF m
<1> HIDE DEF front, m
<1>6. p \in Seq(Byte) /\ Len(p) = m + 2
      /\ \A i \in 1 .. m + 2 : p[i] = IF i <= 1 + m THEN front[i] ELSE last[i - (1 + m)]
  <2>1. 1 + m + 1 = m + 2
    BY <1>1
  <2>2. p = front \o last
    BY <1>3 DEF front
  <2>3. /\ p \in Seq(Byte) /\ Len(p) = Len(front) + Len(last)
        /\ \A i \in 1 .. Len(front) + Len(last) :
               p[i] = IF i <= Len(front) THEN front[i] ELSE last[i - Len(front)]
    BY ONLY <1>4, <1>5, <2>2, ConcatAt, Zenon
  <2> QED BY <1>4, <1>5, <2>1, <2>3, Zenon
<1>7. p[1] = kStartMarker
  <2>1. 1 \in 1 .. m + 2 /\ 1 <= 1 + m /\ 1 \in 1 .. 1 + m
    BY <1>1
  <2> QED BY <1>4, <1>5, <1>6, <2>1
<1>8. p[m + 2] = kEndMarker
  <2> DEFINE k == m + 2
  <2>1. k \in 1 .. m + 2 /\ ~(k <= 1 + m) /\ k - (1 + m) = 1
    BY <1>1
  <2> HIDE DEF k
  <2>2. p[k] = kEndMarker
    BY <1>4, <1>6, <2>1
  <2> QED BY <2>2 DEF k
<1>9. \A x \in 1 .. m : p[x + 1] = e[x] /\ e[x] \in Clean
  <2> TAKE x \in 1 .. m
  <2>1. x + 1 \in 1 .. m + 2 /\ x + 1 <= 1 + m /\ x + 1 \in 1 .. 1 + m /\ ~(x + 1 <= 1)
        /\ x + 1 - 1 = x
    BY <1>1
  <2>2. e[x] \in Clean
    BY <1>1, ElementOfSeq DEF m
  <2> QED BY <1>5, <1>6, <2>1, <2>2
<1>10. m + 2 - 1 = m + 1 /\ m + 2 \in Nat /\ m + 2 >= 9
  BY <1>1
<1>11. \A x \in 2 .. m + 1 : p[x] \in Clean
  <2> TAKE x \in 2 .. m + 1
  <2>1. x - 1 \in 1 .. m /\ x - 1 + 1 = x
    BY <1>1
  <2>2. p[x - 1 + 1] \in Clean
    BY <1>9, <2>1
  <2> QED BY <2>1, <2>2
<1>12. SubSeq(p, 2, m + 1) = e
  <2> DEFINE s == Part(p, 1, m + 1)
  <2>1. p \in Seq(Byte) /\ 1 \in Nat /\ m + 1 \in Nat /\ 1 <= m + 1 /\ m + 1 <= Len(p)
        /\ m + 1 - 1 = m
    BY <1>1, <1>6
  <2> DEFINE k == m + 1
  <2>2. \A x \in 1 .. m : 1 + x = x + 1
    OBVIOUS
  <2>3. s \in Seq(Byte) /\ Len(s) = m /\ \A x \in 1 .. m : s[x] = p[1 + x]
    <3>1. p \in Seq(Byte) /\ 1 \in Nat /\ k \in Nat /\ 1 <= k /\ k <= Len(p) /\ k - 1 = m
      BY <1>1, <2>1
    <3> HIDE DEF k
    <3>2. Part(p, 1, k) \in Seq(Byte) /\ Len(Part(p, 1, k)) = k - 1
          /\ \A x \in 1 .. k - 1 : Part(p, 1, k)[x] = p[1 + x]
      BY ONLY <3>1, PartAt, Zenon
    <3>3. Part(p, 1, k) \in Seq(Byte) /\ Len(Part(p, 1, k)) = m
          /\ \A x \in 1 .. m : Part(p, 1, k)[x] = p[1 + x]
      BY <3>1, <3>2, Zenon
    <3> QED BY <3>3 DEF k
  <2> HIDE DEF s
  <2>4. \A x \in 1 .. m : s[x] = e[x]
    BY <1>9, <2>2, <2>3
  <2>5. s = e
    BY <1>2, <2>3, <2>4, SeqEqual DEF m
  <2> QED BY <2>5 DEF s, Part
<1>13. /\ p \in Seq(Byte) /\ Len(p) \in Nat /\ Len(p) >= 9
       /\ p[1] = kStartMarker /\ p[Len(p)] = kEndMarker
       /\ \A x \in 2 .. Len(p) - 1 : p[x] \in Clean
       /\ SubSeq(p, 2, Len(p) - 1) = e
  <2>1. Len(p) = m + 2 /\ Len(p) - 1 = m + 1 /\ Len(p) \in Nat /\ Len(p) >= 9
    <3>1. Len(p) = m + 2
      BY <1>6, Zenon
    <3> DEFINE l == Len(p)
    <3>2. l = m + 2 /\ m \in Nat /\ m >= 7
      BY <1>1, <3>1
    <3> HIDE DEF l
    <3>3. l = m + 2 /\ l - 1 = m + 1 /\ l \in Nat /\ l >= 9
      BY ONLY <3>2
    <3> QED BY <3>3 DEF l
  <2>2. p[Len(p)] = kEndMarker
    BY <1>8, <2>1, Zenon
  <2>3. \A x \in 2 .. Len(p) - 1 : p[x] \in Clean
    BY <1>11, <2>1, Zenon
  <2>4. SubSeq(p, 2, Len(p) - 1) = e
    BY <1>12, <2>1, Zenon
  <2> QED BY <1>6, <1>7, <2>1, <2>2, <2>3, <2>4, Zenon
<1> QED BY <1>13, Zenon DEF p, e

\* What packFrame has packed, unpackFrame unpacks.
LEMMA UnpackPacked ==
  ASSUME NEW frame \in Frames
  PROVE  UnpackFrame(PackFrame(frame)) = <<frame>>
<1> DEFINE p == PackFrame(frame)
           body == Summed(frame)
           m == Len(frame.payload)
           size == Len(body)
<1>1. /\ p \in Seq(Byte) /\ Len(p) >= 9
      /\ p[1] = kStartMarker /\ p[Len(p)] = kEndMarker
      /\ SubSeq(p, 2, Len(p) - 1) = EscapeBytes(body)
  BY PackFrameIs
<1>2. body \in Seq(Byte) /\ size = 7 + m /\ body[7 + m] = CalculateChecksum(Body(frame))
      /\ m \in Nat /\ \A x \in 1 .. 6 + m : body[x] = Body(frame)[x]
  BY SummedIs
<1>3. UnescapeBytes(SubSeq(p, 2, Len(p) - 1)) = body
  BY <1>1, <1>2, UnescapeEscape
<1>4. size - 1 = 6 + m /\ size - 7 = m /\ size >= 7 /\ \A x \in 1 .. 6 : x \in 1 .. 6 + m
  BY <1>2
<1>5. SubSeq(body, 1, size - 1) = Body(frame)
  <2> DEFINE k == 6 + m
             s == Part(body, 0, k)
             b == Body(frame)
  <2>1. body \in Seq(Byte) /\ 0 \in Nat /\ k \in Nat /\ 0 <= k /\ k <= Len(body) /\ k - 0 = k
        /\ \A x \in 1 .. k : 0 + x = x
    BY <1>2
  <2>2. b \in Seq(Byte) /\ Len(b) = k
    BY BodyIs
  <2>3. \A x \in 1 .. k : body[x] = b[x]
    BY <1>2
  <2> HIDE DEF k, body, b
  <2>4. s \in Seq(Byte) /\ Len(s) = k - 0 /\ \A x \in 1 .. k - 0 : s[x] = body[0 + x]
    BY ONLY <2>1, PartAt, Zenon
  <2> HIDE DEF s
  <2>5. \A x \in 1 .. k : s[x] = b[x]
    BY <2>1, <2>3, <2>4
  <2>6. s = b
    BY <2>1, <2>2, <2>4, <2>5, SeqEqual
  <2> QED BY <1>4, <2>6 DEF s, Part, k, b
<1>6. SubSeq(body, 7, size - 1) = frame.payload
  <2> DEFINE k == 6 + m
             s == Part(body, 6, k)
             q == frame.payload
  <2>1. body \in Seq(Byte) /\ 6 \in Nat /\ k \in Nat /\ 6 <= k /\ k <= Len(body) /\ k - 6 = m
        /\ \A x \in 1 .. m : 6 + x \in 1 .. k
    BY <1>2
  <2>2. q \in Seq(Byte) /\ Len(q) = m
    BY FrameIs
  <2>3. \A x \in 1 .. m : Body(frame)[6 + x] = q[x]
    BY BodyIs
  <2>4. \A x \in 1 .. k : body[x] = Body(frame)[x]
    BY <1>2
  <2> HIDE DEF k, body, q, m
  <2>5. s \in Seq(Byte) /\ Len(s) = k - 6 /\ \A x \in 1 .. k - 6 : s[x] = body[6 + x]
    BY ONLY <2>1, PartAt, Zenon
  <2> HIDE DEF s
  <2>6. \A x \in 1 .. m : s[x] = q[x]
    BY <2>1, <2>3, <2>4, <2>5
  <2>7. s = q
    BY <2>1, <2>2, <2>5, <2>6, SeqEqual
  <2> QED BY <1>4, <2>7 DEF s, Part, k, q
<1>7. body[1] = frame.type /\ body[2] = frame.seq /\ SubSeq(body, 3, 6) = LengthWord(m)
  <2> DEFINE s == Part(body, 2, 6)
             w == LengthWord(m)
             b == Body(frame)
  <2>1. /\ b[1] = frame.type /\ b[2] = frame.seq /\ \A x \in 1 .. 4 : b[2 + x] = w[x]
    BY BodyIs
  <2>2. w \in Seq(Byte) /\ Len(w) = 4
    BY <1>2, LengthWordIs
  <2>3. body \in Seq(Byte) /\ 2 \in Nat /\ 6 \in Nat /\ 2 <= 6 /\ 6 <= Len(body) /\ 6 - 2 = 4
        /\ \A x \in 1 .. 4 : 2 + x \in 1 .. 6
    BY <1>2
  <2>4. \A x \in 1 .. 6 : body[x] = b[x]
    BY <1>2, <1>4
  <2> HIDE DEF w, body, b, m
  <2>5. s \in Seq(Byte) /\ Len(s) = 6 - 2 /\ \A x \in 1 .. 6 - 2 : s[x] = body[2 + x]
    BY ONLY <2>3, PartAt, Zenon
  <2> HIDE DEF s
  <2>6. \A x \in 1 .. 4 : s[x] = w[x]
    BY <2>1, <2>3, <2>4, <2>5
  <2>7. s = w
    BY <2>2, <2>3, <2>5, <2>6, SeqEqual
  <2>8. s = SubSeq(body, 3, 6)
    <3>1. 2 + 1 = 3
      OBVIOUS
    <3> QED BY <3>1, Zenon DEF s, Part
  <2> QED BY <2>1, <2>4, <2>7, <2>8 DEF w
<1>8. CalculateChecksum(SubSeq(body, 1, size - 1)) = body[size]
  BY <1>2, <1>5
<1>9. frame = [type |-> frame.type, seq |-> frame.seq, payload |-> frame.payload]
  BY FrameIs
<1> HIDE DEF body, p, m
<1> QED BY <1>1, <1>3, <1>4, <1>6, <1>7, <1>8, <1>9 DEF UnpackFrame, p

LEMMA UnpackNothing == UnpackFrame(<<>>) = <<>>
<1>1. ~(Len(<<>>) >= 9)
  OBVIOUS
<1> QED BY <1>1 DEF UnpackFrame

LEMMA UnpackType ==
  ASSUME NEW bytes \in Seq(Byte)
  PROVE  UnpackFrame(bytes) \in Seq(UnpackedFrame)
<1> DEFINE inner == SubSeq(bytes, 2, Len(bytes) - 1)
           body == UnescapeBytes(inner)
           size == Len(body)
           f == [type |-> body[1], seq |-> body[2], payload |-> SubSeq(body, 7, size - 1)]
<1>1. CASE Len(bytes) >= 9 /\ size >= 7
  <2>1. Len(bytes) \in Nat
    BY LenProperties
  <2>2. inner \in Seq(Byte)
    <3> DEFINE k == Len(bytes) - 1
    <3>1. bytes \in Seq(Byte) /\ 1 \in Nat /\ k \in Nat /\ 1 <= k /\ k <= Len(bytes)
      BY <1>1, <2>1
    <3> HIDE DEF k
    <3>2. Part(bytes, 1, k) \in Seq(Byte)
      BY ONLY <3>1, PartAt, Zenon
    <3> QED BY <3>2 DEF Part, k
  <2>3. body \in Seq(Byte)
    <3>1. ReadBytes(inner).out \in Seq(Byte)
      BY <2>2, ReadBytesType DEF Reading
    <3> HIDE DEF inner
    <3> QED BY <3>1 DEF UnescapeBytes
  <2> HIDE DEF body
  <2>4. size \in Nat /\ \A x \in 1 .. size : body[x] \in Byte
    BY <2>3, LenProperties, ElementOfSeq
  <2>5. SubSeq(body, 7, size - 1) \in Seq(Byte)
    <3> DEFINE k == size - 1
    <3>1. body \in Seq(Byte) /\ 6 \in Nat /\ k \in Nat /\ 6 <= k /\ k <= Len(body)
      BY <1>1, <2>3, <2>4
    <3> HIDE DEF k
    <3>2. Part(body, 6, k) \in Seq(Byte)
      BY ONLY <3>1, PartAt, Zenon
    <3> QED BY <3>2 DEF Part, k
  <2>6. f \in UnpackedFrame
    <3>1. body[1] \in Byte /\ body[2] \in Byte
      BY <1>1, <2>4
    <3> QED BY <2>5, <3>1 DEF UnpackedFrame
  <2> HIDE DEF f
  <2>7. <<f>> \in Seq(UnpackedFrame) /\ <<>> \in Seq(UnpackedFrame)
    BY <2>6
  <2>8. UnpackFrame(bytes) = <<f>> \/ UnpackFrame(bytes) = <<>>
    BY Zenon DEF UnpackFrame, f, body, inner
  <2> QED BY <2>7, <2>8
<1>2. CASE ~(Len(bytes) >= 9 /\ size >= 7)
  <2>1. UnpackFrame(bytes) = <<>>
    BY <1>2, Zenon DEF UnpackFrame
  <2> QED BY <2>1
<1> QED BY <1>1, <1>2

-----------------------------------------------------------------------------
(* The StreamFramer *)

LEMMA MinIs ==
  ASSUME NEW I \in SUBSET Nat, I # {}
  PROVE  Min(I) \in I /\ \A y \in I : Min(I) <= y
<1> DEFINE R == OpToRel(<, Nat)
<1>1. IsWellFoundedOn(R, Nat)
  BY NatLessThanWellFounded
<1>2. \A i, j \in Nat : i < j => <<i, j>> \in R
  BY DEF OpToRel
<1> HIDE DEF R
<1>3. PICK x \in I : \A y \in I : <<y, x>> \notin R
  BY <1>1, WFMin
<1>4. ASSUME NEW y \in I PROVE x <= y
  <2>1. x \in Nat /\ y \in Nat
    OBVIOUS
  <2>2. ~(y < x)
    BY <1>2, <1>3, <2>1
  <2> QED BY <2>1, <2>2
<1> QED BY <1>3, <1>4 DEF Min

LEMMA IndexOfIs ==
  ASSUME NEW s \in Seq(Byte), NEW byte
  PROVE  \/ /\ IndexOf(s, byte) = 0
            /\ \A x \in 1 .. Len(s) : s[x] # byte
         \/ /\ IndexOf(s, byte) \in 1 .. Len(s) /\ s[IndexOf(s, byte)] = byte
            /\ \A x \in 1 .. IndexOf(s, byte) - 1 : s[x] # byte
<1> DEFINE n == Len(s)
           I == {i \in 1 .. n : s[i] = byte}
<1>1. n \in Nat
  BY LenProperties
<1>2. IndexOf(s, byte) = IF I # {} THEN Min(I) ELSE 0
  BY Zenon DEF IndexOf, SelectInSeq
<1>3. CASE I = {}
  BY <1>2, <1>3
<1>4. CASE I # {}
  <2>1. I \in SUBSET Nat
    BY <1>1
  <2> DEFINE k == Min(I)
  <2>2. k \in I /\ \A y \in I : k <= y
    BY <1>4, <2>1, MinIs
  <2> HIDE DEF k
  <2>3. ASSUME NEW x \in 1 .. k - 1 PROVE s[x] # byte
    <3>1. k \in 1 .. n
      BY <2>2
    <3>2. x \in 1 .. n /\ ~(k <= x)
      BY <1>1, <3>1
    <3> QED BY <2>2, <3>2
  <2>4. k \in 1 .. n /\ s[k] = byte
    BY <2>2
  <2>5. IndexOf(s, byte) = k
    BY <1>2, <1>4 DEF k
  <2> QED BY <2>3, <2>4, <2>5
<1> QED BY <1>3, <1>4

LEMMA IndexOfFirst ==
  ASSUME NEW s \in Seq(Byte), NEW byte, NEW k \in 1 .. Len(s),
         s[k] = byte, \A x \in 1 .. k - 1 : s[x] # byte
  PROVE  IndexOf(s, byte) = k
<1> DEFINE i == IndexOf(s, byte)
<1>1. Len(s) \in Nat
  BY LenProperties
<1>2. i \in 1 .. Len(s) /\ s[i] = byte /\ \A x \in 1 .. i - 1 : s[x] # byte
  BY IndexOfIs
<1> HIDE DEF i
<1>3. ~(i < k)
  BY <1>1, <1>2
<1>4. ~(k < i)
  BY <1>1, <1>2
<1>5. i = k
  BY <1>1, <1>2, <1>3, <1>4
<1> QED BY <1>5 DEF i

\* A frame, or none, of which the end marker has not come.
Opened(b) == b = <<>> \/ (b[1] = kStartMarker /\ \A x \in 1 .. Len(b) : b[x] # kEndMarker)

\* A frame that has come in full.
Closed(c) ==
    /\ Len(c) >= 2 /\ c[1] = kStartMarker /\ c[Len(c)] = kEndMarker
    /\ \A x \in 1 .. Len(c) - 1 : c[x] # kEndMarker

LEMMA FromIs ==
  ASSUME NEW s \in Seq(Byte), NEW k \in 1 .. Len(s) + 1
  PROVE  /\ From(s, k) \in Seq(Byte) /\ Len(From(s, k)) = Len(s) + 1 - k
         /\ \A x \in 1 .. Len(s) + 1 - k : From(s, k)[x] = s[k - 1 + x]
<1> DEFINE n == Len(s)
           j == k - 1
<1>1. s \in Seq(Byte) /\ j \in Nat /\ n \in Nat /\ j <= n /\ n <= Len(s) /\ n - j = Len(s) + 1 - k
      /\ j + 1 = k
  BY LenProperties
<1> HIDE DEF n, j
<1>2. /\ Part(s, j, n) \in Seq(Byte) /\ Len(Part(s, j, n)) = n - j
      /\ \A x \in 1 .. n - j : Part(s, j, n)[x] = s[j + x]
  BY ONLY <1>1, PartAt, Zenon
<1>3. Part(s, j, n) = From(s, k)
  BY <1>1, Zenon DEF Part, From, n
<1>4. /\ From(s, k) \in Seq(Byte) /\ Len(From(s, k)) = Len(s) + 1 - k
      /\ \A x \in 1 .. Len(s) + 1 - k : From(s, k)[x] = s[j + x]
  BY <1>1, <1>2, <1>3, Zenon
<1> QED BY <1>4 DEF j

LEMMA NextType ==
  ASSUME NEW b \in Seq(Byte)
  PROVE  NextFrame(b).frame \in Seq(Byte) /\ NextFrame(b).buffer \in Seq(Byte)
<1> DEFINE i == IndexOf(b, kStartMarker)
           opened == From(b, i)
           end == IndexOf(opened, kEndMarker)
<1>1. Len(b) \in Nat /\ <<>> \in Seq(Byte)
  BY LenProperties
<1>2. CASE i = 0
  <2>1. NextFrame(b) = [frame |-> <<>>, buffer |-> <<>>]
    BY <1>2, Zenon DEF NextFrame
  <2> QED BY <1>1, <2>1
<1>3. CASE i # 0
  <2>1. i \in 1 .. Len(b)
    BY <1>3, IndexOfIs
  <2>2. opened \in Seq(Byte)
    <3>1. i \in 1 .. Len(b) + 1
      BY <1>1, <2>1
    <3> HIDE DEF i
    <3> QED BY <3>1, FromIs
  <2>3. CASE end = 0
    <3>1. NextFrame(b) = [frame |-> <<>>, buffer |-> opened]
      BY <1>3, <2>3, Zenon DEF NextFrame
    <3> QED BY <1>1, <2>2, <3>1
  <2>4. CASE end # 0
    <3>1. NextFrame(b) = [frame |-> SubSeq(opened, 1, end), buffer |-> From(opened, end + 1)]
      BY <1>3, <2>4, Zenon DEF NextFrame
    <3> HIDE DEF opened
    <3>2. end \in 1 .. Len(opened) /\ Len(opened) \in Nat
      BY <2>2, <2>4, IndexOfIs, LenProperties
    <3> HIDE DEF end
    <3>3. end \in Nat /\ 0 <= end /\ end <= Len(opened) /\ end + 1 \in 1 .. Len(opened) + 1
      BY <3>2
    <3>4. SubSeq(opened, 1, end) \in Seq(Byte)
      <4>1. Part(opened, 0, end) \in Seq(Byte)
        BY <2>2, <3>3, PartAt
      <4> QED BY <4>1 DEF Part
    <3>5. From(opened, end + 1) \in Seq(Byte)
      <4> DEFINE k == end + 1
      <4>1. k \in 1 .. Len(opened) + 1
        BY <3>3
      <4> HIDE DEF k
      <4>2. From(opened, k) \in Seq(Byte)
        BY <2>2, <4>1, FromIs
      <4> QED BY <4>2 DEF k
    <3> QED BY <3>1, <3>4, <3>5
  <2> QED BY <2>3, <2>4
<1> QED BY <1>2, <1>3

LEMMA NextOfOpened ==
  ASSUME NEW b \in Seq(Byte), Opened(b)
  PROVE  NextFrame(b) = [frame |-> <<>>, buffer |-> b]
<1>1. Len(b) \in Nat
  BY LenProperties
<1>2. CASE b = <<>>
  <2>1. Len(b) = 0
    BY <1>2
  <2>2. IndexOf(b, kStartMarker) = 0
    <3>1. IndexOf(b, kStartMarker) \notin 1 .. Len(b)
      BY <2>1
    <3> QED BY <3>1, IndexOfIs
  <2> QED BY <1>2, <2>2, Zenon DEF NextFrame
<1>3. CASE b # <<>>
  <2>1. b[1] = kStartMarker /\ \A x \in 1 .. Len(b) : b[x] # kEndMarker
    BY <1>3 DEF Opened
  <2>2. 1 \in 1 .. Len(b)
    BY <1>1, <1>3, EmptySeq
  <2>3. IndexOf(b, kStartMarker) = 1
    <3>1. \A x \in 1 .. 1 - 1 : b[x] # kStartMarker
      OBVIOUS
    <3> QED BY <2>1, <2>2, <3>1, IndexOfFirst
  <2>4. From(b, 1) = b
    BY SubSeqFull DEF From
  <2>5. IndexOf(b, kEndMarker) = 0
    BY <2>1, IndexOfIs
  <2> QED BY <2>3, <2>4, <2>5 DEF NextFrame
<1> QED BY <1>2, <1>3

LEMMA NextOfClosed ==
  ASSUME NEW c \in Seq(Byte), NEW rest \in Seq(Byte), Closed(c)
  PROVE  NextFrame(c \o rest) = [frame |-> c, buffer |-> rest]
<1> DEFINE n == Len(c)
           b == c \o rest
<1>1. n \in Nat /\ Len(rest) \in Nat
  BY LenProperties
<1>2. n >= 2 /\ c[1] = kStartMarker /\ c[n] = kEndMarker /\ \A x \in 1 .. n - 1 : c[x] # kEndMarker
  BY DEF Closed
<1>3. /\ b \in Seq(Byte) /\ Len(b) = n + Len(rest)
      /\ \A x \in 1 .. n + Len(rest) : b[x] = IF x <= n THEN c[x] ELSE rest[x - n]
  BY ConcatProperties
<1> HIDE DEF b, n
<1>4. \A x \in 1 .. n : b[x] = c[x]
  BY <1>1, <1>3
<1>5. 1 \in 1 .. n /\ n \in 1 .. n /\ 1 \in 1 .. Len(b) /\ n \in 1 .. Len(b)
      /\ \A x \in 1 .. n - 1 : x \in 1 .. n
  BY <1>1, <1>2, <1>3
<1>6. IndexOf(b, kStartMarker) = 1
  <2>1. \A x \in 1 .. 1 - 1 : b[x] # kStartMarker
    OBVIOUS
  <2>2. b[1] = kStartMarker
    BY <1>2, <1>4, <1>5
  <2> QED BY <1>3, <1>5, <2>1, <2>2, IndexOfFirst
<1>7. From(b, 1) = b
  BY <1>3, SubSeqFull DEF From
<1>8. IndexOf(b, kEndMarker) = n
  <2>1. b[n] = kEndMarker /\ \A x \in 1 .. n - 1 : b[x] # kEndMarker
    BY <1>2, <1>4, <1>5
  <2> QED BY <1>3, <1>5, <2>1, IndexOfFirst
<1>9. SubSeq(b, 1, n) = c
  <2> DEFINE s == Part(b, 0, n)
  <2>1. b \in Seq(Byte) /\ 0 \in Nat /\ n \in Nat /\ 0 <= n /\ n <= Len(b) /\ n - 0 = n
        /\ \A x \in 1 .. n : 0 + x = x
    BY <1>1, <1>3
  <2>2. s \in Seq(Byte) /\ Len(s) = n - 0 /\ \A x \in 1 .. n - 0 : s[x] = b[0 + x]
    BY ONLY <2>1, PartAt, Zenon
  <2> HIDE DEF s
  <2>3. s = c
    BY <1>4, <2>1, <2>2, SeqEqual DEF n
  <2> QED BY <2>3 DEF s, Part
<1>10. From(b, n + 1) = rest
  <2> DEFINE k == n + 1
             m == Len(rest)
             t == From(b, k)
  <2>1. k \in 1 .. Len(b) + 1 /\ Len(b) + 1 - k = m /\ k - 1 = n
    BY <1>1, <1>3
  <2> HIDE DEF k
  <2>2. t \in Seq(Byte) /\ Len(t) = m /\ \A x \in 1 .. m : t[x] = b[n + x]
    <3>1. /\ From(b, k) \in Seq(Byte) /\ Len(From(b, k)) = Len(b) + 1 - k
          /\ \A x \in 1 .. Len(b) + 1 - k : From(b, k)[x] = b[k - 1 + x]
      BY <1>3, <2>1, FromIs
    <3> QED BY <2>1, <3>1, Zenon
  <2> HIDE DEF t, m
  <2>3. ASSUME NEW x \in 1 .. m PROVE t[x] = rest[x]
    <3> DEFINE y == n + x
    <3>1. y \in 1 .. n + m /\ ~(y <= n) /\ y - n = x /\ m = Len(rest)
      BY <1>1 DEF m
    <3> HIDE DEF y
    <3>2. b[y] = rest[x]
      BY <1>3, <3>1
    <3> QED BY <2>2, <3>2 DEF y
  <2>4. t = rest
    BY <2>2, <2>3, SeqEqual DEF m
  <2> QED BY <2>4 DEF t, k
<1>11. n # 0
  BY <1>1, <1>2
<1>12. IndexOf(b, kStartMarker) # 0
  BY <1>6
<1>13. NextFrame(b) = [frame |-> SubSeq(b, 1, n), buffer |-> From(b, n + 1)]
  BY <1>6, <1>7, <1>8, <1>11, <1>12, Zenon DEF NextFrame
<1> QED BY <1>9, <1>10, <1>13, Zenon DEF b

-----------------------------------------------------------------------------
(* The loop of onDataReceived *)

Loop == [buffer : Seq(Byte), frames : Seq(UnpackedFrame)]

LEMMA TurnType ==
  \A r \in Loop : Turn(r) \in Loop
<1> SUFFICES ASSUME NEW r \in Loop PROVE Turn(r) \in Loop
  OBVIOUS
<1> DEFINE next == NextFrame(r.buffer)
<1>1. r.buffer \in Seq(Byte) /\ r.frames \in Seq(UnpackedFrame)
  BY DEF Loop
<1>2. next.frame \in Seq(Byte) /\ next.buffer \in Seq(Byte)
  BY <1>1, NextType
<1> HIDE DEF next
<1>3. UnpackFrame(next.frame) \in Seq(UnpackedFrame)
  BY <1>2, UnpackType
<1> DEFINE fs == r.frames \o UnpackFrame(next.frame)
<1>4. fs \in Seq(UnpackedFrame)
  BY <1>1, <1>3, ConcatProperties
<1> HIDE DEF fs
<1>5. Turn(r) = [buffer |-> next.buffer, frames |-> fs]
  BY Zenon DEF Turn, next, fs
<1> QED BY <1>2, <1>4, <1>5 DEF Loop

LEMMA TurnOpened ==
  ASSUME NEW r \in Loop, Opened(r.buffer)
  PROVE  Turn(r) = r
<1>1. r.buffer \in Seq(Byte) /\ r.frames \in Seq(UnpackedFrame)
      /\ r = [buffer |-> r.buffer, frames |-> r.frames]
  BY DEF Loop
<1>2. NextFrame(r.buffer) = [frame |-> <<>>, buffer |-> r.buffer]
  BY <1>1, NextOfOpened
<1>3. r.frames \o UnpackFrame(<<>>) = r.frames
  BY <1>1, UnpackNothing, ConcatEmptySeq
<1>4. Turn(r) = [buffer |-> r.buffer, frames |-> r.frames]
  BY <1>2, <1>3 DEF Turn
<1> QED BY <1>1, <1>4

LEMMA ExtractSteps ==
  ASSUME NEW bytes \in Seq(Byte), NEW frames \in Seq(UnpackedFrame)
  PROVE  \E g \in [0 .. Len(bytes) -> Loop] :
             /\ g[0] = [buffer |-> bytes, frames |-> frames]
             /\ \A i \in 1 .. Len(bytes) : g[i] = Turn(g[i - 1])
             /\ Extract(bytes, frames) = g[Len(bytes)]
<1> DEFINE n == Len(bytes)
           init == [buffer |-> bytes, frames |-> frames]
           one == {0}
           op == [p \in Loop \X one |-> Turn(p[1])]
           s == [i \in 1 .. n |-> 0]
           turns(e) == [i \in 0 .. n |-> IF i = 0 THEN init ELSE Turn(e[i - 1])]
           turn == CHOOSE e : e = turns(e)
<1>1. n \in Nat
  BY LenProperties
<1>2. init \in Loop
  BY DEF Loop
<1>3. \A i \in 1 .. n : s[i] = 0
  OBVIOUS
<1>4. \A r \in Loop : op[<<r, 0>>] = Turn(r)
  OBVIOUS
<1>5. op \in [Loop \X one -> Loop]
  BY TurnType
<1>6. Extract(bytes, frames) = turn[n]
  BY Zenon DEF Extract
<1>7. \A i \in 1 .. n : s[i] \in one
  BY <1>3
<1> HIDE DEF n, init, one, op, s
<1>8. PICK g \in [0 .. n -> Loop] : Folds(g, op, init, s, n)
  BY <1>1, <1>2, <1>5, <1>7, FoldExists
<1>9. g[0] = init
  BY <1>8 DEF Folds
<1>10. ASSUME NEW i \in 1 .. n PROVE g[i] = Turn(g[i - 1])
  <2>1. i - 1 \in 0 .. n
    BY <1>1
  <2>2. g[i] = op[<<g[i - 1], s[i]>>] /\ g[i - 1] \in Loop
    BY <1>8, <2>1 DEF Folds
  <2> QED BY <1>3, <1>4, <2>2
<1>11. g = turns(g)
  <2>1. ASSUME NEW i \in 0 .. n PROVE g[i] = IF i = 0 THEN init ELSE Turn(g[i - 1])
    <3>1. i # 0 => i \in 1 .. n
      BY <1>1
    <3> QED BY <1>9, <1>10, <3>1, Zenon
  <2>2. turns(g) = [i \in 0 .. n |-> g[i]]
    BY <2>1, Zenon
  <2> QED BY <2>2, Zenon
<1>12. turn = turns(turn)
  BY <1>11, Zenon
<1> HIDE DEF turn
<1>13. \A i \in 0 .. n : turn[i] = IF i = 0 THEN init ELSE Turn(turn[i - 1])
  BY <1>12, Zenon
<1> DEFINE T == {i \in Nat : i <= n => turn[i] = g[i]}
<1>14. 0 \in T
  <2>1. 0 \in 0 .. n
    BY <1>1
  <2>2. turn[0] = g[0]
    BY <1>9, <1>13, <2>1, Zenon
  <2> QED BY <2>2
<1>15. ASSUME NEW i \in Nat, i \in T PROVE i + 1 \in T
  <2> SUFFICES ASSUME i + 1 <= n PROVE turn[i + 1] = g[i + 1]
    OBVIOUS
  <2> DEFINE j == i + 1
  <2>1. j \in 0 .. n /\ j # 0 /\ j - 1 = i /\ j \in 1 .. n /\ i <= n
    BY <1>1
  <2>2. turn[i] = g[i]
    BY <1>15, <2>1
  <2> HIDE DEF j
  <2>3. turn[j] = g[j]
    BY <1>10, <1>13, <2>1, <2>2, Zenon
  <2> QED BY <2>3 DEF j
<1>16. turn[n] = g[n]
  <2>1. n \in T
    <3> HIDE DEF T
    <3> QED BY <1>1, <1>14, <1>15, Induction
  <2> QED BY <1>1, <2>1
<1> QED BY <1>6, <1>8, <1>9, <1>10, <1>16 DEF n, init

-----------------------------------------------------------------------------
(* The wire: where on it each frame ends *)

WireOf(s) == FlattenSeq([i \in DOMAIN s |-> PackFrame(s[i])])
EndIn(s, i) == Len(FlattenSeq([j \in 1 .. i |-> PackFrame(s[j])]))

LEMMA PartOfFront ==
  ASSUME NEW S, NEW u \in Seq(S), NEW p \in Seq(S), NEW i \in Nat, NEW j \in Nat,
         i <= j, j <= Len(u)
  PROVE  Part(u \o p, i, j) = Part(u, i, j)
<1> DEFINE w == u \o p
           a == Part(w, i, j)
           b == Part(u, i, j)
<1>1. w \in Seq(S) /\ Len(w) = Len(u) + Len(p)
      /\ \A x \in 1 .. Len(u) + Len(p) : w[x] = IF x <= Len(u) THEN u[x] ELSE p[x - Len(u)]
  BY ConcatProperties
<1>2. Len(u) \in Nat /\ Len(p) \in Nat
  BY LenProperties
<1> HIDE DEF w
<1>3. a \in Seq(S) /\ Len(a) = j - i /\ \A x \in 1 .. j - i : a[x] = w[i + x]
  <2>1. w \in Seq(S) /\ i \in Nat /\ j \in Nat /\ i <= j /\ j <= Len(w)
    BY <1>1, <1>2
  <2> QED BY ONLY <2>1, PartAt, Zenon
<1>4. b \in Seq(S) /\ Len(b) = j - i /\ \A x \in 1 .. j - i : b[x] = u[i + x]
  <2>1. u \in Seq(S) /\ i \in Nat /\ j \in Nat /\ i <= j /\ j <= Len(u)
    OBVIOUS
  <2> QED BY ONLY <2>1, PartAt, Zenon
<1> HIDE DEF a, b
<1>5. ASSUME NEW x \in 1 .. j - i PROVE a[x] = b[x]
  <2> DEFINE y == i + x
  <2>1. y \in 1 .. Len(u) + Len(p) /\ y <= Len(u)
    BY <1>2
  <2> HIDE DEF y
  <2>2. w[y] = u[y]
    BY <1>1, <2>1
  <2> QED BY <1>3, <1>4, <2>2 DEF y
<1>6. a = b
  BY <1>3, <1>4, <1>5, SeqEqual
<1> QED BY <1>6 DEF a, b, w

LEMMA PartOfBack ==
  ASSUME NEW S, NEW u \in Seq(S), NEW p \in Seq(S)
  PROVE  Part(u \o p, Len(u), Len(u) + Len(p)) = p
<1> DEFINE w == u \o p
           i == Len(u)
           m == Len(p)
           j == i + m
           a == Part(w, i, j)
<1>1. i \in Nat /\ m \in Nat /\ j \in Nat /\ i <= j /\ j - i = m
  BY LenProperties
<1>2. w \in Seq(S) /\ Len(w) = i + m
      /\ \A x \in 1 .. i + m : w[x] = IF x <= i THEN u[x] ELSE p[x - i]
  BY ConcatProperties
<1>3. w \in Seq(S) /\ Len(w) = j /\ j <= Len(w)
  BY <1>1, <1>2
<1> HIDE DEF w, j, i, m
<1>4. a \in Seq(S) /\ Len(a) = j - i /\ \A x \in 1 .. j - i : a[x] = w[i + x]
  <2>1. w \in Seq(S) /\ i \in Nat /\ j \in Nat /\ i <= j /\ j <= Len(w)
    BY <1>1, <1>3
  <2> QED BY ONLY <2>1, PartAt, Zenon
<1> HIDE DEF a
<1>5. ASSUME NEW x \in 1 .. m PROVE a[x] = p[x]
  <2> DEFINE y == i + x
  <2>1. y \in 1 .. i + m /\ ~(y <= i) /\ y - i = x
    BY <1>1
  <2> HIDE DEF y
  <2>2. w[y] = p[x]
    BY <1>2, <2>1
  <2> QED BY <1>1, <1>4, <2>2 DEF y
<1>6. a = p
  BY <1>1, <1>4, <1>5, SeqEqual DEF m
<1> QED BY <1>6 DEF a, w, j, i, m

LEMMA WireSteps ==
  ASSUME NEW s \in Seq(Frames)
  PROVE  \E g \in [0 .. Len(s) -> Seq(Byte)] :
             /\ g[0] = <<>> /\ \A i \in 1 .. Len(s) : g[i] = g[i - 1] \o PackFrame(s[i])
             /\ WireOf(s) = g[Len(s)]
             /\ \A k \in 0 .. Len(s) : EndIn(s, k) = Len(g[k])
<1> DEFINE n == Len(s)
           f == [i \in 1 .. n |-> PackFrame(s[i])]
<1>1. n \in Nat /\ DOMAIN s = 1 .. n /\ \A i \in 1 .. n : s[i] \in Frames
  BY LenProperties, ElementOfSeq
<1>2. WireOf(s) = FlattenSeq(f)
  BY <1>1, Zenon DEF WireOf
<1> HIDE DEF n
<1>3. \A i \in 1 .. n : PackFrame(s[i]) \in Seq(Byte)
  BY <1>1, PackFrameIs
<1>4. f \in Seq(Seq(Byte)) /\ Len(f) = n /\ \A i \in 1 .. n : f[i] = PackFrame(s[i])
  BY <1>1, <1>3
<1> HIDE DEF f
<1>5. PICK g \in [0 .. Len(f) -> Seq(Byte)] : StepsTo(f, g, Len(f)) /\ FlattenSeq(f) = g[Len(f)]
  BY <1>4, FlattenSteps
<1>6. g[0] = <<>> /\ \A i \in 1 .. n : g[i] = g[i - 1] \o PackFrame(s[i])
  BY <1>4, <1>5, Zenon DEF StepsTo
<1>7. ASSUME NEW k \in 0 .. n PROVE EndIn(s, k) = Len(g[k])
  <2> DEFINE h == [j \in 1 .. k |-> PackFrame(s[j])]
  <2>1. \A j \in 1 .. k : j \in 1 .. n
    BY <1>1
  <2>2. k \in Nat
    BY <1>1
  <2>3. \A j \in 1 .. k : PackFrame(s[j]) \in Seq(Byte)
    BY <1>3, <2>1
  <2>4. h \in Seq(Seq(Byte)) /\ Len(h) = k /\ \A j \in 1 .. k : h[j] = PackFrame(s[j])
    BY <2>2, <2>3
  <2>5. EndIn(s, k) = Len(FlattenSeq(h))
    BY Zenon DEF EndIn
  <2> HIDE DEF h
  <2>6. StepsTo(h, g, k)
    BY <1>6, <2>1, <2>4, Zenon DEF StepsTo
  <2>7. FlattenSeq(h) = g[k]
    BY <2>4, <2>6, FlattenIs
  <2> QED BY <2>5, <2>7
<1>8. g \in [0 .. n -> Seq(Byte)] /\ WireOf(s) = g[n]
  BY <1>2, <1>4, <1>5
<1> QED BY <1>6, <1>7, <1>8 DEF n

LEMMA EndsIs ==
  ASSUME NEW s \in Seq(Frames)
  PROVE  /\ WireOf(s) \in Seq(Byte) /\ EndIn(s, 0) = 0 /\ EndIn(s, Len(s)) = Len(WireOf(s))
         /\ \A k \in 0 .. Len(s) : EndIn(s, k) \in Nat
         /\ \A k \in 1 .. Len(s) :
               /\ Len(PackFrame(s[k])) \in Nat
               /\ EndIn(s, k) = EndIn(s, k - 1) + Len(PackFrame(s[k]))
<1> DEFINE n == Len(s)
<1>1. n \in Nat /\ \A i \in 1 .. n : s[i] \in Frames
  BY LenProperties, ElementOfSeq
<1>2. PICK g \in [0 .. n -> Seq(Byte)] :
          /\ g[0] = <<>> /\ \A i \in 1 .. n : g[i] = g[i - 1] \o PackFrame(s[i])
          /\ WireOf(s) = g[n]
          /\ \A k \in 0 .. n : EndIn(s, k) = Len(g[k])
  BY WireSteps
<1> HIDE DEF n
<1>3. 0 \in 0 .. n /\ n \in 0 .. n
  BY <1>1
<1>4. EndIn(s, 0) = 0
  <2>1. EndIn(s, 0) = Len(<<>>)
    BY <1>2, <1>3, Zenon
  <2> QED BY <2>1
<1>5. \A k \in 0 .. n : EndIn(s, k) \in Nat
  <2> TAKE k \in 0 .. n
  <2>1. g[k] \in Seq(Byte)
    BY <1>2
  <2>2. Len(g[k]) \in Nat
    BY <2>1, LenProperties
  <2> QED BY <1>2, <2>2, Zenon
<1>6. ASSUME NEW k \in 1 .. n
      PROVE  /\ Len(PackFrame(s[k])) \in Nat
             /\ EndIn(s, k) = EndIn(s, k - 1) + Len(PackFrame(s[k]))
  <2> DEFINE p == PackFrame(s[k])
             i == k - 1
             u == g[i]
  <2>1. i \in 0 .. n /\ k \in 0 .. n
    BY <1>1
  <2>2. p \in Seq(Byte) /\ Len(p) \in Nat
    BY <1>1, PackFrameIs
  <2>3. u \in Seq(Byte)
    BY <1>2, <2>1
  <2>4. g[k] = u \o p
    BY <1>2, Zenon
  <2>5. Len(u \o p) = Len(u) + Len(p)
    BY <2>2, <2>3, ConcatProperties
  <2>6. EndIn(s, k) = Len(g[k]) /\ EndIn(s, i) = Len(u)
    BY <1>2, <2>1, Zenon
  <2> QED BY <2>2, <2>4, <2>5, <2>6, Zenon
<1>7. WireOf(s) \in Seq(Byte)
  BY <1>2, <1>3
<1>8. EndIn(s, n) = Len(WireOf(s))
  BY <1>2, <1>3, Zenon
<1> QED BY <1>4, <1>5, <1>6, <1>7, <1>8 DEF n

\* The next frame ends at least a byte later.
LEMMA EndsStep ==
  ASSUME NEW s \in Seq(Frames), NEW k \in Nat, k < Len(s)
  PROVE  /\ s[k + 1] \in Frames
         /\ EndIn(s, k) \in Nat /\ EndIn(s, k + 1) \in Nat /\ EndIn(s, k) < EndIn(s, k + 1)
         /\ EndIn(s, k + 1) = EndIn(s, k) + Len(PackFrame(s[k + 1]))
<1> DEFINE j == k + 1
<1>1. Len(s) \in Nat
  BY LenProperties
<1>2. j \in 1 .. Len(s) /\ j \in 0 .. Len(s) /\ k \in 0 .. Len(s) /\ j - 1 = k
  BY <1>1
<1> HIDE DEF j
<1>3. s[j] \in Frames
  BY <1>2, ElementOfSeq
<1>4. Len(PackFrame(s[j])) \in Nat /\ Len(PackFrame(s[j])) >= 9
  BY <1>3, PackFrameIs
<1>5. EndIn(s, k) \in Nat /\ EndIn(s, j) \in Nat
  BY <1>2, EndsIs
<1>6. EndIn(s, j) = EndIn(s, j - 1) + Len(PackFrame(s[j]))
  BY <1>2, EndsIs
<1>7. EndIn(s, j) = EndIn(s, k) + Len(PackFrame(s[j]))
  BY <1>2, <1>6, Zenon
<1>8. EndIn(s, k) < EndIn(s, j)
  BY ONLY <1>4, <1>5, <1>7
<1> QED BY <1>3, <1>5, <1>7, <1>8 DEF j

LEMMA EndsGrow ==
  ASSUME NEW s \in Seq(Frames)
  PROVE  \A i \in 0 .. Len(s) : \A j \in i .. Len(s) : EndIn(s, i) + (j - i) <= EndIn(s, j)
<1> SUFFICES ASSUME NEW i \in 0 .. Len(s)
             PROVE  \A j \in i .. Len(s) : EndIn(s, i) + (j - i) <= EndIn(s, j)
  OBVIOUS
<1>1. Len(s) \in Nat /\ i \in Nat /\ EndIn(s, i) \in Nat
  BY LenProperties, EndsIs
<1> DEFINE T == {d \in Nat : i + d <= Len(s) => EndIn(s, i) + d <= EndIn(s, i + d)}
<1>2. 0 \in T
  BY <1>1
<1>3. ASSUME NEW d \in Nat, d \in T PROVE d + 1 \in T
  <2> SUFFICES ASSUME i + (d + 1) <= Len(s)
               PROVE  EndIn(s, i) + (d + 1) <= EndIn(s, i + (d + 1))
    OBVIOUS
  <2> DEFINE k == i + d
  <2>1. k \in Nat /\ k < Len(s) /\ i + d <= Len(s) /\ k + 1 = i + (d + 1)
    BY <1>1
  <2>2. EndIn(s, i) + d <= EndIn(s, k)
    BY <1>3, <2>1
  <2> HIDE DEF k
  <2>3. EndIn(s, k) \in Nat /\ EndIn(s, k + 1) \in Nat /\ EndIn(s, k) < EndIn(s, k + 1)
    BY <2>1, EndsStep
  <2>4. EndIn(s, i) + (d + 1) <= EndIn(s, k + 1)
    BY ONLY <1>1, <2>2, <2>3, d \in Nat
  <2> QED BY <2>1, <2>4
<1>4. \A d \in Nat : d \in T
  <2> HIDE DEF T
  <2> QED BY <1>2, <1>3, Induction
<1> SUFFICES ASSUME NEW j \in i .. Len(s) PROVE EndIn(s, i) + (j - i) <= EndIn(s, j)
  OBVIOUS
<1> DEFINE d == j - i
<1>5. d \in Nat /\ i + d = j /\ i + d <= Len(s)
  BY <1>1
<1> HIDE DEF d
<1>6. EndIn(s, i) + d <= EndIn(s, i + d)
  BY <1>4, <1>5
<1>7. EndIn(s, i) + d <= EndIn(s, j)
  BY <1>5, <1>6, Zenon
<1> QED BY <1>7 DEF d

\* Between the ends of two frames in a row is the second of them.
LEMMA WireFrame ==
  ASSUME NEW s \in Seq(Frames), NEW k \in Nat, k < Len(s)
  PROVE  /\ EndIn(s, k + 1) <= Len(WireOf(s))
         /\ Part(WireOf(s), EndIn(s, k), EndIn(s, k + 1)) = PackFrame(s[k + 1])
<1> DEFINE n == Len(s)
           i == k + 1
           p == PackFrame(s[i])
<1>1. n \in Nat /\ i \in 1 .. n /\ i \in 0 .. n /\ k \in 0 .. n /\ i - 1 = k
  BY LenProperties
<1>2. PICK g \in [0 .. n -> Seq(Byte)] :
          /\ g[0] = <<>> /\ \A x \in 1 .. n : g[x] = g[x - 1] \o PackFrame(s[x])
          /\ WireOf(s) = g[n]
          /\ \A x \in 0 .. n : EndIn(s, x) = Len(g[x])
  BY WireSteps
<1>3. p \in Seq(Byte)
  <2>1. s[i] \in Frames
    BY <1>1, ElementOfSeq
  <2> QED BY <2>1, PackFrameIs
<1> DEFINE a == EndIn(s, k)
           b == EndIn(s, i)
           T == {d \in Nat : i + d <= n => Part(g[i + d], a, b) = p}
<1>4. a \in Nat /\ b \in Nat /\ a <= b
  <2>1. k \in Nat /\ k < Len(s)
    OBVIOUS
  <2> QED BY <2>1, EndsStep
<1>5. \A x \in i .. n : b <= EndIn(s, x)
  <2> TAKE x \in i .. n
  <2>1. b + (x - i) <= EndIn(s, x) /\ EndIn(s, x) \in Nat
    <3>1. x \in 0 .. Len(s) /\ i \in 0 .. Len(s)
      BY <1>1
    <3> QED BY <3>1, EndsGrow, EndsIs
  <2>2. x - i \in Nat
    BY <1>1
  <2> HIDE DEF b
  <2> QED BY <1>4, <2>1, <2>2
<1> HIDE DEF n, i
<1>6. 0 \in T
  <2>1. i + 0 = i
    BY <1>1
  <2>2. g[k] \in Seq(Byte) /\ Len(g[k]) = a /\ Len(g[i]) = b
    BY <1>1, <1>2
  <2>3. g[i] = g[k] \o p
    BY <1>1, <1>2, Zenon
  <2> DEFINE u == g[k]
  <2>4. Part(u \o p, Len(u), Len(u) + Len(p)) = p
    BY <1>3, <2>2, PartOfBack
  <2>5. Len(u \o p) = Len(u) + Len(p)
    BY <1>3, <2>2, ConcatProperties
  <2>6. Part(g[i], a, b) = p
    BY <2>2, <2>3, <2>4, <2>5, Zenon
  <2> QED BY <2>1, <2>6
<1>7. ASSUME NEW d \in Nat, d \in T PROVE d + 1 \in T
  <2> SUFFICES ASSUME i + (d + 1) <= n PROVE Part(g[i + (d + 1)], a, b) = p
    OBVIOUS
  <2> DEFINE x == i + (d + 1)
             y == i + d
             q == PackFrame(s[x])
  <2>1. x \in 1 .. n /\ x - 1 = y /\ y \in 0 .. n /\ y \in i .. n /\ i + d <= n
    BY <1>1
  <2>2. Part(g[y], a, b) = p
    BY <1>7, <2>1
  <2> HIDE DEF x, y
  <2>3. q \in Seq(Byte)
    <3>1. s[x] \in Frames
      BY <2>1, ElementOfSeq DEF n
    <3> QED BY <3>1, PackFrameIs
  <2>4. g[y] \in Seq(Byte) /\ Len(g[y]) = EndIn(s, y)
    BY <1>2, <2>1
  <2>5. g[x] = g[y] \o q
    BY <1>2, <2>1, Zenon
  <2>6. b <= Len(g[y])
    BY <1>5, <2>1, <2>4
  <2> DEFINE u == g[y]
  <2> HIDE DEF q, a, b, u
  <2>7. Part(u \o q, a, b) = Part(u, a, b)
    <3>1. u \in Seq(Byte) /\ b <= Len(u)
      BY <2>4, <2>6 DEF u
    <3> QED BY <1>4, <2>3, <3>1, PartOfFront
  <2>8. Part(g[x], a, b) = p
    BY <2>2, <2>5, <2>7, Zenon DEF u
  <2> QED BY <2>8 DEF x
<1>8. Part(g[n], a, b) = p
  <2> DEFINE d == n - i
  <2>1. d \in Nat /\ i + d = n /\ i + d <= n
    BY <1>1
  <2>2. d \in T
    <3> HIDE DEF T, d
    <3> QED BY <1>6, <1>7, <2>1, Induction
  <2>3. Part(g[i + d], a, b) = p
    BY <2>1, <2>2
  <2> QED BY <2>1, <2>3, Zenon
<1>9. b <= Len(WireOf(s))
  <2>1. n \in i .. n /\ n \in 0 .. n
    BY <1>1
  <2>2. Len(WireOf(s)) = EndIn(s, n)
    BY <1>2, <2>1, Zenon
  <2> QED BY <1>5, <2>1, <2>2, Zenon
<1> QED BY <1>2, <1>8, <1>9 DEF i, n

LEMMA WireGrows ==
  ASSUME NEW s \in Seq(Frames), NEW frame \in Frames
  PROVE  /\ WireOf(Append(s, frame)) = WireOf(s) \o PackFrame(frame)
         /\ \A k \in 0 .. Len(s) : EndIn(Append(s, frame), k) = EndIn(s, k)
<1> DEFINE n == Len(s)
           t == Append(s, frame)
           f == [i \in DOMAIN s |-> PackFrame(s[i])]
           h == [i \in DOMAIN t |-> PackFrame(t[i])]
           p == PackFrame(frame)
<1>1. n \in Nat /\ DOMAIN s = 1 .. n /\ \A i \in 1 .. n : s[i] \in Frames
  BY LenProperties, ElementOfSeq
<1>2. t \in Seq(Frames) /\ Len(t) = n + 1 /\ t[n + 1] = frame /\ \A i \in 1 .. n : t[i] = s[i]
  BY AppendProperties
<1>3. DOMAIN t = 1 .. n + 1
  BY <1>2, LenProperties
<1> HIDE DEF n, t
<1>4. p \in Seq(Byte) /\ \A i \in 1 .. n : PackFrame(s[i]) \in Seq(Byte)
  BY <1>1, PackFrameIs
<1>5. f \in Seq(Seq(Byte)) /\ Len(f) = n /\ \A i \in 1 .. n : f[i] = PackFrame(s[i])
  BY <1>1, <1>4
<1> HIDE DEF p, f
<1>6. h = Append(f, p)
  <2> DEFINE u == Append(f, p)
  <2>1. u \in Seq(Seq(Byte)) /\ Len(u) = n + 1 /\ u[n + 1] = p /\ \A i \in 1 .. n : u[i] = f[i]
    BY <1>4, <1>5, AppendProperties
  <2>2. u = [i \in 1 .. n + 1 |-> u[i]]
    BY <2>1, LenProperties
  <2> HIDE DEF u
  <2>3. ASSUME NEW i \in 1 .. n + 1 PROVE PackFrame(t[i]) = u[i]
    <3>1. CASE i = n + 1
      BY <1>2, <2>1, <3>1, Zenon DEF p
    <3>2. CASE i # n + 1
      <4>1. i \in 1 .. n
        BY <1>1, <3>2
      <4> QED BY <1>2, <1>5, <2>1, <4>1, Zenon
    <3> QED BY <3>1, <3>2
  <2>4. h = [i \in 1 .. n + 1 |-> u[i]]
    BY <1>3, <2>3, Zenon
  <2> QED BY <2>2, <2>4, Zenon DEF u
<1>7. WireOf(t) = FlattenSeq(f) \o p
  <2>1. FlattenSeq(Append(f, p)) = FlattenSeq(f) \o p
    BY <1>4, <1>5, FlattenAppend
  <2> QED BY <1>6, <2>1, Zenon DEF WireOf
<1>8. ASSUME NEW k \in 0 .. n PROVE EndIn(t, k) = EndIn(s, k)
  <2>1. \A j \in 1 .. k : j \in 1 .. n
    BY <1>1
  <2>2. \A j \in 1 .. k : PackFrame(t[j]) = PackFrame(s[j])
    BY <1>2, <2>1, Zenon
  <2>3. [j \in 1 .. k |-> PackFrame(t[j])] = [j \in 1 .. k |-> PackFrame(s[j])]
    BY <2>2, Zenon
  <2> QED BY <2>3, Zenon DEF EndIn
<1> QED BY <1>7, <1>8, Zenon DEF t, n, f, p, WireOf

-----------------------------------------------------------------------------
(* How many frames have come in full *)

\* Of the frames s, the first k have come in full with q bytes.
Counts(s, k, q) == k \in 0 .. Len(s) /\ EndIn(s, k) <= q /\ (k < Len(s) => q < EndIn(s, k + 1))

LEMMA CountExists ==
  ASSUME NEW s \in Seq(Frames), NEW q \in Nat
  PROVE  \E k \in 0 .. Len(s) : Counts(s, k, q)
<1> DEFINE n == Len(s)
           Has(m) == \E k \in 0 .. m : EndIn(s, k) <= q /\ (k < m => q < EndIn(s, k + 1))
           T == {m \in Nat : m <= n => Has(m)}
<1>1. n \in Nat
  BY LenProperties
<1>2. 0 \in T
  <2>1. EndIn(s, 0) = 0
    BY EndsIs
  <2> QED BY <2>1
<1>3. ASSUME NEW m \in Nat, m \in T PROVE m + 1 \in T
  <2> SUFFICES ASSUME m + 1 <= n PROVE Has(m + 1)
    OBVIOUS
  <2>1. PICK k \in 0 .. m : EndIn(s, k) <= q /\ (k < m => q < EndIn(s, k + 1))
    BY <1>1, <1>3
  <2>2. EndIn(s, m + 1) \in Nat
    <3>1. m \in Nat /\ m < Len(s)
      BY <1>1
    <3> QED BY <3>1, EndsStep
  <2>3. CASE EndIn(s, m + 1) <= q
    <3>1. m + 1 \in 0 .. m + 1 /\ ~(m + 1 < m + 1)
      OBVIOUS
    <3> QED BY <2>3, <3>1
  <2>4. CASE ~(EndIn(s, m + 1) <= q)
    <3>1. k \in 0 .. m + 1 /\ (k < m + 1 => q < EndIn(s, k + 1))
      <4>1. CASE k < m
        BY <2>1, <4>1
      <4>2. CASE k = m
        BY <2>2, <2>4, <4>2
      <4> QED BY <4>1, <4>2
    <3> QED BY <2>1, <3>1
  <2> QED BY <2>3, <2>4
<1>4. Has(n)
  <2>1. n \in T
    <3> HIDE DEF T
    <3> QED BY <1>1, <1>2, <1>3, Induction
  <2> QED BY <1>1, <2>1
<1> QED BY <1>4 DEF Counts

LEMMA CountIs ==
  ASSUME NEW s \in Seq(Frames), NEW k, NEW q \in Nat, Counts(s, k, q)
  PROVE  Cardinality({i \in DOMAIN s : EndIn(s, i) <= q}) = k
<1> DEFINE n == Len(s)
           I == {i \in DOMAIN s : EndIn(s, i) <= q}
<1>1. n \in Nat /\ DOMAIN s = 1 .. n /\ k \in 0 .. n /\ k \in Nat
  BY LenProperties DEF Counts
<1>2. \A i \in 0 .. n : EndIn(s, i) \in Nat
  BY EndsIs
<1>3. ASSUME NEW i \in 1 .. k PROVE i \in I
  <2>1. i \in 0 .. n /\ i \in 1 .. n /\ k \in i .. n /\ k \in 0 .. n
    BY <1>1
  <2>2. EndIn(s, i) + (k - i) <= EndIn(s, k)
    BY <2>1, EndsGrow
  <2>3. EndIn(s, k) <= q /\ EndIn(s, i) \in Nat /\ EndIn(s, k) \in Nat /\ k - i \in Nat
    BY <1>1, <1>2, <2>1 DEF Counts
  <2>4. EndIn(s, i) <= q
    BY ONLY <2>2, <2>3, q \in Nat
  <2> QED BY <1>1, <2>1, <2>4
<1>4. ASSUME NEW i \in I, i \notin 1 .. k PROVE FALSE
  <2> DEFINE j == k + 1
  <2>1. i \in 1 .. n /\ k < n /\ j \in 0 .. n /\ i \in j .. n /\ i \in 0 .. n /\ i - j \in Nat
    BY <1>1, <1>4
  <2>2. q < EndIn(s, j)
    BY <2>1 DEF Counts
  <2> HIDE DEF j
  <2>3. EndIn(s, j) + (i - j) <= EndIn(s, i)
    BY <2>1, EndsGrow
  <2>4. EndIn(s, i) <= q /\ EndIn(s, i) \in Nat /\ EndIn(s, j) \in Nat
    BY <1>2, <1>4, <2>1
  <2> QED BY ONLY <2>1, <2>2, <2>3, <2>4, q \in Nat
<1>5. I = 1 .. k
  BY <1>3, <1>4
<1>6. Cardinality(1 .. k) = k
  <2>1. Cardinality(1 .. k) = IF 1 > k THEN 0 ELSE k - 1 + 1
    BY <1>1, FS_Interval
  <2> QED BY <1>1, <2>1
<1> QED BY <1>5, <1>6

LEMMA CountGrows ==
  ASSUME NEW s \in Seq(Frames), NEW k, NEW m, NEW p \in Nat, NEW q \in Nat,
         Counts(s, k, p), Counts(s, m, q), p <= q
  PROVE  k <= m
<1> SUFFICES ASSUME m < k PROVE FALSE
  BY LenProperties DEF Counts
<1> DEFINE j == m + 1
<1>1. Len(s) \in Nat /\ k \in 0 .. Len(s) /\ m \in 0 .. Len(s)
  BY LenProperties DEF Counts
<1>2. j \in 0 .. Len(s) /\ k \in j .. Len(s) /\ m < Len(s) /\ k - j \in Nat
  BY <1>1
<1>3. q < EndIn(s, j) /\ EndIn(s, k) <= p
  BY <1>2 DEF Counts
<1> HIDE DEF j
<1>4. EndIn(s, j) + (k - j) <= EndIn(s, k) /\ EndIn(s, j) \in Nat /\ EndIn(s, k) \in Nat
  BY <1>1, <1>2, EndsGrow, EndsIs
<1> QED BY ONLY <1>2, <1>3, <1>4, p \in Nat, q \in Nat, p <= q

\* A frame more, and as many have come in full as before.
LEMMA CountKeeps ==
  ASSUME NEW s \in Seq(Frames), NEW frame \in Frames, NEW k, NEW q \in Nat,
         Counts(s, k, q), q <= Len(WireOf(s))
  PROVE  Counts(Append(s, frame), k, q)
<1> DEFINE t == Append(s, frame)
           n == Len(s)
<1>1. n \in Nat /\ k \in 0 .. n /\ EndIn(s, k) <= q /\ (k < n => q < EndIn(s, k + 1))
  BY LenProperties DEF Counts
<1>2. t \in Seq(Frames) /\ Len(t) = n + 1
  BY AppendProperties
<1>3. EndIn(t, k) = EndIn(s, k) /\ (k < n => EndIn(t, k + 1) = EndIn(s, k + 1))
  <2>1. k < n => k + 1 \in 0 .. Len(s)
    BY <1>1
  <2> DEFINE j == k + 1
  <2> HIDE DEF j
  <2>2. j \in 0 .. Len(s) => EndIn(t, j) = EndIn(s, j)
    BY WireGrows
  <2>3. EndIn(t, k) = EndIn(s, k)
    BY <1>1, WireGrows
  <2> QED BY <2>1, <2>2, <2>3 DEF j
<1>4. ASSUME k = n PROVE q < EndIn(t, k + 1)
  <2>1. EndIn(s, k) = Len(WireOf(s)) /\ EndIn(s, k) \in Nat
    BY <1>1, <1>4, EndsIs
  <2>2. EndIn(t, k) < EndIn(t, k + 1) /\ EndIn(t, k + 1) \in Nat
    <3>1. k \in Nat /\ k < Len(t)
      BY <1>1, <1>2, <1>4
    <3> HIDE DEF t
    <3> QED BY <1>2, <3>1, EndsStep
  <2> QED BY <1>1, <1>3, <2>1, <2>2
<1>5. k # n => q < EndIn(t, k + 1)
  BY <1>1, <1>3
<1>6. k \in 0 .. Len(t) /\ EndIn(t, k) <= q
  BY <1>1, <1>2, <1>3
<1> HIDE DEF t
<1>7. Counts(t, k, q)
  BY <1>4, <1>5, <1>6 DEF Counts
<1> QED BY <1>7 DEF t

-----------------------------------------------------------------------------
(* What a session that ended too early leaves *)

FrameSize == CHOOSE size \in 0 .. MaxBuffer :
                 /\ \A frame \in Frames : Len(PackFrame(frame)) <= size
                 /\ (MaxDrops + 1) * size + ReadSize <= MaxBuffer

LEMMA Room ==
  /\ FrameSize \in Nat
  /\ \A frame \in Frames : Len(PackFrame(frame)) <= FrameSize
  /\ (MaxDrops + 1) * FrameSize + ReadSize <= MaxBuffer
<1> DEFINE Fits(size) == /\ \A frame \in Frames : Len(PackFrame(frame)) <= size
                         /\ (MaxDrops + 1) * size + ReadSize <= MaxBuffer
<1>1. \E size \in 0 .. MaxBuffer : Fits(size)
  BY RoomAssumption
<1>2. FrameSize = CHOOSE size \in 0 .. MaxBuffer : Fits(size)
  BY Zenon DEF FrameSize
<1> HIDE DEF Fits
<1>3. FrameSize \in 0 .. MaxBuffer /\ Fits(FrameSize)
  BY <1>1, <1>2
<1>4. FrameSize \in Nat
  BY <1>3, FramingAssumption
<1> QED BY <1>3, <1>4 DEF Fits

LEMMA OpenedJoin ==
  ASSUME NEW h \in Seq(Byte), NEW p \in Seq(Byte), Opened(h), Opened(p)
  PROVE  h \o p \in Seq(Byte) /\ Opened(h \o p)
<1> DEFINE n == Len(h)
           m == Len(p)
           b == h \o p
<1>1. n \in Nat /\ m \in Nat
  BY LenProperties
<1>2. b \in Seq(Byte) /\ Len(b) = n + m
      /\ \A x \in 1 .. n + m : b[x] = IF x <= n THEN h[x] ELSE p[x - n]
  BY ConcatProperties
<1>3. CASE h = <<>>
  BY <1>3, <1>2, ConcatEmptySeq
<1>4. CASE p = <<>>
  BY <1>4, <1>2, ConcatEmptySeq
<1>5. CASE h # <<>> /\ p # <<>>
  <2>1. n # 0
    BY <1>5, EmptySeq
  <2>2. /\ h[1] = kStartMarker /\ \A x \in 1 .. n : h[x] # kEndMarker
        /\ \A x \in 1 .. m : p[x] # kEndMarker
    BY <1>5 DEF Opened
  <2> HIDE DEF n, m, b
  <2>3. b[1] = kStartMarker
    <3>1. 1 \in 1 .. n + m /\ 1 <= n
      BY <1>1, <2>1
    <3> QED BY <1>2, <2>2, <3>1
  <2>4. ASSUME NEW x \in 1 .. n + m PROVE b[x] # kEndMarker
    <3>1. CASE x <= n
      <4>1. x \in 1 .. n
        BY <1>1, <3>1
      <4> QED BY <1>2, <2>2, <3>1, <4>1
    <3>2. CASE ~(x <= n)
      <4>1. x - n \in 1 .. m
        BY <1>1, <3>2
      <4>2. p[x - n] # kEndMarker
        BY <2>2, <4>1
      <4> QED BY <1>2, <3>2, <4>2
    <3> QED BY <3>1, <3>2
  <2>5. Opened(b)
    BY <1>2, <2>3, <2>4 DEF Opened
  <2> QED BY <1>2, <2>5 DEF b
<1> QED BY <1>3, <1>4, <1>5

LEMMA CutIs ==
  ASSUME NEW cut \in Cuts
  PROVE  /\ cut \in Seq(Byte) /\ Opened(cut) /\ cut # <<>>
         /\ Len(cut) \in Nat /\ Len(cut) <= FrameSize
<1>0. PICK frame \in Frames :
          cut \in {SubSeq(PackFrame(frame), 1, n) : n \in 1 .. Len(PackFrame(frame)) - 1}
  BY Zenon DEF Cuts
<1> DEFINE f == PackFrame(frame)
<1>1. PICK n \in 1 .. Len(f) - 1 : cut = SubSeq(f, 1, n)
  BY <1>0
<1>2. /\ f \in Seq(Byte) /\ Len(f) \in Nat /\ Len(f) >= 9 /\ f[1] = kStartMarker
      /\ \A x \in 2 .. Len(f) - 1 : f[x] \in Clean
  BY PackFrameIs
<1>3. Len(f) <= FrameSize /\ FrameSize \in Nat
  BY Room
<1>4. n \in Nat /\ n >= 1 /\ n < Len(f) /\ 0 \in Nat /\ 0 <= n /\ n <= Len(f)
  BY <1>2
<1> HIDE DEF f
<1>5. Part(f, 0, n) \in Seq(Byte) /\ Len(Part(f, 0, n)) = n - 0
      /\ \A x \in 1 .. n - 0 : Part(f, 0, n)[x] = f[0 + x]
  BY ONLY <1>2, <1>4, PartAt, Zenon
<1>6. cut = Part(f, 0, n)
  <2>1. 0 + 1 = 1
    OBVIOUS
  <2> QED BY <1>1, <2>1, Zenon DEF Part
<1>7. cut \in Seq(Byte) /\ Len(cut) = n /\ \A x \in 1 .. n : cut[x] = f[x]
  BY <1>4, <1>5, <1>6
<1>8. cut[1] = kStartMarker
  BY <1>2, <1>4, <1>7
<1>9. \A x \in 1 .. n : cut[x] # kEndMarker
  <2> TAKE x \in 1 .. n
  <2>1. CASE x = 1
    BY <1>8, <2>1 DEF kStartMarker, kEndMarker
  <2>2. CASE x # 1
    <3>1. x \in 2 .. Len(f) - 1
      BY <1>2, <1>4, <2>2
    <3>2. f[x] \in Clean
      BY <1>2, <3>1
    <3> QED BY <1>7, <3>2 DEF Clean
  <2> QED BY <2>1, <2>2
<1>10. Opened(cut)
  BY <1>7, <1>8, <1>9 DEF Opened
<1>11. cut # <<>>
  BY <1>4, <1>7
<1> QED BY <1>3, <1>4, <1>7, <1>10, <1>11

\* What has come of a frame that has not come in full is a cut.
LEMMA RestIsCut ==
  ASSUME NEW s \in Seq(Frames), NEW k, NEW q \in Nat, Counts(s, k, q), q <= Len(WireOf(s)),
         EndIn(s, k) # q
  PROVE  Part(WireOf(s), EndIn(s, k), q) \in Cuts /\ q - EndIn(s, k) <= FrameSize
<1> DEFINE w == WireOf(s)
           e == EndIn(s, k)
           p == Part(w, e, q)
           m == q - e
           frame == s[k + 1]
           f == PackFrame(frame)
           d == EndIn(s, k + 1)
<1>1. w \in Seq(Byte) /\ e \in Nat /\ e <= q /\ q <= Len(w) /\ Len(s) \in Nat /\ k \in 0 .. Len(s)
  BY EndsIs, LenProperties DEF Counts
<1>2. k # Len(s)
  <2>1. CASE k = Len(s)
    <3>1. e = Len(w)
      BY <2>1, EndsIs
    <3>2. Len(w) \in Nat
      BY <1>1, LenProperties
    <3> QED BY <1>1, <3>1, <3>2
  <2> QED BY <2>1
<1>3. k \in Nat /\ k < Len(s)
  BY <1>1, <1>2
<1>4. frame \in Frames /\ d \in Nat /\ d = e + Len(f) /\ e <= d
  BY <1>3, EndsStep
<1>5. q < d
  BY <1>3 DEF Counts
<1>6. f \in Seq(Byte) /\ Len(f) \in Nat /\ Len(f) <= FrameSize /\ FrameSize \in Nat
  BY <1>4, PackFrameIs, Room
<1>7. f = Part(w, e, d) /\ d <= Len(w)
  BY <1>3, WireFrame
<1> HIDE DEF w, e, d, f, frame
<1>8. \A x \in 1 .. d - e : Part(w, e, d)[x] = w[e + x]
  <2>1. w \in Seq(Byte) /\ e \in Nat /\ d \in Nat /\ e <= d /\ d <= Len(w)
    BY <1>1, <1>4, <1>7
  <2> QED BY ONLY <2>1, PartAt, Zenon
<1>9. p \in Seq(Byte) /\ Len(p) = q - e /\ \A x \in 1 .. q - e : p[x] = w[e + x]
  BY ONLY <1>1, q \in Nat, PartAt, Zenon
<1>10. m \in 1 .. Len(f) - 1 /\ m \in Nat /\ \A x \in 1 .. m : x \in 1 .. d - e
  <2>1. e # q
    BY DEF e
  <2> QED BY <1>1, <1>4, <1>5, <1>6, <2>1
<1> DEFINE c == Part(f, 0, m)
<1>11. c \in Seq(Byte) /\ Len(c) = m - 0 /\ \A x \in 1 .. m - 0 : c[x] = f[0 + x]
  <2>1. f \in Seq(Byte) /\ 0 \in Nat /\ m \in Nat /\ 0 <= m /\ m <= Len(f)
    BY <1>6, <1>10
  <2> HIDE DEF m
  <2> QED BY ONLY <2>1, PartAt, Zenon
<1>12. c = SubSeq(f, 1, m)
  BY DEF Part
<1> HIDE DEF c, p, m
<1>13. Len(c) = m /\ \A x \in 1 .. m : c[x] = f[x]
  BY <1>10, <1>11
<1>14. Len(p) = m /\ \A x \in 1 .. m : p[x] = w[e + x]
  BY <1>9 DEF m
<1>15. ASSUME NEW x \in 1 .. m PROVE c[x] = p[x]
  <2>1. f[x] = w[e + x]
    BY <1>7, <1>8, <1>10, Zenon
  <2> QED BY <1>13, <1>14, <2>1, Zenon
<1>16. c = p
  BY <1>9, <1>11, <1>13, <1>14, <1>15, SeqEqual
<1>17. c \in Cuts
  <2> DEFINE own == {SubSeq(PackFrame(frame), 1, x) : x \in 1 .. Len(PackFrame(frame)) - 1}
  <2>1. c \in own
    BY <1>10, <1>12, Zenon DEF f
  <2>2. own \in {{SubSeq(PackFrame(y), 1, x) : x \in 1 .. Len(PackFrame(y)) - 1} : y \in Frames}
    BY <1>4, Zenon
  <2> HIDE DEF own
  <2> QED BY <2>1, <2>2, Zenon DEF Cuts
<1>18. m <= FrameSize
  BY <1>6, <1>10
<1> QED BY <1>16, <1>17, <1>18, Zenon DEF p, w, e, m

\* What several such sessions have left.
LEMMA LeftIs ==
  ASSUME NEW cuts \in Seq(Cuts)
  PROVE  LET left == FlattenSeq(cuts)
         IN  /\ left \in Seq(Byte) /\ Opened(left) /\ (left = <<>> <=> cuts = <<>>)
             /\ Len(left) \in Nat /\ Len(left) <= Len(cuts) * FrameSize
             /\ cuts \in Seq(Seq(Byte)) /\ Len(cuts) \in Nat
<1> DEFINE left == FlattenSeq(cuts)
           n == Len(cuts)
<1>1. n \in Nat /\ \A i \in 1 .. n : cuts[i] \in Cuts
  BY LenProperties, ElementOfSeq
<1>2. \A cut \in Cuts : cut \in Seq(Byte)
  BY CutIs
<1>3. cuts \in Seq(Seq(Byte))
  <2>1. Cuts \subseteq Seq(Byte)
    BY <1>2
  <2> QED BY <1>1, <2>1
<1>4. PICK g \in [0 .. n -> Seq(Byte)] : StepsTo(cuts, g, n) /\ left = g[n]
  BY <1>3, FlattenSteps
<1>5. g[0] = <<>> /\ \A i \in 1 .. n : g[i] = g[i - 1] \o cuts[i]
  BY <1>4, Zenon DEF StepsTo
<1> HIDE DEF n, left
<1> DEFINE Good(b, i) == /\ b \in Seq(Byte) /\ Opened(b) /\ Len(b) <= i * FrameSize
                         /\ (i # 0 => b # <<>>)
           T == {i \in Nat : i <= n => Good(g[i], i)}
<1>6. FrameSize \in Nat
  BY Room
<1>7. 0 \in T
  <2>1. Len(<<>>) = 0 /\ <<>> \in Seq(Byte) /\ Opened(<<>>) /\ 0 * FrameSize = 0
    BY <1>6 DEF Opened
  <2>2. Len(<<>>) <= 0 * FrameSize
    BY <2>1
  <2>3. Good(g[0], 0)
    BY <1>5, <2>1, <2>2, Zenon
  <2> HIDE DEF Good
  <2> QED BY <2>3
<1>8. ASSUME NEW i \in Nat, i \in T PROVE i + 1 \in T
  <2> DEFINE j == i + 1
             u == g[i]
             c == cuts[j]
             b == u \o c
  <2> SUFFICES ASSUME j <= n PROVE Good(g[j], j)
    OBVIOUS
  <2>1. j \in 1 .. n /\ j - 1 = i /\ i <= n
    BY <1>1
  <2>2. u \in Seq(Byte) /\ Opened(u) /\ Len(u) <= i * FrameSize
    BY <1>8, <2>1
  <2>3. c \in Cuts
    BY <1>1, <2>1
  <2>4. g[j] = b
    BY <1>5, <2>1, Zenon
  <2> HIDE DEF u, c
  <2>5. /\ c \in Seq(Byte) /\ Opened(c) /\ c # <<>>
        /\ Len(c) \in Nat /\ Len(c) <= FrameSize
    BY <2>3, CutIs
  <2>6. b \in Seq(Byte) /\ Opened(b)
    BY <2>2, <2>5, OpenedJoin
  <2>7. Len(b) = Len(u) + Len(c) /\ Len(u) \in Nat
    BY <2>2, <2>5, ConcatProperties, LenProperties
  <2> HIDE DEF b
  <2>8. j * FrameSize = i * FrameSize + FrameSize
    BY <1>6
  <2> DEFINE y == i * FrameSize
  <2>9. y \in Nat /\ Len(u) <= y
    BY <1>6, <2>2
  <2> HIDE DEF y
  <2>10. Len(b) <= y + FrameSize
    BY <1>6, <2>5, <2>7, <2>9
  <2>11. Len(b) <= j * FrameSize
    BY <2>8, <2>10, Zenon DEF y
  <2>12. b # <<>>
    <3>1. Len(c) # 0
      BY <2>5, EmptySeq
    <3>2. Len(b) # 0
      BY <2>5, <2>7, <3>1
    <3> QED BY <3>2
  <2> HIDE DEF j
  <2> QED BY <2>4, <2>6, <2>11, <2>12, Zenon
<1>9. Good(left, n)
  <2>1. n \in T
    <3> HIDE DEF T
    <3> QED BY <1>1, <1>7, <1>8, Induction
  <2> HIDE DEF Good
  <2>2. Good(g[n], n)
    BY <1>1, <2>1
  <2> QED BY <1>4, <2>2, Zenon
<1>10. left = <<>> <=> cuts = <<>>
  <2>1. CASE cuts = <<>>
    <3>1. left = <<>>
      BY <2>1, FlattenNothing DEF left
    <3> QED BY <2>1, <3>1
  <2>2. CASE cuts # <<>>
    <3>1. n # 0
      BY <2>2, EmptySeq DEF n
    <3> QED BY <1>9, <2>2, <3>1
  <2> QED BY <2>1, <2>2
<1>11. Len(left) \in Nat
  BY <1>9, LenProperties
<1> QED BY <1>1, <1>3, <1>9, <1>10, <1>11, Zenon DEF left, n

-----------------------------------------------------------------------------
(* What the StreamFramer holds *)

\* left is what it held when the session began, s the frames of the session, k
\* of which have been extracted, and q how many bytes of the session it has got.
Before(left, k) == IF k = 0 THEN left ELSE <<>>
Held(s, left, k, q) == Before(left, k) \o Part(WireOf(s), EndIn(s, k), q)

\* The first frame of the session ends what was left over and is lost with it,
\* unless the two pass for a frame.
Harmless(left) == left # <<>> => \A frame \in Frames : UnpackFrame(left \o PackFrame(frame)) = <<>>
First(left) == IF left = <<>> THEN 1 ELSE 2
Got(s, left, k) == SubSeq(s, First(left), k)

LEMMA BeforeType ==
  ASSUME NEW left \in Seq(Byte), Opened(left), NEW k
  PROVE  Before(left, k) \in Seq(Byte) /\ Opened(Before(left, k))
<1>1. <<>> \in Seq(Byte) /\ Opened(<<>>)
  BY DEF Opened
<1> QED BY <1>1 DEF Before

LEMMA HeldType ==
  ASSUME NEW s \in Seq(Frames), NEW left \in Seq(Byte), Opened(left), NEW k \in 0 .. Len(s),
         NEW q \in Nat, EndIn(s, k) <= q, q <= Len(WireOf(s))
  PROVE  /\ Held(s, left, k, q) \in Seq(Byte)
         /\ Len(Held(s, left, k, q)) = Len(Before(left, k)) + (q - EndIn(s, k))
         /\ Len(Before(left, k)) \in Nat /\ EndIn(s, k) \in Nat
<1> DEFINE w == WireOf(s)
           e == EndIn(s, k)
           h == Before(left, k)
           p == Part(w, e, q)
<1>1. w \in Seq(Byte) /\ e \in Nat /\ q \in Nat /\ e <= q /\ q <= Len(w)
  BY EndsIs
<1>2. h \in Seq(Byte)
  BY BeforeType
<1> HIDE DEF w, e, h
<1>3. p \in Seq(Byte) /\ Len(p) = q - e
  BY ONLY <1>1, PartAt, Zenon
<1> HIDE DEF p
<1>4. h \o p \in Seq(Byte) /\ Len(h \o p) = Len(h) + Len(p) /\ Len(h) \in Nat
  BY <1>2, <1>3, ConcatProperties, LenProperties
<1>5. Held(s, left, k, q) = h \o p
  BY DEF Held, h, p, w, e
<1> QED BY <1>1, <1>3, <1>4, <1>5, Zenon DEF h, e

LEMMA HeldMore ==
  ASSUME NEW s \in Seq(Frames), NEW left \in Seq(Byte), Opened(left), NEW k \in 0 .. Len(s),
         NEW q \in Nat, EndIn(s, k) <= q, NEW r \in Nat, q <= r, r <= Len(WireOf(s))
  PROVE  Held(s, left, k, q) \o Part(WireOf(s), q, r) = Held(s, left, k, r)
<1> DEFINE w == WireOf(s)
           e == EndIn(s, k)
           h == Before(left, k)
<1>1. w \in Seq(Byte) /\ e \in Nat /\ e <= q /\ q <= r /\ r <= Len(w) /\ q <= Len(w)
  <2>1. Len(WireOf(s)) \in Nat
    BY EndsIs, LenProperties
  <2> QED BY <2>1, EndsIs
<1>2. h \in Seq(Byte)
  BY BeforeType
<1> HIDE DEF w, e, h
<1>3. Part(w, e, q) \in Seq(Byte) /\ Part(w, q, r) \in Seq(Byte)
  BY <1>1, PartAt
<1>4. Part(w, e, q) \o Part(w, q, r) = Part(w, e, r)
  BY <1>1, PartsJoinAt
<1> DEFINE a == Part(w, e, q)
           b == Part(w, q, r)
<1>5. a \in Seq(Byte) /\ b \in Seq(Byte)
  BY <1>3
<1> HIDE DEF a, b
<1>6. (h \o a) \o b = h \o (a \o b)
  BY <1>2, <1>5, BytesAssociative, Zenon
<1> QED BY <1>4, <1>6, Zenon DEF Held, h, w, e, a, b

\* Once all that has come in full is extracted, the rest is no frame.
LEMMA HeldOpened ==
  ASSUME NEW s \in Seq(Frames), NEW left \in Seq(Byte), Opened(left), NEW k,
         NEW q \in Nat, Counts(s, k, q), q <= Len(WireOf(s))
  PROVE  Opened(Held(s, left, k, q))
<1> DEFINE h == Before(left, k)
           p == Part(WireOf(s), EndIn(s, k), q)
<1>1. h \in Seq(Byte) /\ Opened(h)
  BY BeforeType
<1>2. Held(s, left, k, q) = h \o p
  BY DEF Held
<1>3. p \in Seq(Byte) /\ Opened(p)
  <2>1. CASE EndIn(s, k) = q
    <3>1. p = <<>>
      BY <2>1, PartEmpty
    <3> QED BY <3>1 DEF Opened
  <2>2. CASE EndIn(s, k) # q
    <3>1. p \in Cuts
      BY <2>2, RestIsCut
    <3> QED BY <3>1, CutIs
  <2> QED BY <2>1, <2>2
<1> HIDE DEF h, p
<1>4. Opened(h \o p)
  BY <1>1, <1>3, OpenedJoin
<1> QED BY <1>2, <1>4, Zenon

LEMMA SegmentClosed ==
  ASSUME NEW left \in Seq(Byte), Opened(left), NEW frame \in Frames, NEW k
  PROVE  LET c == Before(left, k) \o PackFrame(frame) IN c \in Seq(Byte) /\ Closed(c)
<1> DEFINE h == Before(left, k)
           f == PackFrame(frame)
           n == Len(h)
           m == Len(f)
           c == h \o f
<1>1. h \in Seq(Byte) /\ Opened(h) /\ n \in Nat
  BY BeforeType, LenProperties
<1>2. /\ f \in Seq(Byte) /\ m \in Nat /\ m >= 9 /\ f[1] = kStartMarker /\ f[m] = kEndMarker
      /\ \A x \in 2 .. m - 1 : f[x] \in Clean
  BY PackFrameIs
<1> HIDE DEF h, f
<1>3. c \in Seq(Byte) /\ Len(c) = n + m
      /\ \A x \in 1 .. n + m : c[x] = IF x <= n THEN h[x] ELSE f[x - n]
  BY <1>1, <1>2, ConcatProperties
<1>4. \A x \in 1 .. n : h[x] # kEndMarker
  <2>1. CASE h = <<>>
    BY <2>1
  <2>2. CASE h # <<>>
    BY <1>1, <2>2 DEF Opened
  <2> QED BY <2>1, <2>2
<1>5. n # 0 => h[1] = kStartMarker
  BY <1>1, EmptySeq DEF Opened
<1> HIDE DEF n, m, c
<1>6. c[1] = kStartMarker
  <2>1. 1 \in 1 .. n + m /\ (1 <= n <=> n # 0) /\ (n = 0 => 1 - n = 1)
    BY <1>1, <1>2
  <2> QED BY <1>2, <1>3, <1>5, <2>1
<1>7. c[n + m] = kEndMarker
  <2> DEFINE x == n + m
  <2>1. x \in 1 .. n + m /\ ~(x <= n) /\ x - n = m
    BY <1>1, <1>2
  <2> HIDE DEF x
  <2>2. c[x] = kEndMarker
    BY <1>2, <1>3, <2>1
  <2> QED BY <2>2 DEF x
<1>8. ASSUME NEW x \in 1 .. n + m - 1 PROVE c[x] # kEndMarker
  <2>1. x \in 1 .. n + m
    BY <1>1, <1>2
  <2>2. CASE x <= n
    <3>1. x \in 1 .. n
      BY <1>1, <2>1, <2>2
    <3> QED BY <1>3, <1>4, <2>1, <2>2, <3>1
  <2>3. CASE ~(x <= n)
    <3> DEFINE y == x - n
    <3>1. y \in 1 .. m - 1
      BY <1>1, <1>2, <2>3
    <3>2. c[x] = f[y]
      BY <1>3, <2>1, <2>3
    <3> HIDE DEF y
    <3>3. CASE y = 1
      BY <1>2, <3>2, <3>3 DEF kStartMarker, kEndMarker
    <3>4. CASE y # 1
      <4>1. y \in 2 .. m - 1
        BY <1>2, <3>1, <3>4
      <4>2. f[y] \in Clean
        BY <1>2, <4>1
      <4> QED BY <3>2, <4>2 DEF Clean
    <3> QED BY <3>3, <3>4
  <2> QED BY <2>2, <2>3
<1>9. Len(c) = n + m /\ n + m >= 2
  BY <1>1, <1>2, <1>3
<1>10. Closed(c)
  <2>1. c[Len(c)] = kEndMarker
    BY <1>7, <1>9, Zenon
  <2>2. \A x \in 1 .. Len(c) - 1 : c[x] # kEndMarker
    <3>1. Len(c) = n + m
      BY <1>9
    <3> DEFINE l == Len(c)
    <3>2. l - 1 = n + m - 1
      BY <1>1, <1>2, <3>1
    <3> HIDE DEF l
    <3> QED BY <1>8, <3>2, Zenon DEF l
  <2>3. Len(c) >= 2
    BY <1>9, Zenon
  <2> QED BY <1>6, <2>1, <2>2, <2>3, Zenon DEF Closed
<1> QED BY <1>3, <1>10, Zenon DEF c, h, f

Holds(r, s, left, k, q) == r.buffer = Held(s, left, k, q)
Takes(r, s, left, k) ==
  Turn(r).frames = r.frames \o UnpackFrame(Before(left, k) \o PackFrame(s[k + 1]))

\* One turn extracts the next frame.
LEMMA TurnHeld ==
  ASSUME NEW s \in Seq(Frames), NEW left \in Seq(Byte), Opened(left), NEW k \in Nat, k < Len(s),
         NEW q \in Nat, EndIn(s, k + 1) <= q, q <= Len(WireOf(s)),
         NEW r, Holds(r, s, left, k, q)
  PROVE  /\ Holds(Turn(r), s, left, k + 1, q)
         /\ Takes(r, s, left, k)
<1> DEFINE w == WireOf(s)
           a == EndIn(s, k)
           b == EndIn(s, k + 1)
           f == PackFrame(s[k + 1])
           h == Before(left, k)
           c == h \o f
           rest == Part(w, b, q)
<1>1. s[k + 1] \in Frames /\ a \in Nat /\ b \in Nat /\ a <= b /\ b <= q
  BY EndsStep
<1>2. w \in Seq(Byte) /\ Part(w, a, b) = f
  BY EndsIs, WireFrame
<1>3. h \in Seq(Byte) /\ f \in Seq(Byte)
  BY <1>1, BeforeType, PackFrameIs
<1>4. c \in Seq(Byte) /\ Closed(c)
  BY <1>1, SegmentClosed
<1>5. q <= Len(w)
  OBVIOUS
<1>6. Held(s, left, k + 1, q) = rest
  <2>1. Before(left, k + 1) = <<>>
    BY DEF Before
  <2>2. rest \in Seq(Byte)
    <3> HIDE DEF w, b
    <3> QED BY <1>1, <1>2, <1>5, PartAt
  <2> HIDE DEF rest
  <2>3. <<>> \o rest = rest
    BY <2>2, ConcatEmptySeq
  <2> QED BY <2>1, <2>3, Zenon DEF Held, rest
<1>7. Held(s, left, k, q) = c \o rest
  <2> HIDE DEF w, a, b, f, h
  <2>1. f \o rest = Part(w, a, q)
    <3>1. Part(w, a, b) \o Part(w, b, q) = Part(w, a, q)
      BY ONLY <1>1, <1>2, <1>5, q \in Nat, PartsJoinAt
    <3> QED BY <1>2, <3>1
  <2>2. rest \in Seq(Byte)
    BY <1>1, <1>2, <1>5, PartAt
  <2> HIDE DEF rest
  <2>3. h \o (f \o rest) = (h \o f) \o rest
    BY <1>3, <2>2, BytesAssociative, Zenon
  <2> QED BY <2>1, <2>3, Zenon DEF Held, h, w, a
<1>8. rest \in Seq(Byte)
  <2> HIDE DEF w, b
  <2> QED BY <1>1, <1>2, <1>5, PartAt
<1> HIDE DEF c, rest
<1>9. NextFrame(c \o rest) = [frame |-> c, buffer |-> rest]
  BY <1>4, <1>8, NextOfClosed
<1> DEFINE next == NextFrame(r.buffer)
<1>10. r.buffer = c \o rest
  BY <1>7 DEF c, Holds
<1>11. next.frame = c /\ next.buffer = rest
  BY <1>9, <1>10
<1>12. Turn(r) = [buffer |-> next.buffer, frames |-> r.frames \o UnpackFrame(next.frame)]
  BY Zenon DEF Turn
<1> HIDE DEF next
<1>13. Turn(r).buffer = next.buffer /\ Turn(r).frames = r.frames \o UnpackFrame(next.frame)
  <2> DEFINE x == next.buffer
             fs == r.frames \o UnpackFrame(next.frame)
  <2>1. Turn(r) = [buffer |-> x, frames |-> fs]
    BY <1>12
  <2> HIDE DEF x, fs
  <2>2. Turn(r).buffer = x /\ Turn(r).frames = fs
    BY ONLY <2>1
  <2> QED BY <2>2 DEF x, fs
<1>14. Turn(r).buffer = rest /\ Turn(r).frames = r.frames \o UnpackFrame(c)
  BY <1>11, <1>13, Zenon
<1> QED BY <1>6, <1>14, Zenon DEF c, Holds, Takes

\* The frame is delivered, or lost with what was left over.
LEMMA GotMore ==
  ASSUME NEW s \in Seq(Frames), NEW left \in Seq(Byte), Harmless(left),
         NEW k \in Nat, k < Len(s)
  PROVE  Got(s, left, k) \o UnpackFrame(Before(left, k) \o PackFrame(s[k + 1])) = Got(s, left, k + 1)
<1> DEFINE frame == s[k + 1]
           f == PackFrame(frame)
<1>1. frame \in Frames /\ Len(s) \in Nat
  BY EndsStep, LenProperties
<1>2. f \in Seq(Byte) /\ UnpackFrame(f) = <<frame>> /\ <<>> \o f = f
  BY <1>1, PackFrameIs, UnpackPacked, ConcatEmptySeq
<1>3. CASE k = 0 /\ left # <<>>
  <2>1. UnpackFrame(Before(left, k) \o f) = <<>>
    BY <1>1, <1>3 DEF Before, Harmless
  <2>2. First(left) = 2
    BY <1>3 DEF First
  <2>3. SubSeq(s, 2, 0) = <<>> /\ SubSeq(s, 2, 1) = <<>>
    BY SubSeqEmpty
  <2>4. <<>> \o <<>> = <<>>
    OBVIOUS
  <2> QED BY <1>3, <2>1, <2>2, <2>3, <2>4 DEF Got
<1>4. CASE ~(k = 0 /\ left # <<>>)
  <2>1. Before(left, k) = <<>>
    BY <1>4 DEF Before
  <2>2. UnpackFrame(Before(left, k) \o f) = <<frame>>
    BY <1>2, <2>1
  <2> DEFINE i == First(left) - 1
             g == Part(s, i, k)
  <2>3. i \in Nat /\ i <= k /\ i + 1 = First(left)
    BY <1>4 DEF First
  <2>4. Got(s, left, k) = g /\ Got(s, left, k + 1) = Part(s, i, k + 1)
    BY <2>3, Zenon DEF Got, Part
  <2> HIDE DEF i
  <2>5. Part(s, i, k + 1) = Append(g, frame)
    BY <2>3, PartAppend
  <2>6. g \in Seq(Frames)
    <3>1. k <= Len(s)
      BY <1>1
    <3> QED BY <2>3, <3>1, PartAt
  <2> HIDE DEF g, frame
  <2>7. g \o <<frame>> = Append(g, frame)
    BY <1>1, <2>6, AppendProperties
  <2> QED BY <2>2, <2>4, <2>5, <2>7, Zenon DEF frame
<1> QED BY <1>3, <1>4

\* However many turns: all that has come in full is extracted.
LEMMA Extraction ==
  ASSUME NEW s \in Seq(Frames), NEW left \in Seq(Byte), Opened(left),
         NEW k \in Nat, NEW m \in Nat, k <= m,
         NEW q \in Nat, EndIn(s, k) <= q, q <= Len(WireOf(s)), Counts(s, m, q),
         NEW frames \in Seq(UnpackedFrame)
  PROVE  LET result == Extract(Held(s, left, k, q), frames)
         IN  /\ result.buffer = Held(s, left, m, q)
             /\ result.frames \in Seq(UnpackedFrame)
             /\ Harmless(left) /\ frames = Got(s, left, k) => result.frames = Got(s, left, m)
<1> DEFINE bytes == Held(s, left, k, q)
           n == Len(bytes)
           init == [buffer |-> bytes, frames |-> frames]
           d == m - k
           Good(r, i) == /\ r \in Loop
                         /\ Holds(r, s, left, i, q)
                         /\ Harmless(left) /\ frames = Got(s, left, k) => r.frames = Got(s, left, i)
<1>1. k \in 0 .. Len(s) /\ m \in 0 .. Len(s) /\ Len(s) \in Nat /\ d \in Nat /\ EndIn(s, m) <= q
  BY LenProperties DEF Counts
<1>2. bytes \in Seq(Byte) /\ n \in Nat /\ d <= n
  <2>1. /\ bytes \in Seq(Byte) /\ Len(bytes) = Len(Before(left, k)) + (q - EndIn(s, k))
        /\ Len(Before(left, k)) \in Nat /\ EndIn(s, k) \in Nat
    BY <1>1, HeldType
  <2>2. m \in k .. Len(s)
    BY <1>1
  <2>3. EndIn(s, k) + (m - k) <= EndIn(s, m) /\ EndIn(s, m) \in Nat
    BY <1>1, <2>2, EndsGrow, EndsIs
  <2> HIDE DEF bytes
  <2> QED BY <1>1, <2>1, <2>3
<1> HIDE DEF bytes, n
<1>3. PICK g \in [0 .. n -> Loop] :
          /\ g[0] = init
          /\ \A i \in 1 .. n : g[i] = Turn(g[i - 1])
          /\ Extract(bytes, frames) = g[n]
  BY <1>2, ExtractSteps DEF n
<1> DEFINE T == {i \in Nat : i <= d => Good(g[i], k + i)}
<1>4. 0 \in T
  <2>1. k + 0 = k /\ 0 \in 0 .. n
    BY <1>2
  <2>2. init.buffer = Held(s, left, k, q) /\ init.frames = frames
    BY DEF bytes
  <2>3. init \in Loop
    BY <1>2 DEF Loop
  <2> HIDE DEF init
  <2>4. Good(g[0], k)
    BY <1>3, <2>2, <2>3 DEF Holds
  <2> HIDE DEF Good
  <2>5. Good(g[0], k + 0)
    BY <2>1, <2>4
  <2> QED BY <2>5
<1>5. ASSUME NEW i \in Nat, i \in T PROVE i + 1 \in T
  <2> SUFFICES ASSUME i + 1 <= d PROVE Good(g[i + 1], k + (i + 1))
    OBVIOUS
  <2> DEFINE j == i + 1
             x == k + i
             r == g[i]
             c == Before(left, x) \o PackFrame(s[x + 1])
             fs == r.frames \o UnpackFrame(c)
  <2>1. /\ i <= d /\ i \in 0 .. n /\ j \in 1 .. n /\ j \in 0 .. n /\ j - 1 = i
        /\ x \in Nat /\ x + 1 = k + (i + 1) /\ x < Len(s) /\ x + 1 <= m
    BY <1>1, <1>2
  <2>2. Good(r, x)
    BY <1>5, <2>1
  <2>3. r \in Loop /\ r.frames \in Seq(UnpackedFrame)
        /\ r = [buffer |-> r.buffer, frames |-> r.frames]
    BY <2>2 DEF Loop
  <2>4. Holds(r, s, left, x, q)
    BY <2>2
  <2>5. EndIn(s, x + 1) <= q
    <3> DEFINE y == x + 1
    <3>1. y \in 0 .. Len(s) /\ m \in y .. Len(s) /\ y \in Nat
      BY <1>1, <2>1
    <3> HIDE DEF y
    <3>2. EndIn(s, y) + (m - y) <= EndIn(s, m) /\ EndIn(s, y) \in Nat /\ EndIn(s, m) \in Nat
      BY <1>1, <3>1, EndsGrow, EndsIs
    <3>3. m - y \in Nat
      BY <3>1
    <3>4. EndIn(s, y) <= q
      BY <1>1, <3>2, <3>3
    <3> QED BY <3>4 DEF y
  <2>6. g[j] = Turn(r)
    BY <1>3, <2>1, Zenon
  <2> HIDE DEF r, x
  <2>7. Holds(Turn(r), s, left, x + 1, q) /\ Turn(r).frames = fs
    <3>1. /\ s \in Seq(Frames) /\ left \in Seq(Byte) /\ Opened(left) /\ x \in Nat /\ x < Len(s)
          /\ q \in Nat /\ EndIn(s, x + 1) <= q /\ q <= Len(WireOf(s))
          /\ Holds(r, s, left, x, q)
      BY <2>1, <2>4, <2>5
    <3> HIDE DEF r
    <3>2. Holds(Turn(r), s, left, x + 1, q)
      BY ONLY <3>1, TurnHeld, Zenon
    <3>3. Takes(r, s, left, x)
      BY ONLY <3>1, TurnHeld, Zenon
    <3> QED BY <3>2, <3>3 DEF Takes
  <2>8. g[j] \in Loop
    BY <1>3, <2>1
  <2>9. Harmless(left) /\ frames = Got(s, left, k) => fs = Got(s, left, x + 1)
    <3> SUFFICES ASSUME Harmless(left), frames = Got(s, left, k) PROVE fs = Got(s, left, x + 1)
      OBVIOUS
    <3>1. r.frames = Got(s, left, x)
      BY <2>2
    <3>2. Got(s, left, x) \o UnpackFrame(c) = Got(s, left, x + 1)
      BY <2>1, GotMore
    <3> QED BY <3>1, <3>2, Zenon
  <2> HIDE DEF fs, j
  <2>10. Holds(g[j], s, left, x + 1, q) /\ g[j].frames = fs
    BY <2>6, <2>7
  <2>11. Good(g[j], x + 1)
    BY <2>8, <2>9, <2>10
  <2> HIDE DEF Good
  <2>12. Good(g[j], k + (i + 1))
    BY <2>1, <2>11
  <2> QED BY <2>12 DEF j
<1> DEFINE U == {i \in Nat : d <= i /\ i <= n => Good(g[i], m)}
<1>6. Good(g[d], m)
  <2>1. d \in T
    <3> HIDE DEF T, d
    <3> QED BY <1>1, <1>4, <1>5, Induction
  <2>2. k + d = m
    BY <1>1
  <2> HIDE DEF Good
  <2>3. Good(g[d], k + d)
    BY <1>1, <2>1
  <2> QED BY <2>2, <2>3
<1>7. 0 \in U
  <2> HIDE DEF Good
  <2> QED BY <1>1, <1>6
<1>8. ASSUME NEW i \in Nat, i \in U PROVE i + 1 \in U
  <2> DEFINE j == i + 1
             r == g[i]
  <2> SUFFICES ASSUME d <= j, j <= n PROVE Good(g[j], m)
    OBVIOUS
  <2>1. CASE j = d
    <3> HIDE DEF Good, d
    <3> QED BY <1>6, <2>1
  <2>2. CASE j # d
    <3>1. d <= i /\ i <= n /\ j \in 1 .. n /\ j - 1 = i
      BY <1>1, <1>2, <2>2
    <3>2. Good(r, m)
      <4> HIDE DEF Good
      <4> QED BY <1>8, <3>1
    <3>3. r \in Loop /\ r.buffer = Held(s, left, m, q)
      BY <3>2 DEF Holds
    <3>4. g[j] = Turn(r)
      BY <1>3, <3>1, Zenon
    <3> HIDE DEF r
    <3>5. Opened(r.buffer)
      BY <3>3, HeldOpened
    <3>6. Turn(r) = r
      BY <3>3, <3>5, TurnOpened
    <3> HIDE DEF Good, j
    <3> QED BY <3>2, <3>4, <3>6
  <2> QED BY <2>1, <2>2
<1>9. Good(g[n], m)
  <2>1. n \in U
    <3> HIDE DEF U
    <3> QED BY <1>2, <1>7, <1>8, Induction
  <2> HIDE DEF Good
  <2> QED BY <1>1, <1>2, <2>1
<1>10. g[n].buffer = Held(s, left, m, q) /\ g[n].frames \in Seq(UnpackedFrame)
       /\ (Harmless(left) /\ frames = Got(s, left, k) => g[n].frames = Got(s, left, m))
  BY <1>9 DEF Loop, Holds
<1> QED BY <1>3, <1>10, Zenon DEF bytes

-----------------------------------------------------------------------------
(* The inductive invariant *)

\* s, p, b, d and n are what sent, position, buffer, delivered and stale are.
\* The cuts are what earlier sessions have left, k is how many frames of this
\* one have been extracted.
Explained(s, p, b, d, n, cuts, k) ==
  LET left == FlattenSeq(cuts)
  IN  /\ Len(cuts) <= n /\ (n = 0 <=> cuts = <<>>)
      /\ Counts(s, k, p)
      /\ b = Held(s, left, k, p)
      /\ Harmless(left) => d = Got(s, left, k)

IInv ==
  /\ sent \in Seq(Frames)
  /\ position \in 0 .. Len(WireOf(sent))
  /\ delivered \in Seq(UnpackedFrame)
  /\ stale \in 0 .. MaxDrops
  /\ \E cuts \in Seq(Cuts) : \E k \in Nat :
        Explained(sent, position, buffer, delivered, stale, cuts, k)

\* A session that begins on what earlier ones have left.
LEMMA ExplainedFresh ==
  ASSUME NEW cuts \in Seq(Cuts), NEW n \in Nat, Len(cuts) <= n, n = 0 <=> cuts = <<>>
  PROVE  Explained(<<>>, 0, FlattenSeq(cuts), <<>>, n, cuts, 0)
<1> DEFINE left == FlattenSeq(cuts)
           w == WireOf(<<>>)
<1>1. left \in Seq(Byte)
  BY LeftIs
<1>2. <<>> \in Seq(Frames) /\ Len(<<>>) = 0
  OBVIOUS
<1>3. EndIn(<<>>, 0) = 0
  BY <1>2, EndsIs
<1>4. Counts(<<>>, 0, 0)
  BY <1>2, <1>3 DEF Counts
<1>5. left = Held(<<>>, left, 0, 0)
  <2>1. Part(w, 0, 0) = <<>>
    BY PartEmpty
  <2>2. Before(left, 0) = left
    BY DEF Before
  <2> HIDE DEF left, w
  <2>3. left \o <<>> = left
    BY <1>1, ConcatEmptySeq
  <2> QED BY <1>3, <2>1, <2>2, <2>3, Zenon DEF Held, w
<1>6. <<>> = Got(<<>>, left, 0)
  <2>1. First(left) \in Nat /\ First(left) > 0
    BY DEF First
  <2> QED BY <2>1, SubSeqEmpty DEF Got
<1> QED BY <1>4, <1>5, <1>6 DEF Explained

\* What a session leaves, whenever it ends.
LEMMA ExplainedLeaves ==
  ASSUME NEW s \in Seq(Frames), NEW p \in Nat, p <= Len(WireOf(s)), NEW b, NEW d,
         NEW n \in Nat, NEW cuts \in Seq(Cuts), NEW k, Explained(s, p, b, d, n, cuts, k)
  PROVE  \E more \in Seq(Cuts) : FlattenSeq(more) = b /\ Len(more) <= n + 1
<1> DEFINE left == FlattenSeq(cuts)
           c == IF k = 0 THEN cuts ELSE <<>>
           u == FlattenSeq(c)
           rest == Part(WireOf(s), EndIn(s, k), p)
<1>1. Len(cuts) <= n /\ Len(cuts) \in Nat /\ Counts(s, k, p) /\ b = Held(s, left, k, p)
  BY LenProperties DEF Explained
<1>2. c \in Seq(Cuts) /\ Len(c) <= n /\ Len(c) \in Nat
  <2>1. <<>> \in Seq(Cuts) /\ Len(<<>>) = 0
    OBVIOUS
  <2> QED BY <1>1, <2>1
<1>3. Before(left, k) = u
  BY FlattenNothing DEF Before
<1> HIDE DEF c, left
<1>4. u \in Seq(Byte) /\ c \in Seq(Seq(Byte))
  BY <1>2, LeftIs
<1>5. b = u \o rest
  BY <1>1, <1>3, Zenon DEF Held
<1>6. CASE EndIn(s, k) = p
  <2>1. rest = <<>>
    BY <1>6, PartEmpty
  <2> HIDE DEF u, rest
  <2>2. u \o rest = u
    BY <1>4, <2>1, ConcatEmptySeq
  <2>3. FlattenSeq(c) = b
    BY <1>5, <2>2, Zenon DEF u
  <2> QED BY <1>2, <2>3
<1>7. CASE EndIn(s, k) # p
  <2> DEFINE more == Append(c, rest)
  <2>1. rest \in Cuts
    BY <1>1, <1>7, RestIsCut
  <2> HIDE DEF rest
  <2>2. rest \in Seq(Byte)
    BY <2>1, CutIs
  <2>3. FlattenSeq(more) = u \o rest
    BY <1>4, <2>2, FlattenAppend
  <2>4. more \in Seq(Cuts) /\ Len(more) = Len(c) + 1
    BY <1>2, <2>1, AppendProperties
  <2>5. FlattenSeq(more) = b
    BY <1>5, <2>3, Zenon
  <2> HIDE DEF more
  <2>6. Len(more) <= n + 1
    BY <1>2, <2>4
  <2> QED BY <2>4, <2>5, <2>6
<1> QED BY <1>6, <1>7

\* buffer_ has room for what one recv returns.
LEMMA ExplainedFits ==
  ASSUME NEW s \in Seq(Frames), NEW p \in Nat, p <= Len(WireOf(s)), NEW b, NEW d,
         NEW n \in 0 .. MaxDrops, NEW cuts \in Seq(Cuts), NEW k, Explained(s, p, b, d, n, cuts, k)
  PROVE  b \in Seq(Byte) /\ Len(b) + ReadSize <= MaxBuffer
<1> DEFINE left == FlattenSeq(cuts)
           h == Before(left, k)
           e == EndIn(s, k)
<1>1. /\ Len(cuts) <= n /\ Counts(s, k, p) /\ b = Held(s, left, k, p)
      /\ k \in 0 .. Len(s) /\ e <= p
  BY DEF Explained, Counts
<1>2. /\ left \in Seq(Byte) /\ Opened(left) /\ Len(left) \in Nat
      /\ Len(left) <= Len(cuts) * FrameSize /\ Len(cuts) \in Nat
  BY LeftIs
<1> HIDE DEF left
<1>3. b \in Seq(Byte) /\ Len(b) = Len(h) + (p - e) /\ Len(h) \in Nat /\ e \in Nat
  BY <1>1, <1>2, HeldType
<1>4. Len(h) <= Len(left)
  <2>1. Len(<<>>) = 0
    OBVIOUS
  <2> QED BY <1>2, <2>1 DEF Before
<1>5. FrameSize \in Nat /\ (MaxDrops + 1) * FrameSize + ReadSize <= MaxBuffer
  BY Room
<1>6. p - e <= FrameSize
  <2>1. CASE e = p
    BY <1>3, <1>5, <2>1
  <2>2. CASE e # p
    BY <1>1, <2>2, RestIsCut
  <2> QED BY <2>1, <2>2
<1>7. MaxDrops \in Nat /\ ReadSize \in Nat /\ MaxBuffer \in Nat /\ n \in Nat
  BY FramingAssumption
<1>8. Len(cuts) * FrameSize <= MaxDrops * FrameSize
  <2> DEFINE l == Len(cuts)
  <2>1. l \in Nat /\ l <= MaxDrops
    BY <1>1, <1>2, <1>7
  <2> HIDE DEF l
  <2> DEFINE y == MaxDrops - l
  <2>2. y \in Nat /\ MaxDrops = l + y
    BY <1>7, <2>1
  <2> HIDE DEF y
  <2>3. (l + y) * FrameSize = l * FrameSize + y * FrameSize /\ y * FrameSize \in Nat
        /\ l * FrameSize \in Nat
    BY <1>5, <2>1, <2>2
  <2>4. l * FrameSize <= (l + y) * FrameSize
    BY <2>3
  <2> QED BY <2>2, <2>4, Zenon DEF l
<1>9. (MaxDrops + 1) * FrameSize = MaxDrops * FrameSize + FrameSize
      /\ MaxDrops * FrameSize \in Nat /\ Len(cuts) * FrameSize \in Nat
  BY <1>2, <1>5, <1>7
<1> DEFINE x == MaxDrops * FrameSize
           z == Len(cuts) * FrameSize
           v == (MaxDrops + 1) * FrameSize
           i == Len(h)
           j == Len(left)
<1>10. /\ i \in Nat /\ j \in Nat /\ z \in Nat /\ x \in Nat /\ i <= j /\ j <= z /\ z <= x
       /\ v = x + FrameSize /\ v + ReadSize <= MaxBuffer /\ Len(b) = i + (p - e)
  BY <1>2, <1>3, <1>4, <1>5, <1>8, <1>9
<1> HIDE DEF x, z, v, i, j, h, e
<1>11. Len(b) + ReadSize <= MaxBuffer
  BY ONLY <1>3, <1>5, <1>6, <1>7, <1>10, p \in Nat
<1> QED BY <1>3, <1>11

\* One frame more on the wire, and nothing else has changed.
LEMMA ExplainedSend ==
  ASSUME NEW s \in Seq(Frames), NEW frame \in Frames,
         NEW p \in Nat, p <= Len(WireOf(s)), NEW b, NEW d, NEW n \in Nat,
         NEW cuts \in Seq(Cuts), NEW k \in Nat, Explained(s, p, b, d, n, cuts, k)
  PROVE  /\ p <= Len(WireOf(Append(s, frame)))
         /\ Explained(Append(s, frame), p, b, d, n, cuts, k)
<1> DEFINE t == Append(s, frame)
           left == FlattenSeq(cuts)
           w == WireOf(s)
           f == PackFrame(frame)
           e == EndIn(s, k)
<1>1. /\ Len(cuts) <= n /\ (n = 0 <=> cuts = <<>>) /\ Counts(s, k, p) /\ b = Held(s, left, k, p)
      /\ (Harmless(left) => d = Got(s, left, k))
      /\ k \in 0 .. Len(s) /\ e <= p
  BY DEF Explained, Counts
<1>2. w \in Seq(Byte) /\ Len(w) \in Nat /\ f \in Seq(Byte) /\ Len(f) \in Nat /\ e \in Nat
      /\ Len(s) \in Nat
  BY <1>1, EndsIs, PackFrameIs, LenProperties
<1>3. WireOf(t) = w \o f /\ EndIn(t, k) = e
  BY <1>1, WireGrows
<1>4. Len(w \o f) = Len(w) + Len(f)
  BY <1>2, ConcatProperties
<1> HIDE DEF left
<1>5. Counts(t, k, p)
  BY <1>1, CountKeeps
<1>6. Held(t, left, k, p) = Held(s, left, k, p)
  <2> HIDE DEF w, f, e, t
  <2>1. Part(w \o f, e, p) = Part(w, e, p)
    BY <1>1, <1>2, PartOfFront DEF w
  <2> QED BY <1>3, <2>1, Zenon DEF Held, w, e
<1>7. Got(t, left, k) = Got(s, left, k)
  <2> DEFINE i == First(left) - 1
             one == <<frame>>
  <2>1. i \in Nat /\ i + 1 = First(left) /\ First(left) \in Nat
    BY DEF First
  <2>2. one \in Seq(Frames) /\ t = s \o one
    BY AppendProperties
  <2> HIDE DEF i, t, one
  <2>3. CASE i <= k
    <3>1. Part(s \o one, i, k) = Part(s, i, k)
      BY <1>1, <1>2, <2>1, <2>2, <2>3, PartOfFront
    <3> QED BY <2>1, <2>2, <3>1, Zenon DEF Got, Part
  <2>4. CASE ~(i <= k)
    <3>1. First(left) > k
      BY <2>1, <2>4
    <3> QED BY <2>1, <3>1, SubSeqEmpty DEF Got
  <2> QED BY <2>3, <2>4
<1>8. p <= Len(WireOf(t))
  BY <1>2, <1>3, <1>4
<1> HIDE DEF t
<1>9. Explained(t, p, b, d, n, cuts, k)
  BY <1>1, <1>5, <1>6, <1>7 DEF Explained, left
<1> QED BY <1>8, <1>9 DEF t

\* Whatever bytes one recv returns.
LEMMA ExplainedReceive ==
  ASSUME NEW s \in Seq(Frames), NEW p \in Nat, NEW r \in Nat, p <= r, r <= Len(WireOf(s)),
         r - p <= ReadSize, NEW b, NEW d \in Seq(UnpackedFrame), NEW n \in 0 .. MaxDrops,
         NEW cuts \in Seq(Cuts), NEW k \in Nat, Explained(s, p, b, d, n, cuts, k)
  PROVE  LET result == Extract(AppendBytes(b, Part(WireOf(s), p, r)), d)
         IN  /\ result.frames \in Seq(UnpackedFrame)
             /\ \E m \in Nat : Explained(s, r, result.buffer, result.frames, n, cuts, m)
<1> DEFINE left == FlattenSeq(cuts)
           w == WireOf(s)
           chunk == Part(w, p, r)
           result == Extract(AppendBytes(b, chunk), d)
<1>1. /\ Len(cuts) <= n /\ (n = 0 <=> cuts = <<>>) /\ Counts(s, k, p) /\ b = Held(s, left, k, p)
      /\ (Harmless(left) => d = Got(s, left, k))
      /\ k \in 0 .. Len(s) /\ EndIn(s, k) <= p
  BY DEF Explained, Counts
<1>2. left \in Seq(Byte) /\ Opened(left)
  BY LeftIs
<1>3. w \in Seq(Byte) /\ Len(w) \in Nat /\ p <= Len(w) /\ EndIn(s, k) \in Nat
  <2>1. Len(w) \in Nat /\ w \in Seq(Byte) /\ EndIn(s, k) \in Nat
    BY <1>1, EndsIs, LenProperties
  <2> QED BY <2>1
<1>4. b \in Seq(Byte) /\ Len(b) + ReadSize <= MaxBuffer
  BY <1>3, ExplainedFits
<1> HIDE DEF left
<1>5. AppendBytes(b, chunk) = Held(s, left, k, r)
  <2>1. chunk \in Seq(Byte) /\ Len(chunk) = r - p
    <3>1. w \in Seq(Byte) /\ p \in Nat /\ r \in Nat /\ p <= r /\ r <= Len(w)
      BY <1>3
    <3> HIDE DEF w
    <3> QED BY ONLY <3>1, PartAt, Zenon
  <2>2. b \o chunk = Held(s, left, k, r)
    BY <1>1, <1>2, HeldMore
  <2> HIDE DEF chunk
  <2>3. ~(Len(b) + Len(chunk) > MaxBuffer)
    <3>1. Len(b) \in Nat /\ ReadSize \in Nat /\ MaxBuffer \in Nat
      BY <1>4, LenProperties, FramingAssumption
    <3> QED BY <1>4, <2>1, <3>1
  <2> QED BY <2>2, <2>3, Zenon DEF AppendBytes
<1>6. PICK m \in 0 .. Len(s) : Counts(s, m, r)
  BY CountExists
<1>7. m \in Nat /\ k <= m
  <2>1. k <= m
    BY <1>1, <1>6, CountGrows
  <2>2. Len(s) \in Nat
    BY LenProperties
  <2> QED BY <2>1, <2>2
<1> DEFINE x == Extract(Held(s, left, k, r), d)
<1>8. /\ x.buffer = Held(s, left, m, r)
      /\ x.frames \in Seq(UnpackedFrame)
      /\ Harmless(left) /\ d = Got(s, left, k) => x.frames = Got(s, left, m)
  <2>1. EndIn(s, k) <= r
    BY <1>1, <1>3
  <2> QED BY <1>2, <1>6, <1>7, <2>1, Extraction
<1>9. result = x
  BY <1>5, Zenon
<1> HIDE DEF result, x
<1>10. Explained(s, r, result.buffer, result.frames, n, cuts, m)
  BY <1>1, <1>6, <1>8, <1>9 DEF Explained, left
<1> QED BY <1>7, <1>8, <1>9, <1>10 DEF result, chunk, w

-----------------------------------------------------------------------------
(* The steps *)

LEMMA WireIs == Wire = WireOf(sent)
BY Zenon DEF Wire, WireOf

LEMMA InitIInv == Init => IInv
<1> SUFFICES ASSUME Init PROVE IInv
  OBVIOUS
<1>1. sent = <<>> /\ position = 0 /\ buffer = <<>> /\ delivered = <<>> /\ stale = 0
  BY DEF Init
<1>2. <<>> \in Seq(Frames) /\ <<>> \in Seq(Cuts) /\ <<>> \in Seq(UnpackedFrame) /\ Len(<<>>) = 0
  OBVIOUS
<1>3. Explained(<<>>, 0, <<>>, <<>>, 0, <<>>, 0)
  <2> DEFINE none == <<>>
             zero == 0
  <2>0. none \in Seq(Cuts) /\ zero \in Nat /\ Len(none) <= zero /\ (zero = 0 <=> none = <<>>)
    BY <1>2
  <2> HIDE DEF none, zero
  <2>1. Explained(<<>>, 0, FlattenSeq(none), <<>>, zero, none, 0)
    BY <2>0, ExplainedFresh
  <2> USE DEF none, zero
  <2> QED BY <2>1, FlattenNothing
<1>4. Explained(sent, position, buffer, delivered, stale, <<>>, 0)
  BY <1>1, <1>3
<1>5. 0 \in 0 .. Len(WireOf(sent)) /\ 0 \in 0 .. MaxDrops
  <2>1. WireOf(sent) \in Seq(Byte)
    BY <1>1, <1>2, EndsIs
  <2> QED BY <2>1, LenProperties, FramingAssumption
<1> QED BY <1>1, <1>2, <1>4, <1>5 DEF IInv

LEMMA NextIInv == IInv /\ [Next]_vars => IInv'
<1> SUFFICES ASSUME IInv, [Next]_vars PROVE IInv'
  OBVIOUS
<1>1. /\ sent \in Seq(Frames) /\ position \in 0 .. Len(WireOf(sent))
      /\ delivered \in Seq(UnpackedFrame) /\ stale \in 0 .. MaxDrops
  BY DEF IInv
<1>2. PICK cuts \in Seq(Cuts) : \E k \in Nat :
          Explained(sent, position, buffer, delivered, stale, cuts, k)
  BY DEF IInv
<1>3. PICK k \in Nat : Explained(sent, position, buffer, delivered, stale, cuts, k)
  BY <1>2
<1>4. /\ Len(WireOf(sent)) \in Nat /\ position \in Nat /\ position <= Len(WireOf(sent))
      /\ stale \in Nat /\ MaxDrops \in Nat
  <2>1. WireOf(sent) \in Seq(Byte)
    BY <1>1, EndsIs
  <2> QED BY <1>1, <2>1, LenProperties, FramingAssumption
<1>5. ASSUME NEW frame \in Frames, Send(frame) PROVE IInv'
  <2>1. /\ sent' = Append(sent, frame) /\ position' = position /\ buffer' = buffer
        /\ delivered' = delivered /\ stale' = stale
    BY <1>5 DEF Send
  <2> DEFINE t == Append(sent, frame)
  <2>2. t \in Seq(Frames)
    BY <1>1, AppendProperties
  <2>3. position <= Len(WireOf(t)) /\ Explained(t, position, buffer, delivered, stale, cuts, k)
    BY <1>1, <1>3, <1>4, ExplainedSend
  <2> HIDE DEF t
  <2>4. position \in 0 .. Len(WireOf(t))
    <3>1. Len(WireOf(t)) \in Nat
      BY <2>2, EndsIs, LenProperties
    <3> QED BY <1>4, <2>3, <3>1
  <2>5. sent' = t
    BY <2>1 DEF t
  <2>6. Explained(sent', position', buffer', delivered', stale', cuts, k)
    BY <2>1, <2>3, <2>5
  <2>7. sent' \in Seq(Frames) /\ position' \in 0 .. Len(WireOf(sent'))
        /\ delivered' \in Seq(UnpackedFrame) /\ stale' \in 0 .. MaxDrops
    BY <1>1, <2>1, <2>2, <2>4, <2>5
  <2> QED BY <2>6, <2>7 DEF IInv
<1>6. CASE Receive
  <2>1. PICK n \in 1 .. ReadSize :
            /\ position + n <= Len(Wire)
            /\ LET chunk == SubSeq(Wire, position + 1, position + n)
                   result == Extract(AppendBytes(buffer, chunk), delivered)
               IN  buffer' = result.buffer /\ delivered' = result.frames
            /\ position' = position + n
            /\ UNCHANGED <<sent, stale>>
    BY <1>6 DEF Receive
  <2> DEFINE r == position + n
             w == WireOf(sent)
             result == Extract(AppendBytes(buffer, Part(w, position, r)), delivered)
  <2>2. r \in Nat /\ position <= r /\ r <= Len(w) /\ r - position <= ReadSize
    <3>1. ReadSize \in Nat
      BY FramingAssumption
    <3> QED BY <1>4, <2>1, <3>1, WireIs
  <2>3. buffer' = result.buffer /\ delivered' = result.frames
    BY <2>1, WireIs DEF Part
  <2>4. position' = r /\ sent' = sent /\ stale' = stale
    BY <2>1
  <2> HIDE DEF r
  <2>5. result.frames \in Seq(UnpackedFrame)
        /\ \E m \in Nat : Explained(sent, r, result.buffer, result.frames, stale, cuts, m)
    BY <1>1, <1>3, <1>4, <2>2, ExplainedReceive
  <2> HIDE DEF result, w
  <2>6. PICK m \in Nat : Explained(sent, r, result.buffer, result.frames, stale, cuts, m)
    BY <2>5
  <2>7. Explained(sent', position', buffer', delivered', stale', cuts, m)
    BY <2>3, <2>4, <2>6
  <2>8. r \in 0 .. Len(WireOf(sent))
    BY <1>4, <2>2 DEF w
  <2>9. sent' \in Seq(Frames) /\ position' \in 0 .. Len(WireOf(sent'))
        /\ delivered' \in Seq(UnpackedFrame) /\ stale' \in 0 .. MaxDrops
    BY <1>1, <2>3, <2>4, <2>5, <2>8
  <2> QED BY <2>7, <2>9 DEF IInv
<1>7. ASSUME NEW more \in Seq(Cuts), NEW n \in 0 .. MaxDrops,
             Len(more) <= n, n = 0 <=> more = <<>>,
             NewSession, buffer' = FlattenSeq(more), stale' = n
      PROVE  IInv'
  <2>1. sent' = <<>> /\ position' = 0 /\ delivered' = <<>>
    BY <1>7 DEF NewSession
  <2>2. n \in Nat
    BY <1>4
  <2>3. Explained(<<>>, 0, FlattenSeq(more), <<>>, n, more, 0)
    BY <1>7, <2>2, ExplainedFresh
  <2>4. Explained(sent', position', buffer', delivered', stale', more, 0)
    BY <1>7, <2>1, <2>3
  <2>5. <<>> \in Seq(Frames) /\ <<>> \in Seq(UnpackedFrame)
    OBVIOUS
  <2>6. 0 \in 0 .. Len(WireOf(<<>>))
    <3>1. WireOf(<<>>) \in Seq(Byte)
      BY <2>5, EndsIs
    <3> QED BY <3>1, LenProperties
  <2>7. sent' \in Seq(Frames) /\ position' \in 0 .. Len(WireOf(sent'))
        /\ delivered' \in Seq(UnpackedFrame) /\ stale' \in 0 .. MaxDrops
    BY <1>7, <2>1, <2>5, <2>6
  <2> QED BY <2>4, <2>7 DEF IInv
<1>8. ASSUME NewSession, buffer' = <<>>, stale' = 0 PROVE IInv'
  <2> DEFINE none == <<>>
             zero == 0
  <2>1. none \in Seq(Cuts) /\ zero \in 0 .. MaxDrops /\ Len(none) <= zero
        /\ (zero = 0 <=> none = <<>>)
    BY <1>4
  <2>2. buffer' = FlattenSeq(none) /\ stale' = zero
    BY <1>8, FlattenNothing
  <2> HIDE DEF none, zero
  <2> QED BY <1>7, <1>8, <2>1, <2>2
<1>9. CASE Lose
  BY <1>8, <1>9 DEF Lose
<1>10. CASE SimulateDisconnect
  <2>1. stale < MaxDrops /\ NewSession /\ buffer' = buffer
        /\ stale' = IF buffer = <<>> THEN 0 ELSE stale + 1
    BY <1>10 DEF SimulateDisconnect
  <2>2. CASE buffer = <<>>
    BY <1>8, <2>1, <2>2
  <2>3. CASE buffer # <<>>
    <3>1. PICK more \in Seq(Cuts) : FlattenSeq(more) = buffer /\ Len(more) <= stale + 1
      BY <1>1, <1>3, <1>4, ExplainedLeaves
    <3>2. more # <<>>
      BY <2>3, <3>1, LeftIs
    <3> DEFINE n == stale + 1
    <3>3. n \in 0 .. MaxDrops /\ n # 0
      BY <1>4, <2>1
    <3>4. stale' = n /\ Len(more) <= n /\ buffer' = FlattenSeq(more)
      BY <2>1, <2>3, <3>1
    <3> HIDE DEF n
    <3> QED BY <1>7, <2>1, <3>2, <3>3, <3>4
  <2> QED BY <2>2, <2>3
<1>11. CASE UNCHANGED vars
  BY <1>1, <1>2, <1>11 DEF IInv, vars
<1> QED BY <1>5, <1>6, <1>9, <1>10, <1>11 DEF Next

-----------------------------------------------------------------------------
(* The properties *)

\* The account of every byte that the StreamFramer holds and of every frame it
\* has delivered is an inductive invariant (main.cpp:298-304; MDRProtocol.cpp:132-157).
THEOREM FramingInvariant == Spec => []IInv
BY InitIInv, NextIInv, PTL DEF Spec

\* The daemon reads no more than has been sent, the StreamFramer holds bytes,
\* and what it delivers has the shape of a frame, whatever the bytes it is made
\* of (MDRProtocol.cpp:159-190).
THEOREM FramingTypeCorrect == Spec => []TypeOK
<1>1. IInv => TypeOK
  <2> SUFFICES ASSUME IInv PROVE TypeOK
    OBVIOUS
  <2>1. /\ sent \in Seq(Frames) /\ position \in 0 .. Len(WireOf(sent))
        /\ delivered \in Seq(UnpackedFrame) /\ stale \in 0 .. MaxDrops
    BY DEF IInv
  <2>2. PICK cuts \in Seq(Cuts) : \E k \in Nat :
            Explained(sent, position, buffer, delivered, stale, cuts, k)
    BY DEF IInv
  <2>3. PICK k \in Nat : Explained(sent, position, buffer, delivered, stale, cuts, k)
    BY <2>2
  <2>4. position \in Nat /\ position <= Len(WireOf(sent))
    <3>1. Len(WireOf(sent)) \in Nat
      BY <2>1, EndsIs, LenProperties
    <3> QED BY <2>1, <3>1
  <2>5. buffer \in Seq(Byte)
    BY <2>1, <2>3, <2>4, ExplainedFits
  <2>6. position \in 0 .. Len(Wire)
    BY <2>1, WireIs, Zenon
  <2> QED BY <2>1, <2>5, <2>6 DEF TypeOK
<1> QED BY <1>1, FramingInvariant, PTL

LEMMA CompleteIs ==
  ASSUME sent \in Seq(Frames), position \in Nat, NEW k, Counts(sent, k, position)
  PROVE  Cardinality(Complete) = k
<1>1. Complete = {i \in DOMAIN sent : EndIn(sent, i) <= position}
  BY Zenon DEF Complete, EndOf, EndIn
<1>2. Cardinality({i \in DOMAIN sent : EndIn(sent, i) <= position}) = k
  BY CountIs
<1> QED BY <1>1, <1>2, Zenon

LEMMA IInvExplains ==
  ASSUME IInv
  PROVE  \E cuts \in Seq(Cuts) :
             LET left == FlattenSeq(cuts)
             IN  /\ Len(cuts) <= stale /\ (stale = 0 <=> cuts = <<>>)
                 /\ Harmless(left) => delivered = Got(sent, left, Cardinality(Complete))
<1>1. sent \in Seq(Frames) /\ position \in 0 .. Len(WireOf(sent))
  BY DEF IInv
<1>2. PICK cuts \in Seq(Cuts) : \E k \in Nat :
          Explained(sent, position, buffer, delivered, stale, cuts, k)
  BY DEF IInv
<1>3. PICK k \in Nat : Explained(sent, position, buffer, delivered, stale, cuts, k)
  BY <1>2
<1>4. position \in Nat
  <2>1. Len(WireOf(sent)) \in Nat
    BY <1>1, EndsIs, LenProperties
  <2> QED BY <1>1, <2>1
<1>5. Counts(sent, k, position)
  BY <1>3 DEF Explained
<1>6. Cardinality(Complete) = k
  BY <1>1, <1>4, <1>5, CompleteIs
<1> DEFINE left == FlattenSeq(cuts)
<1>7. /\ Len(cuts) <= stale /\ (stale = 0 <=> cuts = <<>>)
      /\ Harmless(left) => delivered = Got(sent, left, k)
  BY <1>3 DEF Explained
<1> HIDE DEF left
<1>8. Harmless(left) => delivered = Got(sent, left, Cardinality(Complete))
  BY <1>6, <1>7, Zenon
<1> QED BY <1>7, <1>8 DEF left

\* However the bytes are cut into chunks, and whatever the frames hold, the
\* daemon has received exactly the frames that have arrived in full, in their
\* order (MDRProtocol.cpp:65-190; main.cpp:298-304).
THEOREM FramingLossless == Spec => []Lossless
<1>1. IInv => Lossless
  <2> SUFFICES ASSUME IInv, stale = 0
               PROVE  delivered = SubSeq(sent, 1, Cardinality(Complete))
    BY DEF Lossless
  <2> DEFINE n == Cardinality(Complete)
  <2> HIDE DEF n
  <2>1. PICK cuts \in Seq(Cuts) :
            /\ (stale = 0 <=> cuts = <<>>)
            /\ Harmless(FlattenSeq(cuts)) => delivered = Got(sent, FlattenSeq(cuts), n)
    BY IInvExplains DEF n
  <2>2. FlattenSeq(cuts) = <<>>
    BY <2>1, FlattenNothing
  <2>3. Harmless(<<>>) /\ First(<<>>) = 1
    BY DEF Harmless, First
  <2>4. delivered = Got(sent, <<>>, n)
    BY <2>1, <2>2, <2>3
  <2> QED BY <2>3, <2>4 DEF Got, n
<1> QED BY <1>1, FramingInvariant, PTL

\* After a session that ended in the middle of a frame, the first frame of the
\* next is lost and every later one is received, for frames of which no mixture
\* passes for a frame (MDRProtocol.cpp:132-157, 171-190; main.cpp:512).
THEOREM FramingResynchronises ==
  ASSUME NoAccident
  PROVE  Spec => []Resynchronises
<1>1. IInv => Resynchronises
  <2> SUFFICES ASSUME IInv, stale > 0
               PROVE  delivered = SubSeq(sent, 2, Cardinality(Complete))
    BY DEF Resynchronises
  <2> DEFINE n == Cardinality(Complete)
  <2> HIDE DEF n
  <2>1. PICK cuts \in Seq(Cuts) :
            /\ Len(cuts) <= stale /\ (stale = 0 <=> cuts = <<>>)
            /\ Harmless(FlattenSeq(cuts)) => delivered = Got(sent, FlattenSeq(cuts), n)
    BY IInvExplains DEF n
  <2> DEFINE left == FlattenSeq(cuts)
             l == Len(cuts)
  <2>2. stale \in Nat /\ stale <= MaxDrops /\ MaxDrops \in Nat
    BY FramingAssumption DEF IInv
  <2>3. cuts # <<>> /\ l \in Nat /\ l # 0
    BY <2>1, <2>2, LenProperties, EmptySeq
  <2>4. left # <<>>
    BY <2>3, LeftIs
  <2>5. l \in 1 .. MaxDrops
    BY <2>1, <2>2, <2>3
  <2>6. cuts \in [1 .. l -> Cuts]
    BY LenProperties
  <2>7. left \in Leftovers
    <3> HIDE DEF l
    <3>1. cuts \in UNION {[1 .. x -> Cuts] : x \in 1 .. MaxDrops}
      BY <2>5, <2>6, Zenon
    <3> QED BY <3>1, Zenon DEF Leftovers
  <2> HIDE DEF left
  <2>8. Harmless(left)
    BY <2>7, NoAccident, Zenon DEF Harmless, NoAccident
  <2>9. First(left) = 2
    BY <2>4 DEF First
  <2>10. delivered = Got(sent, left, n)
    BY <2>1, <2>8 DEF left
  <2> QED BY <2>9, <2>10 DEF Got, n
<1> QED BY <1>1, FramingInvariant, PTL

=============================================================================
