---------------------------- MODULE SequenceFacts ----------------------------
(***************************************************************************)
(* What the proofs about sequences rest on.  Induction over the numbers,   *)
(* in the form of a set that is closed under successors: the smallest      *)
(* number outside it would be a minimal element of a well-founded order,   *)
(* and the strict subsets of finite sets are one.  By it, the recursive    *)
(* function inside FlattenSeq exists, and gives what its equations say.    *)
(***************************************************************************)
EXTENDS Integers, Sequences, FiniteSets, SequencesExt, TLAPS,
        FiniteSetTheorems, SequenceTheorems, WellFoundedInduction

\* A set of numbers has a smallest one.
LEMMA Smallest ==
    ASSUME NEW T, T \subseteq Nat, T # {}
    PROVE  \E m \in T : \A k \in T : m <= k
<1> DEFINE upTo == [m \in Nat |-> 1 .. m]
           F == {upTo[m] : m \in T}
<1>1. \A m \in Nat : IsFiniteSet(1 .. m) /\ 1 .. m \subseteq Nat
  BY FS_Interval
<1>2. F \subseteq FiniteSubsetsOf(Nat) /\ F # {}
  BY <1>1 DEF FiniteSubsetsOf
<1>3. PICK A \in F : \A B \in F : ~(<<B, A>> \in StrictSubsetOrdering(Nat))
  <2> HIDE DEF F
  <2> QED BY <1>2, FS_StrictSubsetOrderingWellFounded, WFMin
<1>4. PICK m \in T : A = 1 .. m
  BY <1>3
<1>5. ASSUME NEW k \in T, k < m  PROVE FALSE
  <2>1. k \in Nat /\ m \in Nat
    OBVIOUS
  <2>2. 1 .. k \in F
    BY <2>1
  <2>3. 1 .. k \subseteq 1 .. m /\ m \in 1 .. m /\ m \notin 1 .. k
    BY <2>1, <1>5
  <2>4. <<1 .. k, 1 .. m>> \in StrictSubsetOrdering(Nat)
    BY <2>3, <2>1 DEF StrictSubsetOrdering
  <2> QED
    BY <1>3, <1>4, <2>2, <2>4
<1> QED
  BY <1>5

\* Induction, over the numbers of a set: S has a, and with n also n + 1.
LEMMA Counting ==
    ASSUME NEW S, NEW a \in Nat, a \in S, \A n \in Nat : n >= a /\ n \in S => n + 1 \in S
    PROVE  \A n \in Nat : n >= a => n \in S
<1> DEFINE T == {n \in Nat : n >= a /\ n \notin S}
<1> SUFFICES ASSUME T # {}  PROVE FALSE
  OBVIOUS
<1>1. PICK m \in T : \A k \in T : m <= k
  BY Smallest
<1>2. m - 1 \in Nat /\ m - 1 >= a
  BY <1>1
<1>3. m - 1 \in S
  BY <1>1, <1>2
<1> QED
  BY <1>1, <1>2, <1>3

\* A finite set as a sequence, each element once.
LEMMA Listing ==
    ASSUME NEW S, IsFiniteSet(S)
    PROVE  /\ SetToSeq(S) \in Seq(S)
           /\ ToSet(SetToSeq(S)) = S
           /\ \A i, j \in DOMAIN SetToSeq(S) : SetToSeq(S)[i] = SetToSeq(S)[j] => i = j
<1> DEFINE n == Cardinality(S)
<1>1. n \in Nat /\ ExistsBijection(1 .. n, S)
  BY FS_CardinalityType
<1>2. \E f \in [1 .. n -> S] : IsInjective(f)
  BY <1>1 DEF ExistsBijection, Bijection, Injection
<1>3. SetToSeq(S) \in [1 .. n -> S] /\ IsInjective(SetToSeq(S))
  BY <1>2 DEF SetToSeq
<1>4. SetToSeq(S) \in Injection(1 .. n, S)
  BY <1>3 DEF Injection
<1>5. Cardinality(1 .. n) = n
  BY <1>1, FS_Interval
<1>6. SetToSeq(S) \in Surjection(1 .. n, S)
  BY <1>4, <1>5, FS_Injection
<1>7. SetToSeq(S) \in Seq(S)
  BY <1>1, <1>3, SeqDef
<1>8. ToSet(SetToSeq(S)) = S
  BY <1>3, <1>6 DEF Surjection, ToSet
<1> QED
  BY <1>3, <1>7, <1>8 DEF IsInjective

LEMMA Division ==
    ASSUME NEW a \in Nat, NEW d \in Nat, d > 0
    PROVE  /\ a \div d \in Nat
           /\ d * (a \div d) <= a
           /\ a < d * (a \div d) + d
  OBVIOUS

-----------------------------------------------------------------------------
(***************************************************************************)
(* Finite sets and sequences.                                              *)
(***************************************************************************)
LEMMA ImageFinite ==
    ASSUME NEW S, IsFiniteSet(S), NEW f
    PROVE  IsFiniteSet({f[x] : x \in S})
<1> DEFINE T == {f[x] : x \in S}
           g == [x \in S |-> f[x]]
<1>1. g \in Surjection(S, T)
  BY DEF Surjection
<1> QED
  BY <1>1, FS_Surjection

LEMMA SelfSeq ==
    ASSUME NEW S, NEW s \in Seq(S)
    PROVE  s \in Seq(ToSet(s)) /\ IsFiniteSet(ToSet(s)) /\ DOMAIN s = 1 .. Len(s) /\ Len(s) \in Nat
<1>1. Range(s) = ToSet(s)
  BY DEF Range, ToSet
<1>2. DOMAIN s = 1 .. Len(s) /\ Len(s) \in Nat
  OBVIOUS
<1>3. IsFiniteSet({s[x] : x \in 1 .. Len(s)})
  <2>1. IsFiniteSet(1 .. Len(s))
    BY <1>2, FS_Interval
  <2> QED
    BY <2>1, ImageFinite
<1> QED
  BY <1>1, <1>2, <1>3, SeqOfRange DEF ToSet

LEMMA TailOf ==
    ASSUME NEW s, s \in Seq(ToSet(s)), s # <<>>
    PROVE  /\ Tail(s) \in Seq(ToSet(Tail(s)))
           /\ Head(s) \in ToSet(s)
           /\ ToSet(s) = {Head(s)} \cup ToSet(Tail(s))
<1>1. /\ Head(s) = s[1] /\ Tail(s) \in Seq(ToSet(s)) /\ Len(Tail(s)) = Len(s) - 1
      /\ \A i \in 1 .. Len(Tail(s)) : Tail(s)[i] = s[i + 1]
      /\ Len(s) \in Nat /\ Len(s) > 0
  BY HeadTailProperties
<1>2. DOMAIN s = 1 .. Len(s) /\ DOMAIN Tail(s) = 1 .. Len(Tail(s))
  BY <1>1, LenProperties
<1>3. ASSUME NEW x \in ToSet(s)
      PROVE  x = Head(s) \/ x \in ToSet(Tail(s))
  <2>1. PICK i \in 1 .. Len(s) : x = s[i]
    BY <1>2 DEF ToSet
  <2>2. CASE i = 1
    BY <1>1, <2>1, <2>2
  <2>3. CASE i # 1
    <3>1. i - 1 \in 1 .. Len(Tail(s)) /\ (i - 1) + 1 = i
      BY <1>1, <2>3
    <3>2. Tail(s)[i - 1] = x
      BY <1>1, <2>1, <3>1
    <3> QED
      BY <1>2, <3>1, <3>2 DEF ToSet
  <2> QED
    BY <2>2, <2>3
<1>4. ASSUME NEW x \in ToSet(Tail(s))
      PROVE  x \in ToSet(s)
  <2>1. PICK i \in 1 .. Len(Tail(s)) : x = Tail(s)[i]
    BY <1>2 DEF ToSet
  <2>2. i + 1 \in 1 .. Len(s) /\ x = s[i + 1]
    BY <1>1, <2>1
  <2> QED
    BY <1>2, <2>2 DEF ToSet
<1>5. Head(s) \in ToSet(s)
  BY <1>1, <1>2 DEF ToSet
<1> QED
  BY <1>1, <1>3, <1>4, <1>5, SelfSeq

LEMMA ElementsIn ==
    ASSUME NEW S, NEW s \in Seq(S)
    PROVE  ToSet(s) \subseteq S
  BY SelfSeq, ElementOfSeq DEF ToSet

LEMMA Joined ==
    ASSUME NEW S, NEW s \in Seq(S), NEW t \in Seq(S)
    PROVE  /\ DOMAIN (s \o t) = 1 .. Len(s) + Len(t)
           /\ \A i \in 1 .. Len(s) + Len(t) : (s \o t)[i] = IF i <= Len(s) THEN s[i] ELSE t[i - Len(s)]
<1>1. s \o t \in Seq(S) /\ Len(s \o t) = Len(s) + Len(t)
  BY ConcatProperties
<1>2. DOMAIN (s \o t) = 1 .. Len(s \o t)
  BY <1>1, LenProperties
<1> QED
  BY <1>1, <1>2, ConcatProperties, Zenon

-----------------------------------------------------------------------------
(***************************************************************************)
(* Concatenating sequences: FlattenSeq.                                    *)
(***************************************************************************)
\* What concatenating the first i sequences gives.
IsFlattening(ss, f) ==
    f = [i \in 1 .. Len(ss) |-> IF i = 1 THEN ss[i] ELSE f[i - 1] \o ss[i]]

LEMMA FlattenDef ==
    ASSUME NEW ss, Len(ss) # 0
    PROVE  FlattenSeq(ss) = (CHOOSE f : IsFlattening(ss, f))[Len(ss)]
  BY DEF FlattenSeq, IsFlattening

UpTo(S, ss, f, n) ==
    /\ f \in [1 .. n -> Seq(S)]
    /\ \A i \in 1 .. n : f[i] = IF i = 1 THEN ss[i] ELSE f[i - 1] \o ss[i]

LEMMA FlatteningExists ==
    ASSUME NEW S, NEW ss \in Seq(Seq(S))
    PROVE  \E f : UpTo(S, ss, f, Len(ss))
<1> DEFINE N == {n \in Nat : n <= Len(ss) => \E f : UpTo(S, ss, f, n)}
<1>0. Len(ss) \in Nat
  OBVIOUS
<1>1. 0 \in N
  <2>1. <<>> \in [1 .. 0 -> Seq(S)]
    OBVIOUS
  <2>2. UpTo(S, ss, <<>>, 0)
    BY <2>1 DEF UpTo
  <2> QED BY <2>2
<1>2. ASSUME NEW n \in Nat, n >= 0 /\ n \in N  PROVE n + 1 \in N
  <2> SUFFICES ASSUME n + 1 <= Len(ss)  PROVE \E f : UpTo(S, ss, f, n + 1)
    OBVIOUS
  <2>1. PICK f : UpTo(S, ss, f, n)
    BY <1>0, <1>2
  <2> DEFINE g == [i \in 1 .. n + 1 |-> IF i = n + 1 THEN (IF n = 0 THEN ss[1] ELSE f[n] \o ss[n + 1]) ELSE f[i]]
  <2>2. \A i \in 1 .. n : g[i] = f[i] /\ i # n + 1 /\ i \in 1 .. n + 1
    OBVIOUS
  <2>3. g[n + 1] = IF n = 0 THEN ss[1] ELSE f[n] \o ss[n + 1]
    OBVIOUS
  <2>4. ss[n + 1] \in Seq(S) /\ (n # 0 => f[n] \in Seq(S))
    BY <2>1, <1>0 DEF UpTo
  <2>5. g[n + 1] \in Seq(S)
    BY <2>3, <2>4
  <2>6. g \in [1 .. n + 1 -> Seq(S)]
    <3> SUFFICES ASSUME NEW i \in 1 .. n + 1  PROVE g[i] \in Seq(S)
      OBVIOUS
    <3>1. i = n + 1 \/ i \in 1 .. n
      OBVIOUS
    <3> QED BY <2>1, <2>2, <2>5, <3>1 DEF UpTo
  <2>7. ASSUME NEW i \in 1 .. n + 1
        PROVE  g[i] = IF i = 1 THEN ss[i] ELSE g[i - 1] \o ss[i]
    <3>1. CASE i = n + 1
      <4>1. n # 0 => n \in 1 .. n /\ g[n] = f[n]
        BY <2>2
      <4> QED BY <2>3, <3>1, <4>1
    <3>2. CASE i \in 1 .. n
      <4>1. i # 1 => i - 1 \in 1 .. n
        BY <3>2
      <4>2. g[i] = f[i] /\ (i # 1 => g[i - 1] = f[i - 1])
        BY <2>2, <3>2, <4>1
      <4>3. f[i] = IF i = 1 THEN ss[i] ELSE f[i - 1] \o ss[i]
        BY <2>1, <3>2 DEF UpTo
      <4> QED BY <4>2, <4>3
    <3> QED BY <3>1, <3>2
  <2> QED
    BY <2>6, <2>7 DEF UpTo
<1> HIDE DEF N
<1>3. Len(ss) \in N
  BY <1>0, <1>1, <1>2, Counting
<1> QED
  BY <1>3 DEF N

LEMMA Flattening ==
    ASSUME NEW S, NEW ss \in Seq(Seq(S)), ss # <<>>
    PROVE  \E f : UpTo(S, ss, f, Len(ss)) /\ FlattenSeq(ss) = f[Len(ss)]
<1>1. PICK h : UpTo(S, ss, h, Len(ss))
  BY FlatteningExists
<1>2. IsFlattening(ss, h)
  BY <1>1 DEF UpTo, IsFlattening
<1> DEFINE f == CHOOSE g : IsFlattening(ss, g)
<1>3. IsFlattening(ss, f)
  BY <1>2
<1>4. Len(ss) \in Nat /\ Len(ss) # 0
  OBVIOUS
<1>5. /\ DOMAIN f = 1 .. Len(ss) 
      /\ f = [i \in 1 .. Len(ss) |-> f[i]]
      /\ \A i \in 1 .. Len(ss) : f[i] = IF i = 1 THEN ss[i] ELSE f[i - 1] \o ss[i]
  <2> HIDE DEF f
  <2> QED BY <1>3 DEF IsFlattening
<1> HIDE DEF f
<1> DEFINE N == {n \in Nat : n <= Len(ss) => f[n] = h[n]}
<1>6. 1 \in N
  <2>1. 1 \in 1 .. Len(ss)
    BY <1>4
  <2>2. f[1] = ss[1] /\ h[1] = ss[1]
    BY <1>1, <1>5, <2>1 DEF UpTo
  <2> QED
    BY <2>2
<1>7. ASSUME NEW n \in Nat, n >= 1 /\ n \in N  PROVE n + 1 \in N
  <2> SUFFICES ASSUME n + 1 <= Len(ss)  PROVE f[n + 1] = h[n + 1]
    OBVIOUS
  <2>1. f[n] = h[n]
    BY <1>4, <1>7
  <2>2. n + 1 \in 1 .. Len(ss) /\ n + 1 # 1 /\ (n + 1) - 1 = n
    BY <1>4, <1>7
  <2>3. f[n + 1] = f[n] \o ss[n + 1] /\ h[n + 1] = h[n] \o ss[n + 1]
    BY <1>1, <1>5, <2>2 DEF UpTo
  <2> QED
    BY <2>1, <2>3
<1>8. \A n \in Nat : n >= 1 => n \in N
  <2> HIDE DEF N
  <2> QED BY <1>6, <1>7, Counting
<1>9. \A i \in 1 .. Len(ss) : f[i] = h[i]
  BY <1>8
<1>10. UpTo(S, ss, f, Len(ss))
  BY <1>1, <1>5, <1>9 DEF UpTo
<1>11. FlattenSeq(ss) = f[Len(ss)]
  BY <1>4, FlattenDef DEF f
<1> QED
  BY <1>10, <1>11

\* Where the elements of the first n sequences are in what they are concatenated to.
PlacedBy(ss, off, n, F) ==
    /\ \A i \in 1 .. n, k \in Nat : 1 <= k /\ k <= Len(ss[i]) =>
          off[i] + k \in 1 .. Len(F) /\ F[off[i] + k] = ss[i][k]
    /\ \A p \in 1 .. Len(F) : \E i \in 1 .. n : \E k \in 1 .. Len(ss[i]) : p = off[i] + k
    /\ \A i, j \in 1 .. n : i < j => off[i] + Len(ss[i]) <= off[j]

LEMMA Places ==
    ASSUME NEW S, NEW ss \in Seq(Seq(S))
    PROVE  /\ FlattenSeq(ss) \in Seq(S)
           /\ \E off \in [1 .. Len(ss) -> Nat] : PlacedBy(ss, off, Len(ss), FlattenSeq(ss))
<1>1. CASE ss = <<>>
  <2>1. FlattenSeq(ss) = <<>> /\ Len(ss) = 0 /\ Len(<<>>) = 0
    BY <1>1 DEF FlattenSeq
  <2>2. <<>> \in [1 .. 0 -> Nat] /\ <<>> \in Seq(S)
    OBVIOUS
  <2>3. PlacedBy(ss, <<>>, Len(ss), FlattenSeq(ss))
    BY <2>1 DEF PlacedBy
  <2> QED
    BY <2>1, <2>2, <2>3
<1>2. CASE ss # <<>>
  <2>1. PICK f : UpTo(S, ss, f, Len(ss)) /\ FlattenSeq(ss) = f[Len(ss)]
    BY <1>2, Flattening
  <2>2. Len(ss) \in Nat /\ Len(ss) # 0
    BY <1>2
  <2>3. \A i \in 1 .. Len(ss) : /\ f[i] \in Seq(S) /\ ss[i] \in Seq(S)
                                /\ Len(f[i]) \in Nat /\ Len(ss[i]) \in Nat
    <3> SUFFICES ASSUME NEW i \in 1 .. Len(ss)
                 PROVE  f[i] \in Seq(S) /\ ss[i] \in Seq(S)
      OBVIOUS
    <3>1. f \in [1 .. Len(ss) -> Seq(S)]
      BY <2>1 DEF UpTo
    <3>2. ss[i] \in Seq(S)
      BY ElementOfSeq
    <3> QED
      BY <3>1, <3>2
  <2> DEFINE off == [i \in 1 .. Len(ss) |-> IF i = 1 THEN 0 ELSE Len(f[i - 1])]
             N == {n \in Nat : n <= Len(ss) =>
                      /\ PlacedBy(ss, off, n, f[n])
                      /\ Len(f[n]) = off[n] + Len(ss[n])}
  <2>4. off \in [1 .. Len(ss) -> Nat]
    <3> SUFFICES ASSUME NEW i \in 1 .. Len(ss)
                 PROVE  (IF i = 1 THEN 0 ELSE Len(f[i - 1])) \in Nat
      OBVIOUS
    <3>1. i # 1 => i - 1 \in 1 .. Len(ss)
      BY <2>2
    <3> QED
      BY <2>3, <3>1
  <2>5. 1 \in N
    <3>1. 1 \in 1 .. Len(ss)
      BY <2>2
    <3>2. off[1] = 0 /\ f[1] = ss[1]
      BY <2>1, <3>1 DEF UpTo
    <3> HIDE DEF off
    <3>3. PlacedBy(ss, off, 1, f[1])
      BY <2>3, <3>1, <3>2 DEF PlacedBy
    <3> QED
      BY <2>3, <3>1, <3>2, <3>3
  <2>6. ASSUME NEW n \in Nat, n >= 1 /\ n \in N  PROVE n + 1 \in N
    <3> SUFFICES ASSUME n + 1 <= Len(ss)
                 PROVE  /\ PlacedBy(ss, off, n + 1, f[n + 1])
                        /\ Len(f[n + 1]) = off[n + 1] + Len(ss[n + 1])
      OBVIOUS
    <3>1. n + 1 \in 1 .. Len(ss) /\ n \in 1 .. Len(ss) /\ (n + 1) - 1 = n /\ n + 1 # 1
      BY <2>2, <2>6
    <3>2. off[n + 1] = Len(f[n])
      BY <3>1
    <3>3. f[n + 1] = f[n] \o ss[n + 1]
      BY <2>1, <3>1 DEF UpTo
    <3>4. PlacedBy(ss, off, n, f[n]) /\ Len(f[n]) = off[n] + Len(ss[n])
      BY <2>2, <2>6
    <3> HIDE DEF off, N
    <3> DEFINE F == f[n + 1]
               L == Len(f[n])
               l == Len(ss[n + 1])
    <3>5. f[n] \in Seq(S) /\ ss[n + 1] \in Seq(S) /\ L \in Nat /\ l \in Nat
      BY <2>3, <3>1
    <3>6. /\ Len(F) = L + l
          /\ \A p \in 1 .. L + l : F[p] = IF p <= L THEN f[n][p] ELSE ss[n + 1][p - L]
      <4> DEFINE G == f[n] \o ss[n + 1]
      <4>1. /\ Len(G) = L + l
            /\ \A p \in 1 .. L + l : G[p] = IF p <= L THEN f[n][p] ELSE ss[n + 1][p - L]
        BY <3>5, ConcatProperties, Zenon
      <4>2. F = G
        BY <3>3
      <4> HIDE DEF F, G
      <4> QED
        BY <4>1, <4>2
    <3>a. off[n + 1] = L /\ L = off[n] + Len(ss[n]) /\ n + 1 \in Nat
      BY <3>2, <3>4
    <3>b. Len(ss[n + 1]) = l
      OBVIOUS
    <3>c. PlacedBy(ss, off, n, f[n])
      BY <3>4
    <3>d. \A i \in 1 .. n, k \in Nat : 1 <= k /\ k <= Len(ss[i]) =>
             off[i] + k \in 1 .. L /\ f[n][off[i] + k] = ss[i][k]
      BY <3>c DEF PlacedBy
    <3>e. \A p \in 1 .. L : \E i \in 1 .. n : \E k \in 1 .. Len(ss[i]) : p = off[i] + k
      BY <3>c DEF PlacedBy
    <3> SUFFICES PlacedBy(ss, off, n + 1, F)
      BY <3>6, <3>a
    <3> HIDE DEF F, L, l
    <3>7. \A i \in 1 .. n + 1 : i \in 1 .. n \/ i = n + 1
      OBVIOUS
    <3>8. \A i \in 1 .. n + 1 : off[i] \in Nat /\ Len(ss[i]) \in Nat
      <4>1. \A i \in 1 .. n + 1 : i \in 1 .. Len(ss)
        BY <2>2, <3>1
      <4> QED
        BY <2>3, <2>4, <4>1
    <3>9. ASSUME NEW i \in 1 .. n + 1, NEW k \in Nat, 1 <= k, k <= Len(ss[i])
          PROVE  off[i] + k \in 1 .. Len(F) /\ F[off[i] + k] = ss[i][k]
      <4>1. CASE i \in 1 .. n
        <5>1. off[i] + k \in 1 .. L /\ f[n][off[i] + k] = ss[i][k]
          BY <3>d, <3>9, <4>1
        <5>2. off[i] + k \in 1 .. L + l /\ off[i] + k <= L
          BY <3>5, <5>1
        <5> QED
          BY <3>6, <5>1, <5>2
      <4>2. CASE i = n + 1
        <5>1. off[i] + k \in 1 .. L + l /\ ~(off[i] + k <= L) /\ (off[i] + k) - L = k
          BY <3>5, <3>9, <3>a, <3>b, <4>2
        <5> QED
          BY <3>6, <4>2, <5>1
      <4> QED
        BY <3>7, <4>1, <4>2
    <3>10. ASSUME NEW p \in 1 .. Len(F)
           PROVE  \E i \in 1 .. n + 1 : \E k \in 1 .. Len(ss[i]) : p = off[i] + k
      <4>1. CASE p <= L
        <5>1. p \in 1 .. L
          BY <3>6, <4>1
        <5>2. PICK i \in 1 .. n : \E k \in 1 .. Len(ss[i]) : p = off[i] + k
          BY <3>e, <5>1
        <5> QED
          BY <5>2
      <4>2. CASE ~(p <= L)
        <5>1. p - L \in 1 .. l /\ p = L + (p - L) /\ n + 1 \in 1 .. n + 1
          BY <3>5, <3>6, <4>2
        <5> QED
          BY <3>a, <3>b, <5>1
      <4> QED
        BY <4>1, <4>2
    <3>11. ASSUME NEW i \in 1 .. n + 1, NEW j \in 1 .. n + 1, i < j
           PROVE  off[i] + Len(ss[i]) <= off[j]
      <4>0. i \in 1 .. n
        BY <3>11
      <4>1. CASE j \in 1 .. n
        BY <3>c, <3>11, <4>0, <4>1 DEF PlacedBy
      <4>2. CASE j = n + 1
        <5>1. CASE i = n
          BY <3>a, <3>8, <4>2, <5>1
        <5>2. CASE i # n
          <6>1. n \in 1 .. n /\ i < n
            BY <2>6, <4>0, <5>2
          <6>2. off[i] + Len(ss[i]) <= off[n]
            BY <3>c, <4>0, <6>1 DEF PlacedBy
          <6>3. n \in 1 .. n + 1
            BY <6>1
          <6>4. /\ off[i] \in Nat /\ Len(ss[i]) \in Nat
                /\ off[n] \in Nat /\ Len(ss[n]) \in Nat
            BY <3>8, <6>3
          <6>5. off[j] = off[n] + Len(ss[n])
            BY <3>a, <4>2
          <6> QED
            BY <6>2, <6>4, <6>5
        <5> QED
          BY <5>1, <5>2
      <4> QED
        BY <3>7, <4>1, <4>2
    <3> QED
      BY <3>9, <3>10, <3>11 DEF PlacedBy
  <2>7. Len(ss) \in N
    <3> HIDE DEF N
    <3>1. \A n \in Nat : n >= 1 => n \in N
      BY <2>5, <2>6, Counting
    <3> QED
      BY <2>2, <3>1
  <2>8. PlacedBy(ss, off, Len(ss), f[Len(ss)])
    BY <2>7
  <2> HIDE DEF off
  <2> QED
    BY <2>1, <2>2, <2>3, <2>4, <2>8
<1> QED
  BY <1>1, <1>2

LEMMA Flattened ==
    ASSUME NEW S, NEW ss \in Seq(Seq(S))
    PROVE  ToSet(FlattenSeq(ss)) = UNION {ToSet(t) : t \in ToSet(ss)}
<1> DEFINE F == FlattenSeq(ss)
<1>1. F \in Seq(S)
  BY Places
<1>2. PICK off \in [1 .. Len(ss) -> Nat] : PlacedBy(ss, off, Len(ss), F)
  BY Places
<1>3. /\ Len(F) \in Nat /\ DOMAIN F = 1 .. Len(F)
      /\ Len(ss) \in Nat /\ DOMAIN ss = 1 .. Len(ss)
      /\ \A i \in 1 .. Len(ss) : DOMAIN ss[i] = 1 .. Len(ss[i]) /\ Len(ss[i]) \in Nat
  BY <1>1
<1> HIDE DEF F
<1>4. ASSUME NEW x \in ToSet(F)  PROVE \E i \in DOMAIN ss : x \in ToSet(ss[i])
  <2>1. PICK p \in 1 .. Len(F) : x = F[p]
    BY <1>3 DEF ToSet
  <2>2. PICK i \in 1 .. Len(ss) : \E k \in 1 .. Len(ss[i]) : p = off[i] + k
    BY <1>2, <2>1 DEF PlacedBy
  <2>4. PICK k \in 1 .. Len(ss[i]) : p = off[i] + k
    BY <2>2
  <2>3. F[off[i] + k] = ss[i][k]
    BY <1>2, <1>3 DEF PlacedBy
  <2> QED
    BY <1>3, <2>1, <2>4, <2>3 DEF ToSet
<1>5. ASSUME NEW i \in DOMAIN ss, NEW x \in ToSet(ss[i])  PROVE x \in ToSet(F)
  <2>1. PICK k \in 1 .. Len(ss[i]) : x = ss[i][k]
    BY <1>3 DEF ToSet
  <2>2. off[i] + k \in 1 .. Len(F) /\ F[off[i] + k] = ss[i][k]
    BY <1>2, <1>3 DEF PlacedBy
  <2> QED
    BY <1>3, <2>1, <2>2 DEF ToSet
<1>6. ToSet(F) = UNION {ToSet(ss[i]) : i \in DOMAIN ss}
  BY <1>4, <1>5
<1>7. \A x : (\E t \in ToSet(ss) : x \in ToSet(t)) <=> (\E i \in DOMAIN ss : x \in ToSet(ss[i]))
  <2> DEFINE In(x, t) == x \in ToSet(t)
  <2> HIDE DEF In
  <2>1. \A x : (\E t \in ToSet(ss) : In(x, t)) <=> (\E i \in DOMAIN ss : In(x, ss[i]))
    BY DEF ToSet
  <2> QED
    BY <2>1 DEF In
<1> QED
  BY <1>6, <1>7 DEF F

\* No two places are one.
Disjoint(ss, off) ==
    \A i, j \in 1 .. Len(ss) : \A k \in 1 .. Len(ss[i]), l \in 1 .. Len(ss[j]) :
       off[i] + k = off[j] + l => i = j /\ k = l

LEMMA OnePlace ==
    ASSUME NEW S, NEW ss \in Seq(Seq(S)), NEW F, NEW off \in [1 .. Len(ss) -> Nat],
           PlacedBy(ss, off, Len(ss), F)
    PROVE  Disjoint(ss, off)
<1> SUFFICES ASSUME NEW i \in 1 .. Len(ss), NEW j \in 1 .. Len(ss),
                    NEW k \in 1 .. Len(ss[i]), NEW l \in 1 .. Len(ss[j]), off[i] + k = off[j] + l
             PROVE  i = j /\ k = l
  BY DEF Disjoint
<1>1. off[i] \in Nat /\ off[j] \in Nat /\ Len(ss[i]) \in Nat /\ Len(ss[j]) \in Nat
  BY ElementOfSeq, LenProperties
<1>2. ~(i < j)
  <2> SUFFICES ASSUME i < j  PROVE FALSE
    OBVIOUS
  <2>1. off[i] + Len(ss[i]) <= off[j]
    BY DEF PlacedBy
  <2> QED
    BY <1>1, <2>1
<1>3. ~(j < i)
  <2> SUFFICES ASSUME j < i  PROVE FALSE
    OBVIOUS
  <2>1. off[j] + Len(ss[j]) <= off[i]
    BY DEF PlacedBy
  <2> QED
    BY <1>1, <2>1
<1>4. i = j
  BY <1>2, <1>3
<1> QED
  BY <1>1, <1>4

RepeatedAlike(F, G) ==
    \A p, q \in DOMAIN F :
       p # q /\ F[p] = F[q] => \E v, w \in DOMAIN G : v # w /\ G[v] = F[p] /\ G[w] = F[p]

LEMMA TwiceInBoth ==
    ASSUME NEW S, NEW ss \in Seq(Seq(S)), NEW tt \in Seq(Seq(S)), ToSet(ss) \subseteq ToSet(tt),
           \A i, j \in DOMAIN ss : ss[i] = ss[j] => i = j
    PROVE  RepeatedAlike(FlattenSeq(ss), FlattenSeq(tt))
<1> SUFFICES ASSUME NEW p \in DOMAIN FlattenSeq(ss), NEW q \in DOMAIN FlattenSeq(ss), p # q,
                    FlattenSeq(ss)[p] = FlattenSeq(ss)[q]
             PROVE  \E v, w \in DOMAIN FlattenSeq(tt) :
                       v # w /\ FlattenSeq(tt)[v] = FlattenSeq(ss)[p]
                             /\ FlattenSeq(tt)[w] = FlattenSeq(ss)[p]
  BY Zenon DEF RepeatedAlike
<1> DEFINE F == FlattenSeq(ss)
           G == FlattenSeq(tt)
<1>1. F \in Seq(S) /\ G \in Seq(S)
  BY Places
<1>2. DOMAIN F = 1 .. Len(F) /\ DOMAIN G = 1 .. Len(G)
  BY <1>1, LenProperties
<1>3. PICK off \in [1 .. Len(ss) -> Nat] : PlacedBy(ss, off, Len(ss), F)
  BY Places
<1>4. PICK at \in [1 .. Len(tt) -> Nat] : PlacedBy(tt, at, Len(tt), G)
  BY Places
<1> HIDE DEF F, G
<1>5. DOMAIN ss = 1 .. Len(ss) /\ DOMAIN tt = 1 .. Len(tt)
  BY LenProperties
<1>6. ASSUME NEW x \in DOMAIN F
      PROVE  \E i \in 1 .. Len(ss) : \E k \in 1 .. Len(ss[i]) : \E j \in 1 .. Len(tt) :
                x = off[i] + k /\ tt[j] = ss[i] /\ at[j] + k \in DOMAIN G /\ G[at[j] + k] = F[x]
  <2>1. PICK i \in 1 .. Len(ss) : \E k \in 1 .. Len(ss[i]) : x = off[i] + k
    BY <1>2, <1>3, <1>6 DEF PlacedBy
  <2>2. PICK k \in 1 .. Len(ss[i]) : x = off[i] + k
    BY <2>1
  <2>3. k \in Nat /\ 1 <= k /\ k <= Len(ss[i])
    BY ElementOfSeq, LenProperties
  <2>4. F[x] = ss[i][k]
    BY <1>3, <2>2, <2>3 DEF PlacedBy
  <2>5. ss[i] \in ToSet(tt)
    BY <1>5 DEF ToSet
  <2>6. PICK j \in 1 .. Len(tt) : tt[j] = ss[i]
    BY <1>5, <2>5 DEF ToSet
  <2>7. at[j] + k \in 1 .. Len(G) /\ G[at[j] + k] = tt[j][k]
    BY <1>4, <2>3, <2>6 DEF PlacedBy
  <2> QED
    BY <1>2, <2>2, <2>4, <2>6, <2>7
<1>7. p \in DOMAIN F /\ q \in DOMAIN F
  BY DEF F
<1>8. PICK i1 \in 1 .. Len(ss) : \E k \in 1 .. Len(ss[i1]) : \E j \in 1 .. Len(tt) :
         p = off[i1] + k /\ tt[j] = ss[i1] /\ at[j] + k \in DOMAIN G /\ G[at[j] + k] = F[p]
  BY <1>6, <1>7
<1>9. PICK k1 \in 1 .. Len(ss[i1]) : \E j \in 1 .. Len(tt) :
         p = off[i1] + k1 /\ tt[j] = ss[i1] /\ at[j] + k1 \in DOMAIN G /\ G[at[j] + k1] = F[p]
  BY <1>8
<1>10. PICK j1 \in 1 .. Len(tt) :
         p = off[i1] + k1 /\ tt[j1] = ss[i1] /\ at[j1] + k1 \in DOMAIN G /\ G[at[j1] + k1] = F[p]
  BY <1>9
<1>11. PICK i2 \in 1 .. Len(ss) : \E k \in 1 .. Len(ss[i2]) : \E j \in 1 .. Len(tt) :
         q = off[i2] + k /\ tt[j] = ss[i2] /\ at[j] + k \in DOMAIN G /\ G[at[j] + k] = F[q]
  BY <1>6, <1>7
<1>12. PICK k2 \in 1 .. Len(ss[i2]) : \E j \in 1 .. Len(tt) :
         q = off[i2] + k2 /\ tt[j] = ss[i2] /\ at[j] + k2 \in DOMAIN G /\ G[at[j] + k2] = F[q]
  BY <1>11
<1>13. PICK j2 \in 1 .. Len(tt) :
         q = off[i2] + k2 /\ tt[j2] = ss[i2] /\ at[j2] + k2 \in DOMAIN G /\ G[at[j2] + k2] = F[q]
  BY <1>12
<1>14. at[j1] + k1 # at[j2] + k2
  <2> SUFFICES ASSUME at[j1] + k1 = at[j2] + k2  PROVE FALSE
    OBVIOUS
  <2>1. k1 \in 1 .. Len(tt[j1]) /\ k2 \in 1 .. Len(tt[j2])
    BY <1>10, <1>13
  <2>2. j1 = j2 /\ k1 = k2
    <3>1. Disjoint(tt, at)
      BY <1>4, OnePlace
    <3>2. \A k \in 1 .. Len(tt[j1]), l \in 1 .. Len(tt[j2]) :
             at[j1] + k = at[j2] + l => j1 = j2 /\ k = l
      BY <3>1, Zenon DEF Disjoint
    <3> QED
      BY <2>1, <3>2, Zenon
  <2>3. i1 = i2
    BY <1>5, <1>10, <1>13, <2>2
  <2> QED
    BY <1>10, <1>13, <2>2, <2>3
<1>15. F[p] = F[q]
  BY DEF F
<1> QED
  BY <1>10, <1>13, <1>14, <1>15 DEF F, G
=============================================================================
