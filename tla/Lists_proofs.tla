----------------------------- MODULE Lists_proofs ------------------------------
(* Lemmas about lists.  Induction takes the form of a set of natural numbers that *)
(* holds zero and every successor.                                                *)
EXTENDS Lists, FiniteSetTheorems, WellFoundedInduction, TLAPS

\* A set of natural numbers that is not empty has a least element.
LEMMA Least ==
  ASSUME NEW S \in SUBSET Nat, S # {}
  PROVE  \E n \in S : \A m \in S : n <= m
<1> DEFINE R == OpToRel(<, Nat)
<1>1. IsWellFoundedOn(R, Nat)
  BY NatLessThanWellFounded
<1>2. \E n \in S : \A m \in S : <<m, n>> \notin R
  <2> HIDE DEF R
  <2>1. QED
    BY <1>1, WFMin
<1>3. PICK n \in S : \A m \in S : <<m, n>> \notin R
  BY <1>2
<1>4. \A m \in S : ~(m < n)
  BY <1>3 DEF OpToRel
<1>5. QED
  BY <1>4

\* Induction: what holds of zero, and of a successor whenever it holds of the
\* number before, holds of all.
LEMMA Inductive ==
  ASSUME NEW S, 0 \in S, \A n \in Nat : n \in S => n + 1 \in S
  PROVE  Nat \subseteq S
<1> SUFFICES ASSUME Nat \ S # {} PROVE FALSE
  OBVIOUS
<1>1. PICK n \in Nat \ S : \A m \in Nat \ S : n <= m
  BY Least
<1>2. n - 1 \in Nat /\ n - 1 \in S
  BY <1>1
<1>3. QED
  BY <1>1, <1>2

\* What Min chooses.
LEMMA MinIs ==
  ASSUME NEW S \in SUBSET Nat, S # {}
  PROVE  Min(S) \in S /\ \A m \in S : Min(S) <= m
BY Least DEF Min

LEMMA MinOne ==
  ASSUME NEW n \in Nat
  PROVE  Min({n}) = n
BY MinIs
-------------------------------------------------------------------------------
(* Lists of lists                                                              *)

\* f joins the first lists of S one by one.
IsFlatten(f, S) == f = [i \in 1 .. Len(S) |-> IF i = 1 THEN S[i] ELSE f[i - 1] \o S[i]]

\* The function that FlattenSeq chooses exists.
LEMMA FlattenExists ==
  ASSUME NEW S, Len(S) \in Nat
  PROVE  \E f : IsFlatten(f, S)
<1> DEFINE E(h, i) == IF i = 1 THEN S[i] ELSE h[i - 1] \o S[i]
           Is(h, n) == h = [i \in 1 .. n |-> E(h, i)]
           N == {n \in Nat : \E h : Is(h, n)}
<1>1. 0 \in N
  <2>1. Is([i \in 1 .. 0 |-> S[i]], 0)
    OBVIOUS
  <2>2. QED
    BY <2>1
<1>2. ASSUME NEW n \in Nat, n \in N
      PROVE  n + 1 \in N
  <2>1. PICK f : Is(f, n)
    BY <1>2
  <2>2. \A i \in 1 .. n : f[i] = E(f, i)
    <3> DEFINE h == [i \in 1 .. n |-> E(f, i)]
    <3>1. f = h
      BY <2>1
    <3>2. \A i \in 1 .. n : h[i] = E(f, i)
      OBVIOUS
    <3> HIDE DEF h
    <3>3. QED
      BY <3>1, <3>2
  <2> DEFINE h == [i \in 1 .. n + 1 |-> IF i = n + 1 THEN E(f, i) ELSE f[i]]
  <2>3. ASSUME NEW i \in 1 .. n + 1
        PROVE  h[i] = E(h, i)
    <3>1. CASE i = n + 1
      <4>1. i # 1 => h[i - 1] = f[i - 1]
        BY <3>1
      <4>2. QED
        BY <3>1, <4>1
    <3>2. CASE i \in 1 .. n
      <4>1. h[i] = f[i] /\ (i # 1 => h[i - 1] = f[i - 1])
        BY <3>2
      <4>2. QED
        BY <4>1, <3>2, <2>2
    <3>3. QED
      BY <3>1, <3>2
  <2>4. h = [i \in 1 .. n + 1 |-> h[i]]
    OBVIOUS
  <2> HIDE DEF h
  <2>5. Is(h, n + 1)
    BY <2>3, <2>4
  <2> HIDE DEF Is
  <2>6. QED
    BY <2>5
<1> HIDE DEF N
<1>3. Nat \subseteq N
  BY <1>1, <1>2, Inductive
<1>4. QED
  BY <1>3 DEF N, IsFlatten

\* Where the first n lists of S begin in F: off[i] elements come from the first i.
FlatTo(n, S, F, off) ==
  /\ off \in [0 .. n -> Nat]
  /\ off[0] = 0
  /\ \A i \in 1 .. n : off[i] = off[i - 1] + Len(S[i])
  /\ Len(F) = off[n]
  /\ \A i \in 1 .. n : \A k \in 1 .. Len(S[i]) : F[off[i - 1] + k] = S[i][k]

FlatOK(S, F, off) == FlatTo(Len(S), S, F, off)

LEMMA Concat ==
  ASSUME NEW T, NEW a \in Seq(T), NEW b \in Seq(T)
  PROVE  /\ a \o b \in Seq(T)
         /\ Len(a) \in Nat /\ Len(b) \in Nat /\ Len(a \o b) = Len(a) + Len(b)
         /\ \A p \in 1 .. Len(a) : (a \o b)[p] = a[p]
         /\ \A k \in 1 .. Len(b) : (a \o b)[Len(a) + k] = b[k]
OBVIOUS

\* Offsets do not decrease.
LEMMA OffsetsGrow ==
  ASSUME NEW n \in Nat, NEW off \in [0 .. n -> Nat], \A i \in 1 .. n : off[i] >= off[i - 1]
  PROVE  \A i, j \in 0 .. n : i <= j => off[i] <= off[j]
<1> DEFINE N == {j \in Nat : j <= n => \A i \in 0 .. j : off[i] <= off[j]}
<1>1. 0 \in N
  OBVIOUS
<1>2. ASSUME NEW j \in Nat, j \in N PROVE j + 1 \in N
  <2> SUFFICES ASSUME j + 1 <= n, NEW i \in 0 .. j + 1 PROVE off[i] <= off[j + 1]
    OBVIOUS
  <2>1. j + 1 \in 1 .. n /\ (j + 1) - 1 = j /\ j \in 0 .. n /\ i \in 0 .. n
    OBVIOUS
  <2>2. off[j] <= off[j + 1] /\ off[j] \in Nat /\ off[j + 1] \in Nat /\ off[i] \in Nat
    BY <2>1
  <2>3. CASE i = j + 1
    BY <2>2, <2>3
  <2>4. CASE i \in 0 .. j
    BY <1>2, <2>2, <2>4
  <2>5. QED
    BY <2>3, <2>4
<1> HIDE DEF N
<1>3. Nat \subseteq N
  BY <1>1, <1>2, Inductive
<1>4. QED
  BY <1>3 DEF N

\* One list more.
LEMMA FlatMore ==
  ASSUME NEW T, NEW n \in Nat, NEW S, NEW F \in Seq(T), NEW off, FlatTo(n, S, F, off),
         \A i \in 1 .. n + 1 : S[i] \in Seq(T)
  PROVE  \E o : FlatTo(n + 1, S, F \o S[n + 1], o)
<1> DEFINE s == S[n + 1]
           o == [i \in 0 .. n + 1 |-> IF i = n + 1 THEN off[n] + Len(s) ELSE off[i]]
           G == F \o s
<1>1. /\ off \in [0 .. n -> Nat] /\ off[0] = 0 /\ Len(F) = off[n]
      /\ \A i \in 1 .. n : off[i] = off[i - 1] + Len(S[i])
      /\ \A i \in 1 .. n : \A k \in 1 .. Len(S[i]) : F[off[i - 1] + k] = S[i][k]
  BY DEF FlatTo
<1>2. /\ Len(s) \in Nat /\ Len(F) \in Nat /\ Len(G) = Len(F) + Len(s)
      /\ \A p \in 1 .. Len(F) : G[p] = F[p]
      /\ \A k \in 1 .. Len(s) : G[Len(F) + k] = s[k]
  BY Concat
<1>3. \A i \in 1 .. n : Len(S[i]) \in Nat
  OBVIOUS
<1>4. \A i \in 0 .. n : off[i] <= off[n]
  <2>1. ASSUME NEW i \in 1 .. n PROVE off[i] >= off[i - 1]
    <3>1. off[i] = off[i - 1] + Len(S[i]) /\ Len(S[i]) \in Nat /\ i - 1 \in 0 .. n
      BY <1>1, <1>3
    <3>2. off[i - 1] \in Nat
      BY <1>1, <3>1
    <3>3. QED
      BY <3>1, <3>2
  <2>2. \A i, j \in 0 .. n : i <= j => off[i] <= off[j]
    BY <1>1, <2>1, OffsetsGrow
  <2>3. QED
    BY <2>2
<1>5. /\ o \in [0 .. n + 1 -> Nat] /\ o[0] = 0 /\ o[n + 1] = off[n] + Len(s)
      /\ \A i \in 0 .. n : o[i] = off[i]
  <2>1. off[n] \in Nat /\ \A i \in 0 .. n : off[i] \in Nat
    BY <1>1
  <2>2. \A i \in 0 .. n + 1 : (IF i = n + 1 THEN off[n] + Len(s) ELSE off[i]) \in Nat
    BY <2>1, <1>2
  <2> HIDE DEF s
  <2>3. QED
    BY <1>1, <2>2
<1> HIDE DEF o, G, s
<1>6. \A i \in 1 .. n + 1 : o[i] = o[i - 1] + Len(S[i])
  <2> SUFFICES ASSUME NEW i \in 1 .. n + 1 PROVE o[i] = o[i - 1] + Len(S[i])
    OBVIOUS
  <2>1. CASE i = n + 1
    <3>1. i - 1 = n /\ n \in 0 .. n
      BY <2>1
    <3>2. QED
      BY <2>1, <3>1, <1>5 DEF s
  <2>2. CASE i \in 1 .. n
    <3>1. i \in 0 .. n /\ i - 1 \in 0 .. n
      BY <2>2
    <3>2. QED
      BY <2>2, <3>1, <1>1, <1>5
  <2>3. QED
    BY <2>1, <2>2
<1>7. ASSUME NEW i \in 1 .. n, NEW k \in 1 .. Len(S[i])
      PROVE  G[o[i - 1] + k] = S[i][k]
  <2>1. off[i - 1] + k \in 1 .. Len(F)
    <3>1. off[i] <= off[n] /\ off[i] = off[i - 1] + Len(S[i]) /\ off[i - 1] \in Nat
      BY <1>1, <1>4
    <3>2. PICK l \in Nat : l = Len(S[i])
      BY <1>3
    <3>3. PICK a \in Nat, b \in Nat : a = off[i - 1] /\ b = Len(F)
      BY <1>2, <3>1
    <3>4. a + l <= b /\ k \in 1 .. l
      BY <1>1, <3>1, <3>2, <3>3
    <3>5. a + k \in 1 .. b
      BY <3>4
    <3>6. QED
      BY <3>3, <3>5, Zenon
  <2>2. G[off[i - 1] + k] = F[off[i - 1] + k]
    BY <2>1, <1>2
  <2>3. o[i - 1] = off[i - 1]
    BY <1>5
  <2>4. QED
    BY <1>1, <2>2, <2>3
<1>8. \A k \in 1 .. Len(s) : G[o[n] + k] = s[k]
  BY <1>1, <1>2, <1>5
<1>9. \A i \in 1 .. n + 1 : \A k \in 1 .. Len(S[i]) : G[o[i - 1] + k] = S[i][k]
  <2> SUFFICES ASSUME NEW i \in 1 .. n + 1, NEW k \in 1 .. Len(S[i])
               PROVE  G[o[i - 1] + k] = S[i][k]
    OBVIOUS
  <2>1. CASE i = n + 1
    BY <2>1, <1>8 DEF s
  <2>2. CASE i \in 1 .. n
    BY <2>2, <1>7
  <2>3. QED
    BY <2>1, <2>2
<1>10. FlatTo(n + 1, S, G, o)
  BY <1>1, <1>2, <1>5, <1>6, <1>9 DEF FlatTo
<1>11. QED
  BY <1>10 DEF G, s

\* What a list of lists is flattened into.
LEMMA FlatIs ==
  ASSUME NEW T, NEW S \in Seq(Seq(T))
  PROVE  /\ FlattenSeq(S) \in Seq(T)
         /\ \E off : FlatOK(S, FlattenSeq(S), off)
<1>1. CASE Len(S) = 0
  <2>1. FlattenSeq(S) = <<>> /\ S = <<>>
    BY <1>1 DEF FlattenSeq
  <2>2. FlatOK(S, <<>>, [i \in 0 .. 0 |-> 0])
    BY <2>1 DEF FlatOK, FlatTo
  <2>3. QED
    BY <2>1, <2>2
<1>2. CASE Len(S) # 0
  <2> DEFINE f == CHOOSE h : IsFlatten(h, S)
             n == Len(S)
  <2>1. FlattenSeq(S) = f[n]
    BY <1>2 DEF FlattenSeq, IsFlatten
  <2>2. n \in Nat \ {0} /\ \A i \in 1 .. n : S[i] \in Seq(T)
    BY <1>2
  <2>3. IsFlatten(f, S)
    BY <2>2, FlattenExists
  <2> HIDE DEF f
  <2>4. \A i \in 1 .. n : f[i] = IF i = 1 THEN S[i] ELSE f[i - 1] \o S[i]
    <3> DEFINE h == [i \in 1 .. n |-> IF i = 1 THEN S[i] ELSE f[i - 1] \o S[i]]
    <3>1. f = h
      BY <2>3 DEF IsFlatten
    <3>2. \A i \in 1 .. n : h[i] = IF i = 1 THEN S[i] ELSE f[i - 1] \o S[i]
      OBVIOUS
    <3> HIDE DEF h
    <3>3. QED
      BY <3>1, <3>2
  <2> DEFINE Good(m) == f[m] \in Seq(T) /\ \E off : FlatTo(m, S, f[m], off)
             N == {m \in Nat : m + 1 <= n => Good(m + 1)}
  <2>5. Good(1)
    <3>1. f[1] = S[1] /\ S[1] \in Seq(T)
      BY <2>2, <2>4
    <3>2. FlatTo(1, S, S[1], [i \in 0 .. 1 |-> IF i = 0 THEN 0 ELSE Len(S[1])])
      BY <3>1 DEF FlatTo
    <3>3. QED
      BY <3>1, <3>2
  <2>6. ASSUME NEW m \in Nat, m + 1 \in 1 .. n, m + 2 <= n, Good(m + 1)
        PROVE  Good(m + 2)
    <3>1. PICK off : FlatTo(m + 1, S, f[m + 1], off)
      BY <2>6
    <3>2. f[m + 2] = f[m + 1] \o S[m + 2] /\ f[m + 1] \in Seq(T) /\ S[m + 2] \in Seq(T)
      <4>1. m + 2 \in 1 .. n /\ m + 2 # 1 /\ (m + 2) - 1 = m + 1
        BY <2>6
      <4> HIDE DEF n
      <4>2. f[m + 2] = f[m + 1] \o S[m + 2]
        BY <4>1, <2>4
      <4>3. QED
        BY <4>1, <4>2, <2>2, <2>6
    <3>3. \E o : FlatTo(m + 1 + 1, S, f[m + 1] \o S[m + 1 + 1], o)
      <4>1. m + 1 \in Nat /\ \A i \in 1 .. m + 1 + 1 : S[i] \in Seq(T)
        BY <2>2, <2>6
      <4> HIDE DEF n
      <4>2. QED
        BY <3>1, <3>2, <4>1, FlatMore
    <3>4. m + 1 + 1 = m + 2
      OBVIOUS
    <3>5. QED
      BY <3>2, <3>3, <3>4
  <2>7. ASSUME NEW m \in Nat, m \in N PROVE m + 1 \in N
    <3> SUFFICES ASSUME m + 2 <= n PROVE Good(m + 2)
      OBVIOUS
    <3>1. Good(m + 1) /\ m + 1 \in 1 .. n
      BY <2>2, <2>7
    <3> HIDE DEF Good
    <3>2. QED
      BY <3>1, <2>6
  <2>8. 0 \in N
    BY <2>5
  <2> HIDE DEF N
  <2>9. Nat \subseteq N
    BY <2>7, <2>8, Inductive
  <2>10. Good(n)
    <3>1. n - 1 \in N /\ n - 1 + 1 = n
      BY <2>2, <2>9
    <3>2. QED
      BY <3>1, <2>2 DEF N
  <2>11. QED
    BY <2>1, <2>10 DEF FlatOK
<1>3. QED
  BY <1>1, <1>2

\* A list, whatever is in it.
IsList(s) == s \in Seq({s[k] : k \in DOMAIN s})

LEMMA ListIs ==
  ASSUME NEW n \in Nat, NEW s, s = [k \in 1 .. n |-> s[k]]
  PROVE  IsList(s) /\ DOMAIN s = 1 .. n /\ Len(s) = n
<1>1. DOMAIN s = 1 .. n
  OBVIOUS
<1>2. s \in [1 .. n -> {s[k] : k \in 1 .. n}]
  OBVIOUS
<1>3. s \in Seq({s[k] : k \in 1 .. n})
  BY <1>2
<1>4. Len(s) = n
  BY <1>1, <1>3
<1>5. QED
  BY <1>1, <1>3, <1>4 DEF IsList

LEMMA SeqIsList ==
  ASSUME NEW T, NEW s \in Seq(T)
  PROVE  IsList(s)
BY DEF IsList

LEMMA NoList == IsList(<<>>) /\ DOMAIN <<>> = {} /\ Len(<<>>) = 0
<1>1. <<>> \in Seq({}) /\ Len(<<>>) = 0
  OBVIOUS
<1>2. IsList(<<>>)
  BY <1>1, SeqIsList
<1>3. DOMAIN <<>> = 1 .. Len(<<>>)
  BY <1>1
<1>4. QED
  BY <1>1, <1>2, <1>3

LEMMA ListHas ==
  ASSUME NEW s, IsList(s)
  PROVE  Len(s) \in Nat /\ DOMAIN s = 1 .. Len(s)
<1> DEFINE T == {s[k] : k \in DOMAIN s}
<1>1. s \in Seq(T)
  BY DEF IsList
<1> HIDE DEF T
<1>2. QED
  BY <1>1

\* Every element of the flat list comes from one place in one of the lists.
FlatAll(S, F, off) ==
  /\ \A i, j \in 0 .. Len(S) : off[i] \in Nat /\ (i <= j => off[i] <= off[j])
  /\ \A i \in 1 .. Len(S) : off[i] = off[i - 1] + Len(S[i])
  /\ \A i \in 1 .. Len(S) : \A k \in 1 .. Len(S[i]) :
       off[i - 1] + k \in 1 .. Len(F) /\ F[off[i - 1] + k] = S[i][k]
  /\ \A p \in 1 .. Len(F) : \E i \in 1 .. Len(S) : \E k \in 1 .. Len(S[i]) : p = off[i - 1] + k

LEMMA FlatHas ==
  ASSUME NEW S, IsList(S), \A i \in DOMAIN S : IsList(S[i])
  PROVE  /\ IsList(FlattenSeq(S))
         /\ \E off : FlatOK(S, FlattenSeq(S), off) /\ FlatAll(S, FlattenSeq(S), off)
<1> DEFINE n == Len(S)
           F == FlattenSeq(S)
           T == UNION {{S[i][k] : k \in DOMAIN S[i]} : i \in DOMAIN S}
<1>1. n \in Nat /\ DOMAIN S = 1 .. n /\ \A i \in 1 .. n : IsList(S[i]) /\ Len(S[i]) \in Nat
  BY ListHas
<1>2. \A i \in 1 .. n : S[i] \in Seq(T)
  <2> SUFFICES ASSUME NEW i \in 1 .. n PROVE S[i] \in Seq(T)
    OBVIOUS
  <2>1. S[i] \in Seq({S[i][k] : k \in DOMAIN S[i]}) /\ {S[i][k] : k \in DOMAIN S[i]} \subseteq T
    BY <1>1 DEF IsList
  <2> HIDE DEF T
  <2>2. \A A, B : A \subseteq B => Seq(A) \subseteq Seq(B)
    OBVIOUS
  <2>3. QED
    BY <2>1, <2>2
<1>3. S \in Seq(Seq(T))
  <2> HIDE DEF T, n
  <2>1. S = [i \in 1 .. n |-> S[i]]
    <3>1. S \in Seq({S[k] : k \in DOMAIN S})
      BY DEF IsList
    <3>2. QED
      BY <3>1, <1>1
  <2>2. QED
    BY <1>1, <1>2, <2>1
<1>4. F \in Seq(T) /\ \E off : FlatOK(S, F, off)
  <2> HIDE DEF T
  <2>1. QED
    BY <1>3, FlatIs
<1>5. IsList(F)
  <2> HIDE DEF T, F
  <2>1. QED
    BY <1>4, SeqIsList
<1> HIDE DEF F, T
<1>6. PICK off : FlatOK(S, F, off)
  BY <1>4
<1>7. /\ off \in [0 .. n -> Nat] /\ off[0] = 0 /\ Len(F) = off[n]
      /\ \A i \in 1 .. n : off[i] = off[i - 1] + Len(S[i])
      /\ \A i \in 1 .. n : \A k \in 1 .. Len(S[i]) : F[off[i - 1] + k] = S[i][k]
  BY <1>6 DEF FlatOK, FlatTo
<1> HIDE DEF n
<1>8. \A i, j \in 0 .. n : off[i] \in Nat /\ (i <= j => off[i] <= off[j])
  <2>1. ASSUME NEW i \in 1 .. n PROVE off[i] >= off[i - 1]
    <3>1. off[i] = off[i - 1] + Len(S[i]) /\ Len(S[i]) \in Nat /\ i - 1 \in 0 .. n
      BY <1>1, <1>7
    <3>2. off[i - 1] \in Nat
      BY <1>7, <3>1
    <3>3. QED
      BY <3>1, <3>2
  <2>2. \A i, j \in 0 .. n : i <= j => off[i] <= off[j]
    BY <1>1, <1>7, <2>1, OffsetsGrow
  <2>3. QED
    BY <1>7, <2>2
<1>9. ASSUME NEW i \in 1 .. n, NEW k \in 1 .. Len(S[i])
      PROVE  off[i - 1] + k \in 1 .. Len(F) /\ F[off[i - 1] + k] = S[i][k]
  <2>1. /\ i \in 0 .. n /\ i - 1 \in 0 .. n /\ n \in 0 .. n /\ i <= n
        /\ off[i] = off[i - 1] + Len(S[i]) /\ Len(S[i]) \in Nat
    BY <1>1, <1>7
  <2>2. off[i] \in Nat /\ off[i - 1] \in Nat /\ off[i] <= off[n]
    BY <1>8, <2>1
  <2>3. off[n] \in Nat
    BY <1>8, <2>1
  <2>4. off[i - 1] + k \in 1 .. Len(F)
    <3>1. Len(F) = off[n]
      BY <1>7
    <3>2. \A a, b, c, l \in Nat : (b = a + l /\ b <= c /\ k <= l) => a + k \in 1 .. c
      OBVIOUS
    <3>3. k \in Nat /\ k <= Len(S[i])
      BY <2>1
    <3>4. QED
      BY <2>1, <2>2, <2>3, <3>1, <3>2, <3>3
  <2>5. QED
    BY <1>7, <2>4
<1>10. ASSUME NEW p \in 1 .. Len(F)
       PROVE  \E i \in 1 .. n : \E k \in 1 .. Len(S[i]) : p = off[i - 1] + k
  <2> DEFINE R == {i \in 0 .. n : p <= off[i]}
  <2>1. R \in SUBSET Nat /\ n \in R
    BY <1>1, <1>7
  <2>2. PICK i \in R : \A j \in R : i <= j
    BY <2>1, Least
  <2>3. i \in 1 .. n
    BY <2>2, <1>7
  <2>4. i - 1 \in 0 .. n /\ i - 1 \notin R
    <3>1. i \in Nat /\ i # 0 /\ i <= n
      BY <1>1, <2>3
    <3>2. i - 1 \in 0 .. n /\ i - 1 \in Nat /\ ~(i <= i - 1)
      BY <1>1, <3>1
    <3>3. QED
      BY <2>2, <3>2
  <2>5. off[i - 1] \in Nat /\ off[i - 1] < p /\ p <= off[i]
    BY <2>2, <2>4, <1>8
  <2>6. off[i] = off[i - 1] + Len(S[i]) /\ Len(S[i]) \in Nat
    BY <1>1, <1>7, <2>3
  <2>7. p - off[i - 1] \in 1 .. Len(S[i]) /\ p = off[i - 1] + (p - off[i - 1])
    BY <2>5, <2>6
  <2>8. QED
    BY <2>3, <2>7
<1>11. FlatAll(S, F, off)
  BY <1>7, <1>8, <1>9, <1>10 DEF FlatAll, n
<1>12. QED
  BY <1>5, <1>6, <1>11 DEF F

\* A place after the end of a block is behind every place in it.
LEMMA Behind ==
  ASSUME NEW a \in Nat, NEW b \in Nat, NEW l \in Nat, NEW m \in Nat, b + l <= a,
         NEW j \in 1 .. m, NEW h \in 1 .. l
  PROVE  ~(a + j <= b + h)
OBVIOUS

\* The lists follow one another.
LEMMA FlatOrder ==
  ASSUME NEW S, NEW F, NEW off, FlatAll(S, F, off), NEW n \in Nat, n = Len(S),
         \A i \in 1 .. n : Len(S[i]) \in Nat,
         NEW i \in 1 .. n, NEW j \in 1 .. Len(S[i]), NEW l \in 1 .. n, NEW h \in 1 .. Len(S[l]),
         off[i - 1] + j <= off[l - 1] + h
  PROVE  i <= l
<1> SUFFICES ASSUME l <= i - 1 PROVE FALSE
  OBVIOUS
<1>1. /\ \A a, b \in 0 .. n : off[a] \in Nat /\ (a <= b => off[a] <= off[b])
      /\ \A a \in 1 .. n : off[a] = off[a - 1] + Len(S[a])
  BY DEF FlatAll
<1>2. l \in 0 .. n /\ i - 1 \in 0 .. n /\ l - 1 \in 0 .. n
  OBVIOUS
<1>3. off[l] <= off[i - 1] /\ off[i - 1] \in Nat /\ off[l - 1] \in Nat
  BY <1>1, <1>2
<1>4. off[l] = off[l - 1] + Len(S[l])
  BY <1>1
<1>5. Len(S[l]) \in Nat /\ Len(S[i]) \in Nat
  OBVIOUS
<1>6. off[l - 1] + Len(S[l]) <= off[i - 1]
  BY <1>3, <1>4
<1>7. ~(off[i - 1] + j <= off[l - 1] + h)
  BY <1>3, <1>5, <1>6, Behind
<1>8. QED
  BY <1>7, Zenon

\* K has the elements of s at the positions in I, pos[k] being that of the k-th.
KeepOK(s, I, K, pos) ==
  /\ pos \in [1 .. Len(K) -> I \cap DOMAIN s]
  /\ \A k, l \in 1 .. Len(K) : k < l => pos[k] < pos[l]
  /\ \A i \in I \cap DOMAIN s : \E k \in 1 .. Len(K) : pos[k] = i
  /\ \A k \in 1 .. Len(K) : K[k] = s[pos[k]]

LEMMA KeepIs ==
  ASSUME NEW s, IsList(s), NEW I
  PROVE  /\ IsList(Keep(s, I))
         /\ \E pos : KeepOK(s, I, Keep(s, I), pos)
<1> DEFINE n == Len(s)
           S == [i \in 1 .. n |-> IF i \in I THEN <<s[i]>> ELSE <<>>]
           K == FlattenSeq(S)
<1>1. n \in Nat /\ DOMAIN s = 1 .. n
  BY ListHas
<1>2. Keep(s, I) = K
  BY <1>1 DEF Keep
<1>3. /\ IsList(S) /\ DOMAIN S = 1 .. n /\ Len(S) = n
      /\ \A i \in 1 .. n : /\ S[i] = IF i \in I THEN <<s[i]>> ELSE <<>>
                           /\ IsList(S[i]) /\ Len(S[i]) = IF i \in I THEN 1 ELSE 0
  <2>1. DOMAIN S = 1 .. n /\ \A i \in 1 .. n : S[i] = IF i \in I THEN <<s[i]>> ELSE <<>>
    OBVIOUS
  <2>2. \A x : IsList(<<x>>) /\ Len(<<x>>) = 1 /\ IsList(<<>>) /\ Len(<<>>) = 0
    <3> TAKE x
    <3>1. <<x>> \in Seq({x}) /\ <<>> \in Seq({x}) /\ Len(<<x>>) = 1 /\ Len(<<>>) = 0
      OBVIOUS
    <3>2. QED
      BY <3>1, SeqIsList
  <2>3. S = [i \in 1 .. n |-> S[i]]
    OBVIOUS
  <2> HIDE DEF S
  <2>4. IsList(S) /\ Len(S) = n
    BY <1>1, <2>3, ListIs
  <2>5. QED
    BY <2>1, <2>2, <2>4
<1> HIDE DEF S
<1>4. IsList(K) /\ \E off : FlatAll(S, K, off)
  BY <1>3, FlatHas
<1> HIDE DEF K
<1>5. PICK off : FlatAll(S, K, off)
  BY <1>4
<1>6. /\ \A i, j \in 0 .. n : off[i] \in Nat /\ (i <= j => off[i] <= off[j])
      /\ \A i \in 1 .. n : off[i] = off[i - 1] + Len(S[i])
      /\ \A i \in 1 .. n : \A k \in 1 .. Len(S[i]) :
           off[i - 1] + k \in 1 .. Len(K) /\ K[off[i - 1] + k] = S[i][k]
      /\ \A p \in 1 .. Len(K) : \E i \in 1 .. n : \E k \in 1 .. Len(S[i]) : p = off[i - 1] + k
  BY <1>3, <1>5 DEF FlatAll
<1> HIDE DEF n
<1>7. ASSUME NEW i \in 1 .. n, i \in I
      PROVE  /\ off[i - 1] + 1 \in 1 .. Len(K) /\ K[off[i - 1] + 1] = s[i]
             /\ off[i] = off[i - 1] + 1
  <2>1. Len(S[i]) = 1 /\ 1 \in 1 .. Len(S[i]) /\ S[i][1] = s[i]
    BY <1>3, <1>7
  <2>2. QED
    BY <2>1, <1>6
<1>8. ASSUME NEW p \in 1 .. Len(K)
      PROVE  \E i \in I \cap 1 .. n : p = off[i - 1] + 1
  <2>1. PICK i \in 1 .. n : \E k \in 1 .. Len(S[i]) : p = off[i - 1] + k
    BY <1>6
  <2>2. PICK k \in 1 .. Len(S[i]) : p = off[i - 1] + k
    BY <2>1
  <2>3. i \in I /\ k = 1
    <3>1. Len(S[i]) = IF i \in I THEN 1 ELSE 0
      BY <1>3
    <3>2. QED
      BY <2>2, <3>1
  <2>4. QED
    BY <2>2, <2>3
<1>9. ASSUME NEW i \in I \cap 1 .. n, NEW j \in I \cap 1 .. n, i < j
      PROVE  off[i - 1] + 1 < off[j - 1] + 1
  <2>1. off[i] = off[i - 1] + 1 /\ i \in 0 .. n /\ j - 1 \in 0 .. n /\ i - 1 \in 0 .. n /\ i <= j - 1
    BY <1>1, <1>7, <1>9
  <2>2. off[i] <= off[j - 1] /\ off[i - 1] \in Nat /\ off[j - 1] \in Nat
    BY <1>6, <2>1
  <2>3. QED
    BY <2>1, <2>2
<1> DEFINE pos == [p \in 1 .. Len(K) |-> CHOOSE i \in I \cap 1 .. n : p = off[i - 1] + 1]
<1>10. \A p \in 1 .. Len(K) : pos[p] \in I \cap 1 .. n /\ p = off[pos[p] - 1] + 1
  BY <1>8
<1>11. pos \in [1 .. Len(K) -> I \cap DOMAIN s]
  BY <1>1, <1>10
<1> HIDE DEF pos
<1>12. ASSUME NEW k \in 1 .. Len(K), NEW l \in 1 .. Len(K), k < l
       PROVE  pos[k] < pos[l]
  <2>1. pos[k] \in I \cap 1 .. n /\ pos[l] \in I \cap 1 .. n /\ k = off[pos[k] - 1] + 1 /\ l = off[pos[l] - 1] + 1
    BY <1>10
  <2>2. pos[k] \in Int /\ pos[l] \in Int
    BY <2>1, <1>1
  <2>3. CASE pos[l] < pos[k]
    BY <1>9, <2>1, <2>3, <1>12
  <2>4. CASE pos[l] = pos[k]
    BY <2>1, <2>4, <1>12
  <2>5. QED
    BY <2>2, <2>3, <2>4
<1>13. ASSUME NEW i \in I \cap DOMAIN s
       PROVE  \E k \in 1 .. Len(K) : pos[k] = i
  <2>1. i \in 1 .. n /\ i \in I /\ i \in Int
    BY <1>1
  <2> DEFINE k == off[i - 1] + 1
  <2>2. k \in 1 .. Len(K)
    BY <2>1, <1>7
  <2>3. pos[k] \in I \cap 1 .. n /\ k = off[pos[k] - 1] + 1 /\ pos[k] \in Int
    BY <2>2, <1>10, <1>1
  <2>4. ~(pos[k] < i) /\ ~(i < pos[k])
    <3>1. /\ i - 1 \in 0 .. n /\ off[i - 1] \in Nat
          /\ pos[k] - 1 \in 0 .. n /\ off[pos[k] - 1] \in Nat
      BY <1>1, <1>6, <2>1, <2>3
    <3>2. ASSUME pos[k] < i PROVE FALSE
      <4>1. off[pos[k] - 1] + 1 < off[i - 1] + 1
        BY <3>2, <1>9, <2>1, <2>3
      <4>2. QED
        BY <4>1, <3>1, <2>3
    <3>3. ASSUME i < pos[k] PROVE FALSE
      <4>1. off[i - 1] + 1 < off[pos[k] - 1] + 1
        BY <3>3, <1>9, <2>1, <2>3
      <4>2. QED
        BY <4>1, <3>1, <2>3
    <3>4. QED
      BY <3>2, <3>3
  <2>5. pos[k] = i
    <3> HIDE DEF k
    <3>1. QED
      BY <2>1, <2>3, <2>4
  <2>6. QED
    BY <2>2, <2>5
<1>14. \A k \in 1 .. Len(K) : K[k] = s[pos[k]]
  BY <1>7, <1>10
<1>15. KeepOK(s, I, K, pos)
  BY <1>11, <1>12, <1>13, <1>14 DEF KeepOK
<1>16. QED
  BY <1>2, <1>4, <1>15

\* The positions in I are those after lo, up to hi.
IsRun(s, I, lo, hi) == lo <= hi /\ I \cap DOMAIN s = lo + 1 .. hi

\* A run of positions is kept as it is.
LEMMA KeepRun ==
  ASSUME NEW s, IsList(s), NEW I, NEW lo \in Nat, NEW hi \in Nat, IsRun(s, I, lo, hi)
  PROVE  /\ Len(Keep(s, I)) = hi - lo
         /\ \A k \in 1 .. hi - lo : Keep(s, I)[k] = s[lo + k]
<1> DEFINE K == Keep(s, I)
           n == Len(K)
<1>0. lo <= hi
  BY DEF IsRun
<1>1. IsList(K) /\ \E pos : KeepOK(s, I, K, pos)
  BY KeepIs
<1>2. n \in Nat
  BY <1>1, ListHas
<1> HIDE DEF K, n
<1>3. PICK pos : KeepOK(s, I, K, pos)
  BY <1>1
<1>4. /\ pos \in [1 .. n -> lo + 1 .. hi]
      /\ \A k, l \in 1 .. n : k < l => pos[k] < pos[l]
      /\ \A i \in lo + 1 .. hi : \E k \in 1 .. n : pos[k] = i
      /\ \A k \in 1 .. n : K[k] = s[pos[k]]
  BY <1>3 DEF KeepOK, n, IsRun
<1>5. \A k \in 1 .. n : pos[k] \in Nat /\ lo + 1 <= pos[k] /\ pos[k] <= hi
  BY <1>4
<1> DEFINE N == {k \in Nat : k + 1 <= n => pos[k + 1] >= lo + k + 1}
<1>6. Nat \subseteq N
  <2>1. 0 \in N
    BY <1>5, <1>2
  <2>2. ASSUME NEW k \in Nat, k \in N PROVE k + 1 \in N
    <3> SUFFICES ASSUME k + 2 <= n PROVE pos[k + 2] >= lo + k + 2
      OBVIOUS
    <3>1. k + 1 \in 1 .. n /\ k + 2 \in 1 .. n /\ k + 1 < k + 2
      BY <1>2
    <3>2. pos[k + 1] < pos[k + 2] /\ pos[k + 1] \in Nat /\ pos[k + 2] \in Nat
      BY <3>1, <1>4, <1>5
    <3>3. pos[k + 1] >= lo + k + 1
      BY <2>2, <3>1
    <3>4. QED
      BY <3>2, <3>3
  <2> HIDE DEF N
  <2>3. QED
    BY <2>1, <2>2, Inductive
<1>7. \A k \in 1 .. n : pos[k] >= lo + k
  <2> TAKE k \in 1 .. n
  <2>1. k - 1 \in N /\ (k - 1) + 1 = k /\ lo + (k - 1) + 1 = lo + k
    BY <1>2, <1>6
  <2> DEFINE j == k - 1
  <2>2. j \in Nat /\ j + 1 = k /\ lo + j + 1 = lo + k /\ j \in N
    BY <2>1
  <2> HIDE DEF j
  <2>3. QED
    BY <2>2, <1>2
<1> HIDE DEF N
<1> DEFINE M == {k \in Nat : \A l \in 1 .. n : l <= k => pos[l] = lo + l}
<1>8. Nat \subseteq M
  <2>1. 0 \in M
    BY <1>2
  <2>2. ASSUME NEW k \in Nat, k \in M PROVE k + 1 \in M
    <3> SUFFICES ASSUME k + 1 \in 1 .. n PROVE pos[k + 1] = lo + (k + 1)
      <4>1. \A l \in 1 .. n : l <= k + 1 => l <= k \/ l = k + 1
        BY <1>2
      <4>2. QED
        BY <2>2, <4>1
    <3>1. pos[k + 1] >= lo + (k + 1) /\ pos[k + 1] \in Nat /\ pos[k + 1] <= hi
      BY <1>5, <1>7
    <3>2. lo + (k + 1) \in lo + 1 .. hi
      BY <3>1
    <3>3. PICK l \in 1 .. n : pos[l] = lo + (k + 1)
      BY <3>2, <1>4
    <3>4. l \in Nat /\ pos[l] >= lo + l
      BY <1>2, <1>7
    <3>5. CASE l <= k
      <4>1. pos[l] = lo + l
        BY <2>2, <3>5
      <4>2. QED
        BY <4>1, <3>3, <3>4, <3>5
    <3>6. CASE l = k + 1
      BY <3>3, <3>6
    <3>7. CASE l > k + 1
      BY <3>3, <3>4, <3>7
    <3>8. QED
      BY <3>4, <3>5, <3>6, <3>7
  <2> HIDE DEF M
  <2>3. QED
    BY <2>1, <2>2, Inductive
<1>9. \A k \in 1 .. n : pos[k] = lo + k
  <2> TAKE k \in 1 .. n
  <2>1. k \in M /\ k <= k
    BY <1>2, <1>8
  <2>2. QED
    BY <2>1
<1>10. n = hi - lo
  <2>1. n <= hi - lo
    <3>1. CASE n = 0
      BY <1>0, <3>1
    <3>2. CASE n \in 1 .. n
      BY <3>2, <1>5, <1>9, <1>2
    <3>3. QED
      BY <3>1, <3>2, <1>2
  <2>2. hi - lo <= n
    <3>1. CASE hi = lo
      BY <3>1, <1>2
    <3>2. CASE hi \in lo + 1 .. hi
      <4>1. PICK k \in 1 .. n : pos[k] = hi
        BY <3>2, <1>4
      <4>2. hi = lo + k
        BY <4>1, <1>9
      <4>3. QED
        BY <4>2, <1>2
    <3>3. QED
      BY <1>0, <3>1, <3>2
  <2>3. QED
    BY <2>1, <2>2, <1>2
<1>11. \A k \in 1 .. hi - lo : K[k] = s[lo + k]
  BY <1>4, <1>9, <1>10
<1>12. QED
  BY <1>10, <1>11 DEF K, n

\* Lists of the same lengths are flattened alike.
LEMMA FlatSame ==
  ASSUME NEW S, IsList(S), \A i \in DOMAIN S : IsList(S[i]),
         NEW R, IsList(R), \A i \in DOMAIN R : IsList(R[i]),
         Len(R) = Len(S), \A i \in 1 .. Len(S) : Len(R[i]) = Len(S[i])
  PROVE  /\ Len(FlattenSeq(R)) = Len(FlattenSeq(S))
         /\ \E off : /\ FlatOK(S, FlattenSeq(S), off) /\ FlatAll(S, FlattenSeq(S), off)
                     /\ FlatOK(R, FlattenSeq(R), off) /\ FlatAll(R, FlattenSeq(R), off)
<1> DEFINE n == Len(S)
<1>1. n \in Nat /\ \A i \in 1 .. n : Len(S[i]) \in Nat
  BY ListHas
<1>2. PICK a : FlatOK(S, FlattenSeq(S), a) /\ FlatAll(S, FlattenSeq(S), a)
  BY FlatHas
<1>3. PICK b : FlatOK(R, FlattenSeq(R), b) /\ FlatAll(R, FlattenSeq(R), b)
  BY FlatHas
<1>4. /\ a \in [0 .. n -> Nat] /\ a[0] = 0 /\ Len(FlattenSeq(S)) = a[n]
      /\ \A i \in 1 .. n : a[i] = a[i - 1] + Len(S[i])
  BY <1>2 DEF FlatOK, FlatTo
<1>5. /\ b \in [0 .. n -> Nat] /\ b[0] = 0 /\ Len(FlattenSeq(R)) = b[n]
      /\ \A i \in 1 .. n : b[i] = b[i - 1] + Len(R[i])
  BY <1>3 DEF FlatOK, FlatTo
<1> HIDE DEF n
<1> DEFINE N == {i \in Nat : i <= n => a[i] = b[i]}
<1>6. 0 \in N
  BY <1>4, <1>5
<1>7. ASSUME NEW i \in Nat, i \in N PROVE i + 1 \in N
  <2> SUFFICES ASSUME i + 1 <= n PROVE a[i + 1] = b[i + 1]
    OBVIOUS
  <2>1. i + 1 \in 1 .. n /\ (i + 1) - 1 = i /\ i <= n
    BY <1>1
  <2>2. a[i] = b[i]
    BY <1>7, <2>1
  <2>3. a[i + 1] = a[i] + Len(S[i + 1]) /\ b[i + 1] = b[i] + Len(R[i + 1])
    BY <1>4, <1>5, <2>1
  <2>4. QED
    BY <2>1, <2>2, <2>3 DEF n
<1>8. Nat \subseteq N
  <2> HIDE DEF N
  <2>1. QED
    BY <1>6, <1>7, Inductive
<1>9. \A i \in 0 .. n : a[i] = b[i]
  BY <1>8, <1>1
<1>10. a = b
  <2>1. a = [i \in 0 .. n |-> a[i]] /\ b = [i \in 0 .. n |-> b[i]]
    BY <1>4, <1>5
  <2>2. [i \in 0 .. n |-> a[i]] = [i \in 0 .. n |-> b[i]]
    BY <1>9
  <2>3. QED
    BY <2>1, <2>2
<1>11. QED
  BY <1>2, <1>3, <1>4, <1>5, <1>9, <1>10, <1>1

\* The first elements of a list.
LEMMA FirstOf ==
  ASSUME NEW s, IsList(s), NEW n \in Nat, n <= Len(s)
  PROVE  /\ IsList(SubSeq(s, 1, n)) /\ Len(SubSeq(s, 1, n)) = n
         /\ \A k \in 1 .. n : SubSeq(s, 1, n)[k] = s[k]
<1> DEFINE T == {s[k] : k \in DOMAIN s}
<1>1. s \in Seq(T) /\ Len(s) \in Nat
  BY ListHas DEF IsList
<1> HIDE DEF T
<1>2. SubSeq(s, 1, n) \in Seq(T) /\ Len(SubSeq(s, 1, n)) = n
      /\ \A k \in 1 .. n : SubSeq(s, 1, n)[k] = s[k]
  BY <1>1
<1>3. QED
  BY <1>2, SeqIsList
===============================================================================
