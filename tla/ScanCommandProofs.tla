-------------------------- MODULE ScanCommandProofs --------------------------
(***************************************************************************)
(* What one run of "k8s-zombie scan" promises its reader, for any          *)
(* detectors, findings, flags and price files.                             *)
(*                                                                         *)
(* The program sorts, groups and joins sequences, so the first part says   *)
(* what becomes of the elements of a sequence.  Its inductions are proved  *)
(* from a least counterexample.                                            *)
(***************************************************************************)
EXTENDS ScanCommand, SequenceTheorems, FiniteSetTheorems, WellFoundedInduction, TLAPS

-----------------------------------------------------------------------------
(* Induction on the numbers up to a bound *)

LEMMA LeastNumber ==
  ASSUME NEW T, T \subseteq Nat, T # {} PROVE \E n \in T : \A m \in T : n <= m
<1>1. PICK n \in T : \A m \in T : <<m, n>> \notin OpToRel(<, Nat)
  BY NatLessThanWellFounded, WFMin
<1>2. OpToRel(<, Nat) = {pair \in Nat \X Nat : pair[1] < pair[2]}
  BY DEF OpToRel
<1>3. ASSUME NEW m \in T PROVE n <= m
  <2>1. <<m, n>> \notin {pair \in Nat \X Nat : pair[1] < pair[2]}
    BY <1>1, <1>2
  <2>2. ~(m < n)
    BY <2>1
  <2> QED BY <2>2
<1> QED BY <1>3

\* A set that holds 0, and n + 1 if n, holds every number up to N.
LEMMA Induction ==
  ASSUME NEW N \in Nat, NEW G, 0 \in G, \A n \in 0..N : n \in G /\ n < N => n + 1 \in G
  PROVE  0..N \subseteq G
<1> SUFFICES ASSUME 0..N \ G # {} PROVE FALSE
  OBVIOUS
<1>1. PICK n \in 0..N \ G : \A m \in 0..N \ G : n <= m
  <2>1. 0..N \ G \subseteq Nat
    OBVIOUS
  <2> QED BY <2>1, LeastNumber
<1>2. n # 0 /\ n - 1 \in 0..N /\ n - 1 < N
  BY <1>1
<1>3. n - 1 \in G
  BY <1>1, <1>2
<1> QED BY <1>1, <1>2, <1>3

-----------------------------------------------------------------------------
(* FlattenSeq *)

\* The recursion of FlattenSeq over the first n members of ss.
Flattens(f, ss, n) == f = [j \in 1..n |-> IF j = 1 THEN ss[j] ELSE f[j - 1] \o ss[j]]

LEMMA FlattenExists ==
  ASSUME NEW S, NEW ss \in Seq(Seq(S)), NEW n \in 0..Len(ss)
  PROVE  \E f \in [1..n -> Seq(S)] : Flattens(f, ss, n)
<1> DEFINE G == {k \in 0..Len(ss) : \E f \in [1..k -> Seq(S)] : Flattens(f, ss, k)}
<1>1. 0 \in G
  <2>1. << >> \in [1..0 -> Seq(S)] /\ Flattens(<< >>, ss, 0)
    BY DEF Flattens
  <2>2. 0 \in 0..Len(ss)
    OBVIOUS
  <2> QED BY <2>1, <2>2
<1>2. ASSUME NEW k \in 0..Len(ss), k \in G, k < Len(ss) PROVE k + 1 \in G
  <2>1. PICK f \in [1..k -> Seq(S)] : Flattens(f, ss, k)
    BY <1>2
  <2>2. k + 1 \in 1..Len(ss) /\ k \in Nat
    BY <1>2
  <2>3. ss[k + 1] \in Seq(S)
    BY <2>2, ElementOfSeq
  <2> DEFINE v == IF k = 0 THEN ss[k + 1] ELSE f[k] \o ss[k + 1]
             g == [j \in 1..(k + 1) |-> IF j = k + 1 THEN v ELSE f[j]]
  <2>4. v \in Seq(S)
    <3>1. CASE k = 0
      BY <2>3, <3>1
    <3>2. CASE k # 0
      <4>1. f[k] \in Seq(S)
        BY <2>2, <3>2
      <4> QED BY <2>3, <3>2, <4>1, ConcatProperties
    <3> QED BY <3>1, <3>2
  <2>5. g \in [1..(k + 1) -> Seq(S)]
    <3> HIDE DEF v
    <3> QED BY <2>2, <2>4
  <2>6. Flattens(g, ss, k + 1)
    <3>1. ASSUME NEW j \in 1..(k + 1)
          PROVE  g[j] = IF j = 1 THEN ss[j] ELSE g[j - 1] \o ss[j]
      <4>1. CASE j = k + 1
        <5>1. k # 0 => g[k] = f[k]
          BY <2>2
        <5> QED BY <2>2, <4>1, <5>1
      <4>2. CASE j # k + 1
        <5>1. j \in 1..k
          BY <2>2, <4>2
        <5>2. f[j] = IF j = 1 THEN ss[j] ELSE f[j - 1] \o ss[j]
          BY <2>1, <5>1 DEF Flattens
        <5>3. g[j] = f[j] /\ (j # 1 => g[j - 1] = f[j - 1])
          <6> HIDE DEF v
          <6> QED BY <2>2, <5>1
        <5> QED BY <5>2, <5>3
      <4> QED BY <4>1, <4>2
    <3> HIDE DEF v
    <3>2. g = [j \in 1..(k + 1) |-> g[j]]
      OBVIOUS
    <3> HIDE DEF g
    <3> QED BY <3>1, <3>2 DEF Flattens
  <2> HIDE DEF g
  <2>7. k + 1 \in 0..Len(ss)
    BY <2>2
  <2> QED BY <2>5, <2>6, <2>7
<1> HIDE DEF G
<1>3. Len(ss) \in Nat
  OBVIOUS
<1>4. \A k \in 0..Len(ss) : k \in G /\ k < Len(ss) => k + 1 \in G
  BY <1>2
<1>5. 0..Len(ss) \subseteq G
  BY <1>1, <1>3, <1>4, Induction
<1> QED BY <1>5 DEF G

LEMMA FlattenSeqIs ==
  ASSUME NEW S, NEW ss \in Seq(Seq(S)), ss # << >>
  PROVE  \E f : Flattens(f, ss, Len(ss)) /\ FlattenSeq(ss) = f[Len(ss)]
<1>1. Len(ss) \in Nat /\ Len(ss) # 0
  BY EmptySeq
<1> DEFINE h == CHOOSE f : Flattens(f, ss, Len(ss))
<1>2. Flattens(h, ss, Len(ss))
  <2>1. Len(ss) \in 0..Len(ss)
    BY <1>1
  <2>2. \E f \in [1..Len(ss) -> Seq(S)] : Flattens(f, ss, Len(ss))
    BY <2>1, FlattenExists
  <2>3. \E f : Flattens(f, ss, Len(ss))
    BY <2>2
  <2> QED BY <2>3
<1>3. FlattenSeq(ss) = h[Len(ss)]
  BY <1>1 DEF FlattenSeq, Flattens
<1> QED BY <1>2, <1>3

\* A sequence that is cut up at the places e[0] <= e[1] <= ... and joined is the same.
LEMMA FlattenPieces ==
  ASSUME NEW S, NEW s \in Seq(S), NEW ss \in Seq(Seq(S)), NEW e,
         ss # << >>, e[0] = 0, e[Len(ss)] = Len(s),
         \A n \in 0..Len(ss) : e[n] \in 0..Len(s),
         \A n \in 1..Len(ss) : e[n - 1] <= e[n] /\ ss[n] = SubSeq(s, e[n - 1] + 1, e[n])
  PROVE  FlattenSeq(ss) = s
<1>1. Len(ss) \in Nat /\ Len(ss) # 0 /\ Len(s) \in Nat
  BY EmptySeq
<1>2. PICK f : Flattens(f, ss, Len(ss)) /\ FlattenSeq(ss) = f[Len(ss)]
  BY FlattenSeqIs
<1>3. \A n \in 1..Len(ss) : f[n] = IF n = 1 THEN ss[n] ELSE f[n - 1] \o ss[n]
  BY <1>2 DEF Flattens
<1> DEFINE G == {n \in 0..Len(ss) : n # 0 => f[n] = SubSeq(s, 1, e[n])}
<1>4. 0 \in G
  BY <1>1
<1>5. ASSUME NEW n \in 0..Len(ss), n \in G, n < Len(ss) PROVE n + 1 \in G
  <2>1. n + 1 \in 1..Len(ss) /\ n + 1 \in 0..Len(ss) /\ (n + 1) - 1 = n /\ n \in Nat
    BY <1>1, <1>5
  <2>2. ss[n + 1] = SubSeq(s, e[n] + 1, e[n + 1]) /\ e[n] <= e[n + 1]
    BY <2>1
  <2>3. e[n] \in 0..Len(s) /\ e[n + 1] \in 0..Len(s)
    BY <2>1
  <2>4. f[n + 1] = SubSeq(s, 1, e[n + 1])
    <3>1. CASE n = 0
      <4>1. f[1] = ss[1]
        BY <1>3, <2>1, <3>1
      <4>2. e[n] + 1 = 1
        BY <3>1
      <4> QED BY <4>1, <4>2, <2>2, <3>1
    <3>2. CASE n # 0
      <4>1. f[n] = SubSeq(s, 1, e[n])
        BY <1>5, <3>2
      <4>2. n + 1 # 1
        BY <2>1, <3>2
      <4>3. f[n + 1] = f[n] \o ss[n + 1]
        BY <1>3, <2>1, <4>2
      <4>4. 1 \in 1..Len(s) + 1 /\ e[n] \in 1 - 1..Len(s) /\ e[n + 1] \in e[n]..Len(s)
        BY <1>1, <2>2, <2>3
      <4>5. SubSeq(s, 1, e[n]) \o SubSeq(s, e[n] + 1, e[n + 1]) = SubSeq(s, 1, e[n + 1])
        BY <4>4, ConcatAdjacentSubSeq
      <4> QED BY <4>1, <4>3, <4>5, <2>2
    <3> QED BY <3>1, <3>2
  <2> QED BY <2>1, <2>4
<1> HIDE DEF G
<1>6. \A n \in 0..Len(ss) : n \in G /\ n < Len(ss) => n + 1 \in G
  BY <1>5
<1>7. 0..Len(ss) \subseteq G
  BY <1>1, <1>4, <1>6, Induction
<1>8. Len(ss) \in 0..Len(ss)
  BY <1>1
<1>9. f[Len(ss)] = SubSeq(s, 1, Len(s))
  BY <1>1, <1>7, <1>8 DEF G
<1> QED BY <1>2, <1>9, SubSeqFull

\* What is joined keeps every element, and gains none.
LEMMA FlattenElements ==
  ASSUME NEW S, NEW ss \in Seq(Seq(S))
  PROVE  /\ FlattenSeq(ss) \in Seq(S)
         /\ \A n \in DOMAIN FlattenSeq(ss) : \E k \in DOMAIN ss : Contains(ss[k], FlattenSeq(ss)[n])
         /\ \A k \in DOMAIN ss : \A x : Contains(ss[k], x) => Contains(FlattenSeq(ss), x)
<1>1. CASE ss = << >>
  <2>1. FlattenSeq(ss) = << >>
    BY <1>1 DEF FlattenSeq
  <2> QED BY <2>1, <1>1, EmptySeq
<1>2. CASE ss # << >>
  <2>1. Len(ss) \in Nat /\ Len(ss) # 0 /\ DOMAIN ss = 1..Len(ss)
    BY <1>2, EmptySeq
  <2>2. PICK f : Flattens(f, ss, Len(ss)) /\ FlattenSeq(ss) = f[Len(ss)]
    BY <1>2, FlattenSeqIs
  <2>3. \A n \in 1..Len(ss) : f[n] = IF n = 1 THEN ss[n] ELSE f[n - 1] \o ss[n]
    BY <2>2 DEF Flattens
  <2> DEFINE Holds(n) ==
               /\ f[n] \in Seq(S)
               /\ \A m \in 1..Len(f[n]) : \E k \in 1..n : Contains(ss[k], f[n][m])
               /\ \A k \in 1..n : \A x : Contains(ss[k], x) => Contains(f[n], x)
             G == {n \in 0..Len(ss) : n # 0 => Holds(n)}
  <2>4. 0 \in G
    BY <2>1
  <2>5. ASSUME NEW n \in 0..Len(ss), n \in G, n < Len(ss) PROVE n + 1 \in G
    <3>1. n + 1 \in 1..Len(ss) /\ n + 1 \in 0..Len(ss) /\ (n + 1) - 1 = n /\ n \in Nat
      BY <2>1, <2>5
    <3>2. ss[n + 1] \in Seq(S)
      BY <3>1, ElementOfSeq
    <3>3. CASE n = 0
      <4>1. f[1] = ss[1] /\ ss[1] \in Seq(S)
        BY <2>3, <3>1, <3>2, <3>3
      <4>2. Holds(1)
        BY <4>1 DEF Contains
      <4> QED BY <4>2, <3>1, <3>3
    <3>4. CASE n # 0
      <4>1. Holds(n) /\ n \in 1..n
        BY <2>5, <3>1, <3>4
      <4>2. n + 1 # 1
        BY <3>1, <3>4
      <4>3. f[n + 1] = f[n] \o ss[n + 1]
        BY <2>3, <3>1, <4>2
      <4> DEFINE a == f[n]  b == ss[n + 1]  c == f[n + 1]
      <4>4. c \in Seq(S) /\ Len(c) = Len(a) + Len(b) /\ Len(a) \in Nat /\ Len(b) \in Nat
            /\ \A m \in 1..Len(a) + Len(b) : c[m] = IF m <= Len(a) THEN a[m] ELSE b[m - Len(a)]
        <5>1. a \in Seq(S) /\ b \in Seq(S) /\ c = a \o b
          BY <4>1, <3>2, <4>3
        <5> HIDE DEF a, b, c
        <5> QED BY <5>1, ConcatProperties, LenProperties
      <4>5. \A x : Contains(a, x) => Contains(c, x)
        <5> HIDE DEF a, b, c
        <5> QED BY <4>4 DEF Contains
      <4>6. \A x : Contains(b, x) => Contains(c, x)
        <5> SUFFICES ASSUME NEW x, NEW m \in 1..Len(b), b[m] = x PROVE Contains(c, x)
          BY DEF Contains
        <5> HIDE DEF a, b, c
        <5>1. Len(a) + m \in 1..Len(c) /\ ~(Len(a) + m <= Len(a)) /\ (Len(a) + m) - Len(a) = m
          BY <4>4
        <5>2. c[Len(a) + m] = x
          BY <4>4, <5>1
        <5> QED BY <5>1, <5>2 DEF Contains
      <4>7. \A m \in 1..Len(c) : Contains(b, c[m]) \/ \E j \in 1..Len(a) : c[m] = a[j]
        <5> SUFFICES ASSUME NEW m \in 1..Len(c), ~(m <= Len(a)) PROVE Contains(b, c[m])
          <6>1. ASSUME NEW m \in 1..Len(c), m <= Len(a) PROVE m \in 1..Len(a) /\ c[m] = a[m]
            <7> HIDE DEF a, b, c
            <7> QED BY <4>4, <6>1
          <6> HIDE DEF a, b, c
          <6> QED BY <6>1
        <5> HIDE DEF a, b, c
        <5>1. m - Len(a) \in 1..Len(b) /\ c[m] = b[m - Len(a)]
          BY <4>4
        <5> QED BY <5>1 DEF Contains
      <4>8. 1..n \subseteq 1..(n + 1) /\ n + 1 \in 1..(n + 1)
            /\ \A k \in 1..(n + 1) : k \in 1..n \/ k = n + 1
        BY <3>1
      <4>9. Holds(n + 1)
        BY <4>1, <4>4, <4>5, <4>6, <4>7, <4>8
      <4> QED BY <4>9, <3>1
    <3> QED BY <3>3, <3>4
  <2> HIDE DEF G
  <2>6. \A n \in 0..Len(ss) : n \in G /\ n < Len(ss) => n + 1 \in G
    BY <2>5
  <2>7. 0..Len(ss) \subseteq G
    BY <2>1, <2>4, <2>6, Induction
  <2>8. Len(ss) \in 0..Len(ss)
    BY <2>1
  <2>9. Holds(Len(ss))
    BY <2>1, <2>7, <2>8 DEF G
  <2>10. DOMAIN f[Len(ss)] = 1..Len(f[Len(ss)])
    BY <2>9, LenProperties
  <2> QED BY <2>1, <2>2, <2>9, <2>10
<1> QED BY <1>1, <1>2

-----------------------------------------------------------------------------
(* Sorting by rank *)

\* B[x] is what comes before x in some strict total order of D, so that x's rank is
\* the size of B[x].
Orders(B, D) ==
  /\ IsFiniteSet(D) /\ B \in [D -> SUBSET D]
  /\ \A x \in D : x \notin B[x]
  /\ \A x, y \in D : x = y \/ x \in B[y] \/ y \in B[x]
  /\ \A x, y \in D : x \in B[y] => B[x] \subseteq B[y]

LEMMA RankIsMonotonic ==
  ASSUME NEW D, NEW B, Orders(B, D)
  PROVE  /\ Cardinality(D) \in Nat
         /\ \A x \in D : Cardinality(B[x]) \in 0..Cardinality(D) - 1
         /\ \A x, y \in D : x \in B[y] <=> Cardinality(B[x]) < Cardinality(B[y])
<1> USE DEF Orders
<1>1. Cardinality(D) \in Nat
  BY FS_CardinalityType
<1>2. ASSUME NEW x \in D
      PROVE  /\ IsFiniteSet(B[x]) /\ Cardinality(B[x]) \in Nat
             /\ Cardinality(B[x]) < Cardinality(D)
  <2>1. B[x] \in SUBSET D /\ B[x] # D
    OBVIOUS
  <2>2. IsFiniteSet(B[x]) /\ Cardinality(B[x]) <= Cardinality(D)
        /\ (Cardinality(D) = Cardinality(B[x]) => D = B[x])
    BY <2>1, FS_Subset
  <2>3. Cardinality(B[x]) \in Nat
    BY <2>2, FS_CardinalityType
  <2> QED BY <1>1, <2>1, <2>2, <2>3
<1>3. ASSUME NEW x \in D, NEW y \in D, x \in B[y] PROVE Cardinality(B[x]) < Cardinality(B[y])
  <2>1. B[x] \in SUBSET B[y] /\ B[x] # B[y]
    BY <1>3
  <2>2. Cardinality(B[x]) <= Cardinality(B[y])
        /\ (Cardinality(B[y]) = Cardinality(B[x]) => B[y] = B[x])
    BY <1>2, <2>1, FS_Subset
  <2> QED BY <1>2, <2>1, <2>2
<1>4. ASSUME NEW x \in D, NEW y \in D, Cardinality(B[x]) < Cardinality(B[y]) PROVE x \in B[y]
  <2>1. x # y
    BY <1>2, <1>4
  <2>2. y \notin B[x]
    <3>1. ~(Cardinality(B[y]) < Cardinality(B[x]))
      BY <1>2, <1>4
    <3> QED BY <1>3, <3>1
  <2> QED BY <2>1, <2>2
<1>5. \A x \in D : Cardinality(B[x]) \in 0..Cardinality(D) - 1
  BY <1>1, <1>2
<1> QED BY <1>1, <1>3, <1>4, <1>5

LEMMA Ranking ==
  ASSUME NEW D, NEW B, Orders(B, D)
  PROVE  /\ Cardinality(D) \in Nat
         /\ inOrderOf(D, B) \in [1..Cardinality(D) -> D]
         /\ \A x \in D : \E r \in 1..Cardinality(D) : inOrderOf(D, B)[r] = x
         /\ \A r, q \in 1..Cardinality(D) : r < q <=> inOrderOf(D, B)[r] \in B[inOrderOf(D, B)[q]]
<1> DEFINE n == Cardinality(D)
           rank == [x \in D |-> Cardinality(B[x])]
<1>1. n \in Nat /\ rank \in [D -> 0..n - 1]
      /\ \A x, y \in D : x \in B[y] <=> rank[x] < rank[y]
  BY RankIsMonotonic
<1>2. rank \in Injection(D, 0..n - 1)
  <2>1. ASSUME NEW x \in D, NEW y \in D, rank[x] = rank[y] PROVE x = y
    <3>1. rank[x] \in Int /\ ~(rank[x] < rank[y]) /\ ~(rank[y] < rank[x])
      <4> HIDE DEF rank, n
      <4> QED BY <1>1, <2>1
    <3> HIDE DEF rank, n
    <3>2. x = y \/ x \in B[y] \/ y \in B[x]
      BY DEF Orders
    <3> QED BY <1>1, <3>1, <3>2
  <2> HIDE DEF rank, n
  <2> QED BY <1>1, <2>1 DEF Injection, IsInjective
<1>3. rank \in Surjection(D, 0..n - 1)
  <2> HIDE DEF rank
  <2>1. IsFiniteSet(0..n - 1) /\ Cardinality(0..n - 1) = n
    <3>1. 0 \in Int /\ n - 1 \in Int
      BY <1>1
    <3>2. IsFiniteSet(0..n - 1)
          /\ Cardinality(0..n - 1) = IF 0 > n - 1 THEN 0 ELSE n - 1 - 0 + 1
      BY <3>1, FS_Interval
    <3> HIDE DEF n
    <3> QED BY <1>1, <3>2
  <2> QED BY <1>2, <2>1, FS_Injection
<1>4. \A k \in 0..n - 1 : \E x \in D : rank[x] = k
  <2> HIDE DEF rank, n
  <2> QED BY <1>3 DEF Surjection
<1>5. ASSUME NEW r \in 1..n
      PROVE  inOrderOf(D, B)[r] \in D /\ rank[inOrderOf(D, B)[r]] = r - 1
  <2>1. r - 1 \in 0..n - 1
    <3> HIDE DEF n
    <3> QED BY <1>1
  <2>2. \E x \in D : Cardinality(B[x]) = r - 1
    BY <1>4, <2>1
  <2>3. inOrderOf(D, B)[r] = CHOOSE x \in D : Cardinality(B[x]) = r - 1
    BY DEF inOrderOf
  <2> QED BY <2>2, <2>3
<1>6. ASSUME NEW x \in D PROVE \E r \in 1..n : inOrderOf(D, B)[r] = x
  <2>1. rank[x] \in 0..n - 1
    <3> HIDE DEF rank, n
    <3> QED BY <1>1
  <2>2. rank[x] + 1 \in 1..n /\ rank[x] + 1 - 1 = rank[x]
    <3> HIDE DEF rank, n
    <3> QED BY <1>1, <2>1
  <2>3. PICK r \in 1..n : r - 1 = rank[x]
    <3> HIDE DEF rank, n
    <3> QED BY <1>1, <2>1, <2>2
  <2>4. inOrderOf(D, B)[r] \in D /\ rank[inOrderOf(D, B)[r]] = rank[x]
    BY <1>5, <2>3
  <2>5. inOrderOf(D, B)[r] = x
    <3> HIDE DEF rank, n
    <3> QED BY <1>2, <2>4 DEF Injection, IsInjective
  <2> QED BY <2>5
<1>7. ASSUME NEW r \in 1..n, NEW q \in 1..n
      PROVE  r < q <=> inOrderOf(D, B)[r] \in B[inOrderOf(D, B)[q]]
  <2>1. inOrderOf(D, B)[r] \in D /\ rank[inOrderOf(D, B)[r]] = r - 1
        /\ inOrderOf(D, B)[q] \in D /\ rank[inOrderOf(D, B)[q]] = q - 1
    BY <1>5
  <2>2. inOrderOf(D, B)[r] \in B[inOrderOf(D, B)[q]] <=> r - 1 < q - 1
    <3> HIDE DEF rank, n
    <3> QED BY <1>1, <2>1
  <2> HIDE DEF rank, n
  <2> QED BY <1>1, <2>2
<1>8. inOrderOf(D, B) \in [1..n -> D]
  BY <1>5 DEF inOrderOf
<1> QED BY <1>1, <1>6, <1>7, <1>8

\* inOrder enumerates a finite set of numbers in increasing order.
LEMMA InOrder ==
  ASSUME NEW S, S \subseteq Nat, IsFiniteSet(S)
  PROVE  /\ Cardinality(S) \in Nat
         /\ inOrder(S) \in [1..Cardinality(S) -> S]
         /\ \A x \in S : \E r \in 1..Cardinality(S) : inOrder(S)[r] = x
         /\ \A r, q \in 1..Cardinality(S) : r < q <=> inOrder(S)[r] < inOrder(S)[q]
<1> DEFINE B == [x \in S |-> {y \in S : y < x}]
<1>1. B \in [S -> SUBSET S] /\ \A x, y \in S : x \in B[y] <=> x < y
  OBVIOUS
<1>2. inOrder(S) = inOrderOf(S, B)
  BY DEF inOrder
<1> HIDE DEF B
<1>3. Orders(B, S)
  <2>1. ASSUME NEW x \in S, NEW y \in S, x \in B[y] PROVE B[x] \subseteq B[y]
    <3> SUFFICES ASSUME NEW z \in B[x] PROVE z \in B[y]
      OBVIOUS
    <3>1. z \in S /\ z < x /\ x < y
      BY <1>1, <2>1
    <3>2. x \in Nat /\ y \in Nat /\ z \in Nat
      BY <3>1
    <3>3. z < y
      BY <3>1, <3>2
    <3> QED BY <1>1, <3>1, <3>3
  <2>2. \A x, y \in S : x \notin B[x] /\ (x = y \/ x \in B[y] \/ y \in B[x])
    BY <1>1
  <2> QED BY <1>1, <2>1, <2>2 DEF Orders
<1>4. Cardinality(S) \in Nat /\ inOrder(S) \in [1..Cardinality(S) -> S]
      /\ (\A x \in S : \E r \in 1..Cardinality(S) : inOrder(S)[r] = x)
      /\ \A r, q \in 1..Cardinality(S) : r < q <=> inOrder(S)[r] \in B[inOrder(S)[q]]
  BY <1>2, <1>3, Ranking
<1>5. \A r, q \in 1..Cardinality(S) : inOrder(S)[r] \in S /\ inOrder(S)[q] \in S
  BY <1>4
<1> QED BY <1>1, <1>4, <1>5

-----------------------------------------------------------------------------
(* sortedFindings *)

Finding ==
  [detector : Nat, kind : Nat, namespace : Nat, name : Nat,
   created : Int, cost : Int \cup {NoCost}, status : {"Skipped", "Orphaned"}]

\* Less is a strict weak order.
LEMMA LessOrders ==
  ASSUME NEW a \in Finding, NEW b \in Finding, NEW c \in Finding
  PROVE  /\ ~Less(a, a) /\ ~(Less(a, b) /\ Less(b, a))
         /\ Less(a, b) => Less(a, c) \/ Less(c, b)
         /\ ~Less(b, a) => a.kind <= b.kind
<1>1. {a.kind, a.namespace, a.name, a.detector} \subseteq Nat
  BY DEF Finding
<1>2. {b.kind, b.namespace, b.name, b.detector} \subseteq Nat
  BY DEF Finding
<1>3. {c.kind, c.namespace, c.name, c.detector} \subseteq Nat
  BY DEF Finding
<1> QED BY <1>1, <1>2, <1>3 DEF Less

LEMMA SortedFindings ==
  ASSUME NEW fs \in Seq(Finding)
  PROVE  /\ placesInOrder(fs) \in [DOMAIN fs -> DOMAIN fs]
         /\ \A m \in DOMAIN fs : \E r \in DOMAIN fs : placesInOrder(fs)[r] = m
         /\ \A r, q \in DOMAIN fs : placesInOrder(fs)[r] = placesInOrder(fs)[q] => r = q
         /\ sortedFindings(fs) \in Seq(Finding) /\ DOMAIN sortedFindings(fs) = DOMAIN fs
         /\ Len(sortedFindings(fs)) = Len(fs)
         /\ \A r \in DOMAIN fs : sortedFindings(fs)[r] = fs[placesInOrder(fs)[r]]
         /\ \A r, q \in DOMAIN fs : r < q => sortedFindings(fs)[r].kind <= sortedFindings(fs)[q].kind
<1> DEFINE D == DOMAIN fs
           B == [y \in D |-> {x \in D : Less(fs[x], fs[y]) \/ (~Less(fs[y], fs[x]) /\ x < y)}]
           p == placesInOrder(fs)
<1>1. D = 1..Len(fs) /\ Len(fs) \in Nat /\ \A x \in D : fs[x] \in Finding
  BY ElementOfSeq
<1>2. IsFiniteSet(D) /\ Cardinality(D) = Len(fs)
  <2>1. IsFiniteSet(1..Len(fs))
        /\ Cardinality(1..Len(fs)) = IF 1 > Len(fs) THEN 0 ELSE Len(fs) - 1 + 1
    BY <1>1, FS_Interval
  <2>2. (IF 1 > Len(fs) THEN 0 ELSE Len(fs) - 1 + 1) = Len(fs)
    BY <1>1
  <2> QED BY <1>1, <2>1, <2>2
<1>3. B \in [D -> SUBSET D]
      /\ \A x, y \in D : x \in B[y] <=> Less(fs[x], fs[y]) \/ (~Less(fs[y], fs[x]) /\ x < y)
  OBVIOUS
<1>4. p = inOrderOf(D, B)
  BY DEF placesInOrder
<1> HIDE DEF B, p
<1>5. Orders(B, D)
  <2>1. ASSUME NEW x \in D, NEW y \in D
        PROVE  x \notin B[x] /\ (x = y \/ x \in B[y] \/ y \in B[x])
    <3>1. x \in Int /\ y \in Int /\ fs[x] \in Finding /\ fs[y] \in Finding
      BY <1>1
    <3>2. ~Less(fs[x], fs[x]) /\ ~(Less(fs[x], fs[y]) /\ Less(fs[y], fs[x]))
      BY <3>1, LessOrders
    <3> HIDE DEF D
    <3> QED BY <1>3, <3>1, <3>2
  <2>2. ASSUME NEW x \in D, NEW y \in D, x \in B[y], NEW z \in B[x] PROVE z \in B[y]
    <3>1. z \in D
      BY <1>3
    <3>2. x \in Int /\ y \in Int /\ z \in Int
          /\ fs[x] \in Finding /\ fs[y] \in Finding /\ fs[z] \in Finding
      BY <1>1, <3>1
    <3>3. /\ ~(Less(fs[x], fs[y]) /\ Less(fs[y], fs[x]))
          /\ ~(Less(fs[z], fs[x]) /\ Less(fs[x], fs[z]))
          /\ Less(fs[y], fs[z]) => Less(fs[y], fs[x]) \/ Less(fs[x], fs[z])
          /\ Less(fs[z], fs[x]) => Less(fs[z], fs[y]) \/ Less(fs[y], fs[x])
          /\ Less(fs[x], fs[y]) => Less(fs[x], fs[z]) \/ Less(fs[z], fs[y])
      BY <3>2, LessOrders
    <3>4. /\ Less(fs[x], fs[y]) \/ (~Less(fs[y], fs[x]) /\ x < y)
          /\ Less(fs[z], fs[x]) \/ (~Less(fs[x], fs[z]) /\ z < x)
      BY <1>3, <2>2, <3>1
    <3>5. Less(fs[z], fs[y]) \/ (~Less(fs[y], fs[z]) /\ z < y)
      <4>1. x < y /\ z < x => z < y
        BY <3>2
      <4> QED BY <3>3, <3>4, <4>1
    <3> QED BY <1>3, <3>1, <3>5
  <2>3. \A x, y \in D : x \in B[y] => B[x] \subseteq B[y]
    BY <2>2
  <2> HIDE DEF D
  <2> QED BY <1>2, <1>3, <2>1, <2>3 DEF Orders
<1>6. /\ p \in [D -> D] /\ \A m \in D : \E r \in D : p[r] = m
      /\ \A r, q \in D : r < q <=> p[r] \in B[p[q]]
  <2>1. 1..Cardinality(D) = D
    BY <1>1, <1>2
  <2> HIDE DEF D
  <2>2. /\ p \in [1..Cardinality(D) -> D]
        /\ \A m \in D : \E r \in 1..Cardinality(D) : p[r] = m
        /\ \A r, q \in 1..Cardinality(D) : r < q <=> p[r] \in B[p[q]]
    BY <1>4, <1>5, Ranking
  <2> QED BY <2>1, <2>2
<1>7. \A r, q \in D : p[r] = p[q] => r = q
  <2> SUFFICES ASSUME NEW r \in D, NEW q \in D, p[r] = p[q] PROVE r = q
    OBVIOUS
  <2>1. p[r] \notin B[p[r]]
    BY <1>5, <1>6 DEF Orders
  <2>2. ~(r < q) /\ ~(q < r)
    BY <1>6, <2>1
  <2>3. r \in Int /\ q \in Int
    BY <1>1
  <2> QED BY <2>2, <2>3
<1>8. sortedFindings(fs) = [r \in D |-> fs[p[r]]]
  BY DEF sortedFindings, p
<1>9. sortedFindings(fs) \in Seq(Finding) /\ DOMAIN sortedFindings(fs) = D
      /\ Len(sortedFindings(fs)) = Len(fs)
  <2>1. \A r \in 1..Len(fs) : fs[p[r]] \in Finding
    BY <1>1, <1>6
  <2>2. sortedFindings(fs) = [r \in 1..Len(fs) |-> fs[p[r]]]
    BY <1>1, <1>8
  <2>3. sortedFindings(fs) \in Seq(Finding)
    BY <1>1, <2>1, <2>2
  <2> QED BY <1>1, <2>2, <2>3
<1>10. ASSUME NEW r \in D, NEW q \in D, r < q
       PROVE  sortedFindings(fs)[r].kind <= sortedFindings(fs)[q].kind
  <2>1. p[r] \in D /\ p[q] \in D /\ p[r] \in B[p[q]]
    BY <1>6, <1>10
  <2>2. fs[p[r]] \in Finding /\ fs[p[q]] \in Finding
    BY <1>1, <2>1
  <2>3. ~Less(fs[p[q]], fs[p[r]])
    BY <1>3, <2>1, <2>2, LessOrders
  <2>4. fs[p[r]].kind <= fs[p[q]].kind
    BY <2>2, <2>3, LessOrders
  <2> QED BY <1>8, <2>4
<1> QED BY <1>6, <1>7, <1>8, <1>9, <1>10 DEF p

-----------------------------------------------------------------------------
(* groupedByKind *)

\* The sections gs cut s up into pieces, without a gap: piece g ends at e[g].
CutsUp(gs, s, e) ==
  /\ e[0] = 0 /\ e[Len(gs)] = Len(s)
  /\ \A g \in 0..Len(gs) : e[g] \in 0..Len(s)
  /\ \A g \in 1..Len(gs) :
       e[g - 1] <= e[g] /\ gs[g].findings = SubSeq(s, e[g - 1] + 1, e[g])

LEMMA GroupedByKind ==
  ASSUME NEW s \in Seq(Finding), s # << >>,
         \A r, q \in DOMAIN s : r < q => s[r].kind <= s[q].kind
  PROVE  /\ \E S : groupedByKind(s) \in Seq(S)
         /\ Len(groupedByKind(s)) # 0
         /\ \A g \in 1..Len(groupedByKind(s)) : groupedByKind(s)[g].piece = "section"
         /\ \A g, h \in 1..Len(groupedByKind(s)) :
              groupedByKind(s)[g].kind = groupedByKind(s)[h].kind => g = h
         /\ \E e : CutsUp(groupedByKind(s), s, e)
<1> DEFINE T == {n \in DOMAIN s : n = 1 \/ s[n - 1].kind # s[n].kind}
           m == Cardinality(T)
           starts == inOrder(T)
           end(g) == IF g = Len(starts) THEN Len(s) ELSE starts[g + 1] - 1
           Group(g) == SubSeq(s, starts[g], end(g))
           Section(g) == [piece |-> "section", kind |-> s[starts[g]].kind,
                          label |-> detectorLabel(Group(g)), findings |-> Group(g)]
           gs == groupedByKind(s)
<1>1. Len(s) \in Nat /\ Len(s) # 0 /\ DOMAIN s = 1..Len(s)
      /\ \A n \in 1..Len(s) : s[n] \in Finding /\ s[n].kind \in Nat
  <2>1. Len(s) \in Nat /\ Len(s) # 0 /\ DOMAIN s = 1..Len(s) /\ \A n \in 1..Len(s) : s[n] \in Finding
    BY EmptySeq, ElementOfSeq
  <2> QED BY <2>1 DEF Finding
<1>2. T \subseteq 1..Len(s) /\ T \subseteq Nat /\ IsFiniteSet(T) /\ 1 \in T
  <2>1. T \subseteq 1..Len(s) /\ T \subseteq Nat /\ 1 \in T
    BY <1>1
  <2>2. IsFiniteSet(1..Len(s))
    BY <1>1, FS_Interval
  <2> QED BY <2>1, <2>2, FS_Subset
<1>3. /\ m \in Nat /\ starts \in [1..m -> T]
      /\ \A n \in T : \E r \in 1..m : starts[r] = n
      /\ \A r, q \in 1..m : r < q <=> starts[r] < starts[q]
  <2> HIDE DEF T
  <2> QED BY <1>2, InOrder
<1> HIDE DEF T, m, starts
<1>4. m # 0 /\ Len(starts) = m /\ DOMAIN starts = 1..m /\ starts[1] = 1
      /\ \A g \in 1..m : starts[g] \in 1..Len(s)
  <2>1. PICK r \in 1..m : starts[r] = 1
    BY <1>2, <1>3
  <2>2. m # 0 /\ 1 \in 1..m /\ r \in Int
    BY <1>3
  <2>3. starts[1] \in 1..Len(s) /\ (1 < r => starts[1] < 1)
    BY <1>2, <1>3, <2>1, <2>2
  <2>4. starts[1] = 1
    BY <1>1, <2>1, <2>2, <2>3
  <2>5. starts \in Seq(T)
    BY <1>3
  <2>6. Len(starts) = m /\ DOMAIN starts = 1..m
    BY <1>3, <2>5
  <2> QED BY <1>2, <1>3, <2>2, <2>4, <2>6
<1>5. gs = [g \in 1..m |-> Section(g)]
  BY <1>4 DEF groupedByKind, starts, T
<1> DEFINE S == {Section(g) : g \in 1..m}
<1>6. gs \in Seq(S) /\ Len(gs) = m
  <2> HIDE DEF Section
  <2>1. \A g \in 1..m : Section(g) \in S
    OBVIOUS
  <2> HIDE DEF S, gs
  <2> QED BY <1>3, <1>5, <2>1
<1> HIDE DEF gs
<1>7. \A g \in 1..m : gs[g].piece = "section" /\ gs[g].kind = s[starts[g]].kind
                      /\ gs[g].findings = SubSeq(s, starts[g], end(g))
  BY <1>5
<1>8. ASSUME NEW g \in 1..m, NEW h \in 1..m, g < h PROVE gs[g].kind < gs[h].kind
  <2>1. starts[g] \in 1..Len(s) /\ starts[h] \in 1..Len(s) /\ starts[g] < starts[h]
        /\ starts[h] \in T
    BY <1>3, <1>4, <1>8
  <2>2. starts[h] # 1 /\ starts[h] - 1 \in 1..Len(s) /\ starts[g] <= starts[h] - 1
    BY <1>1, <2>1
  <2>3. s[starts[h] - 1].kind # s[starts[h]].kind
    BY <2>1, <2>2 DEF T
  <2> DEFINE a == starts[g]  b == starts[h] - 1  c == starts[h]
  <2>4. a \in 1..Len(s) /\ b \in 1..Len(s) /\ c \in 1..Len(s) /\ (a = b \/ a < b) /\ b < c
    BY <1>1, <2>1, <2>2
  <2> HIDE DEF a, b, c
  <2>5. s[b].kind <= s[c].kind /\ (a = b \/ s[a].kind <= s[b].kind)
        /\ {s[a].kind, s[b].kind, s[c].kind} \subseteq Nat
    BY <1>1, <2>4
  <2>6. s[b].kind # s[c].kind
    BY <2>3 DEF b, c
  <2>7. s[a].kind < s[c].kind
    BY <2>5, <2>6
  <2> QED BY <1>7, <2>7 DEF a, c
<1>9. \A g, h \in 1..m : gs[g].kind = gs[h].kind => g = h
  <2> SUFFICES ASSUME NEW g \in 1..m, NEW h \in 1..m, gs[g].kind = gs[h].kind PROVE g = h
    OBVIOUS
  <2>1. gs[g].kind \in Nat /\ gs[h].kind \in Nat
    BY <1>1, <1>4, <1>7
  <2>2. ~(g < h) /\ ~(h < g)
    BY <1>8, <2>1
  <2> QED BY <1>3, <2>2
<1>10. \E e : CutsUp(gs, s, e)
  <2> DEFINE e == [g \in 0..m |-> IF g = 0 THEN 0 ELSE end(g)]
  <2>1. \A g \in 1..m : end(g) \in starts[g]..Len(s) /\ end(g) \in Nat
    <3> SUFFICES ASSUME NEW g \in 1..m
                 PROVE  end(g) \in starts[g]..Len(s) /\ end(g) \in Nat
      OBVIOUS
    <3>1. starts[g] \in 1..Len(s)
      BY <1>4
    <3>2. CASE g = m
      BY <1>1, <1>4, <3>1, <3>2
    <3>3. CASE g # m
      <4>1. g + 1 \in 1..m /\ g < g + 1
        BY <1>3, <3>3
      <4>2. starts[g + 1] \in 1..Len(s) /\ starts[g] < starts[g + 1]
        BY <1>3, <1>4, <4>1
      <4> QED BY <1>1, <1>4, <3>1, <3>3, <4>2
    <3> QED BY <3>2, <3>3
  <2>2. \A g \in 1..m : e[g - 1] + 1 = starts[g]
    <3> SUFFICES ASSUME NEW g \in 1..m PROVE e[g - 1] + 1 = starts[g]
      OBVIOUS
    <3>1. g - 1 \in 0..m
      BY <1>3
    <3>2. CASE g = 1
      BY <1>3, <1>4, <3>2
    <3>3. CASE g # 1
      <4>1. g - 1 # 0 /\ g - 1 # m /\ (g - 1) + 1 = g
        BY <1>3, <3>3
      <4>2. e[g - 1] = starts[g] - 1
        BY <1>4, <3>1, <4>1
      <4>3. starts[g] \in Int
        BY <1>4
      <4> HIDE DEF e
      <4> QED BY <4>2, <4>3
    <3> QED BY <3>2, <3>3
  <2>3. \A g \in 1..m : e[g] = end(g)
    BY <1>3
  <2>4. e[0] = 0 /\ e[m] = Len(s)
    BY <1>3, <1>4
  <2> HIDE DEF e, end
  <2>5. \A g \in 1..m : e[g - 1] <= e[g] /\ gs[g].findings = SubSeq(s, e[g - 1] + 1, e[g])
    <3> SUFFICES ASSUME NEW g \in 1..m
                 PROVE  e[g - 1] <= e[g] /\ gs[g].findings = SubSeq(s, e[g - 1] + 1, e[g])
      OBVIOUS
    <3>1. g - 1 \in 0..m /\ (g - 1 = 0 \/ g - 1 \in 1..m)
      BY <1>3
    <3>2. e[g - 1] \in Int
      BY <2>1, <2>3, <2>4, <3>1
    <3>3. e[g] \in Int /\ starts[g] <= e[g] /\ starts[g] \in Int
      BY <1>4, <2>1, <2>3
    <3>4. e[g - 1] <= e[g]
      BY <2>2, <3>2, <3>3
    <3> QED BY <1>7, <2>2, <2>3, <3>4
  <2>6. \A g \in 0..m : e[g] \in 0..Len(s)
    <3> SUFFICES ASSUME NEW g \in 0..m PROVE e[g] \in 0..Len(s)
      OBVIOUS
    <3>1. g = 0 \/ g \in 1..m
      BY <1>3
    <3> QED BY <1>1, <2>1, <2>3, <2>4, <3>1
  <2>7. CutsUp(gs, s, e)
    BY <1>6, <2>4, <2>5, <2>6 DEF CutsUp
  <2> QED BY <2>7
<1>11. \E U : gs \in Seq(U)
  BY <1>6
<1> HIDE DEF S
<1>12. Len(gs) = m /\ m # 0
  BY <1>4, <1>6
<1> QED BY <1>7, <1>9, <1>10, <1>11, <1>12 DEF gs

-----------------------------------------------------------------------------
(* The pieces a renderer writes *)

shownBy(w) ==
  FlattenSeq([n \in DOMAIN w |->
    IF w[n].piece \in {"section", "array"} THEN w[n].findings ELSE << >>])

\* The pieces w are h and the sections of fs.
Sectioned(w, h, fs) ==
  /\ \E S : w \in Seq(S)
  /\ w # << >> /\ w[1] = h
  /\ \A n \in DOMAIN w : n # 1 => w[n].piece = "section"
  /\ shownBy(w) = sortedFindings(fs)
  /\ \A m, n \in DOMAIN w :
       w[m].piece = "section" /\ w[n].piece = "section" /\ w[m].kind = w[n].kind => m = n
  /\ Cardinality({m \in DOMAIN w : w[m].piece = "section"})
       = Len(groupedByKind(sortedFindings(fs)))

\* A renderer that writes h at the head and the sections after it shows each finding once.
LEMMA HeadAndSections ==
  ASSUME NEW fs \in Seq(Finding), fs # << >>,
         NEW h, h.piece \notin {"section", "array"}
  PROVE  Sectioned(<<h>> \o groupedByKind(sortedFindings(fs)), h, fs)
<1>0. PICK w : w = <<h>> \o groupedByKind(sortedFindings(fs))
  OBVIOUS
<1> DEFINE s == sortedFindings(fs)
           gs == groupedByKind(s)
<1>1. s \in Seq(Finding) /\ s # << >>
      /\ \A r, q \in DOMAIN s : r < q => s[r].kind <= s[q].kind
  <2>1. Len(fs) # 0
    BY EmptySeq
  <2>2. s \in Seq(Finding) /\ Len(s) = Len(fs) /\ DOMAIN s = DOMAIN fs
        /\ \A r, q \in DOMAIN s : r < q => s[r].kind <= s[q].kind
    BY SortedFindings
  <2> HIDE DEF s
  <2> QED BY <2>1, <2>2
<1> HIDE DEF s
<1>2. PICK S : gs \in Seq(S)
  BY <1>1, GroupedByKind
<1>3. Len(gs) \in Nat /\ Len(gs) # 0
      /\ (\A g \in 1..Len(gs) : gs[g].piece = "section")
      /\ (\A g, k \in 1..Len(gs) : gs[g].kind = gs[k].kind => g = k)
  BY <1>1, <1>2, GroupedByKind
<1>4. PICK e : CutsUp(gs, s, e)
  BY <1>1, GroupedByKind
<1> HIDE DEF gs
<1>5. w \in Seq(S \cup {h}) /\ Len(w) = Len(gs) + 1 /\ DOMAIN w = 1..Len(gs) + 1 /\ w[1] = h
      /\ \A n \in 1..Len(gs) : w[n + 1] = gs[n]
  <2> DEFINE one == <<h>>
  <2>1. one \in Seq(S \cup {h}) /\ gs \in Seq(S \cup {h}) /\ Len(one) = 1 /\ one[1] = h
    BY <1>2
  <2>2. w = one \o gs
    BY <1>0 DEF gs, s
  <2> HIDE DEF one
  <2>3. one \o gs \in Seq(S \cup {h}) /\ Len(one \o gs) = Len(one) + Len(gs)
        /\ \A n \in 1..Len(one) + Len(gs) :
             (one \o gs)[n] = IF n <= Len(one) THEN one[n] ELSE gs[n - Len(one)]
    BY <2>1, ConcatProperties
  <2>4. w \in Seq(S \cup {h}) /\ Len(w) = Len(gs) + 1
    <3>1. w \in Seq(S \cup {h})
      BY <2>2, <2>3
    <3>2. Len(w) = Len(one) + Len(gs)
      BY <2>2, <2>3
    <3>3. Len(one) + Len(gs) = Len(gs) + 1
      BY <1>3, <2>1
    <3> QED BY <3>1, <3>2, <3>3
  <2>5. DOMAIN w = 1..Len(gs) + 1
    BY <2>4
  <2>6. ASSUME NEW n \in 1..Len(gs) PROVE w[n + 1] = gs[n]
    <3>1. n + 1 \in 1..1 + Len(gs) /\ ~(n + 1 <= 1) /\ (n + 1) - 1 = n
      BY <1>3
    <3> QED BY <2>1, <2>2, <2>3, <3>1
  <2>7. w[1] = h
    <3>1. 1 \in 1..1 + Len(gs)
      BY <1>3
    <3> QED BY <2>1, <2>2, <2>3, <3>1
  <2> QED BY <2>4, <2>5, <2>6, <2>7
<1>6. \A n \in DOMAIN w : n # 1 => n - 1 \in 1..Len(gs) /\ w[n] = gs[n - 1] /\ w[n].piece = "section"
  <2> SUFFICES ASSUME NEW n \in DOMAIN w, n # 1
               PROVE  n - 1 \in 1..Len(gs) /\ w[n] = gs[n - 1] /\ w[n].piece = "section"
    OBVIOUS
  <2>1. n - 1 \in 1..Len(gs) /\ (n - 1) + 1 = n
    BY <1>3, <1>5
  <2>2. w[n] = gs[n - 1]
    BY <1>5, <2>1
  <2> QED BY <1>3, <2>1, <2>2
<1>7. shownBy(w) = s
  <2> DEFINE ss == [n \in DOMAIN w |->
                      IF w[n].piece \in {"section", "array"} THEN w[n].findings ELSE << >>]
             c == [n \in 0..Len(gs) + 1 |-> IF n = 0 THEN 0 ELSE e[n - 1]]
  <2>1. ss[1] = << >> /\ \A n \in DOMAIN w : n # 1 => ss[n] = gs[n - 1].findings
    <3>1. 1 \in DOMAIN w
      BY <1>3, <1>5
    <3>2. ss[1] = << >>
      BY <1>5, <3>1
    <3> QED BY <1>6, <3>2
  <2>2. /\ e[0] = 0 /\ e[Len(gs)] = Len(s)
        /\ \A g \in 0..Len(gs) : e[g] \in 0..Len(s)
        /\ \A g \in 1..Len(gs) :
             e[g - 1] <= e[g] /\ gs[g].findings = SubSeq(s, e[g - 1] + 1, e[g])
    BY <1>4 DEF CutsUp
  <2>3. Len(s) \in Nat
    BY <1>1
  <2>4. c[0] = 0 /\ c[1] = 0 /\ c[Len(gs) + 1] = Len(s)
        /\ \A n \in 1..Len(gs) + 1 : c[n] = e[n - 1]
    BY <1>3, <2>2
  <2>5. \A n \in 0..Len(gs) + 1 : c[n] \in 0..Len(s)
    <3> SUFFICES ASSUME NEW n \in 0..Len(gs) + 1 PROVE c[n] \in 0..Len(s)
      OBVIOUS
    <3>1. CASE n = 0
      BY <2>3, <2>4, <3>1
    <3>2. CASE n # 0
      <4>1. n \in 1..Len(gs) + 1 /\ n - 1 \in 0..Len(gs)
        BY <1>3, <3>2
      <4> QED BY <2>2, <2>4, <4>1
    <3> QED BY <3>1, <3>2
  <2> HIDE DEF c
  <2>6. \A n \in 1..Len(gs) + 1 : c[n - 1] <= c[n] /\ ss[n] = SubSeq(s, c[n - 1] + 1, c[n])
                                  /\ ss[n] \in Seq(Finding)
    <3> SUFFICES ASSUME NEW n \in 1..Len(gs) + 1
                 PROVE  c[n - 1] <= c[n] /\ ss[n] = SubSeq(s, c[n - 1] + 1, c[n])
                        /\ ss[n] \in Seq(Finding)
      OBVIOUS
    <3> HIDE DEF ss
    <3>1. CASE n = 1
      <4>1. SubSeq(s, 0 + 1, 0) = << >>
        BY SubSeqEmpty
      <4>2. n - 1 = 0 /\ ss[n] = << >> /\ c[n] = 0 /\ c[n - 1] = 0
        BY <2>1, <2>4, <3>1
      <4> QED BY <4>1, <4>2, EmptySeq
    <3>2. CASE n # 1
      <4>1. n - 1 \in 1..Len(gs) /\ n - 1 \in 1..Len(gs) + 1 /\ n \in DOMAIN w /\ n - 1 # 0
        BY <1>3, <1>5, <3>2
      <4>2. c[n] = e[n - 1] /\ c[n - 1] = e[n - 1 - 1]
        BY <2>4, <4>1
      <4>3. c[n - 1] <= c[n] /\ ss[n] = SubSeq(s, c[n - 1] + 1, c[n])
        <5>1. ss[n] = gs[n - 1].findings
          BY <2>1, <3>2, <4>1
        <5>2. e[n - 1 - 1] <= e[n - 1] /\ gs[n - 1].findings = SubSeq(s, e[n - 1 - 1] + 1, e[n - 1])
          BY <2>2, <4>1
        <5> QED BY <4>2, <5>1, <5>2
      <4>4. c[n - 1] + 1 \in Int /\ c[n] \in Int
            /\ \A x \in (c[n - 1] + 1)..c[n] : x \in 1..Len(s)
        <5>1. n - 1 \in 0..Len(gs) + 1 /\ n \in 0..Len(gs) + 1
          BY <1>3, <4>1
        <5>2. c[n - 1] \in 0..Len(s) /\ c[n] \in 0..Len(s)
          BY <2>5, <5>1
        <5> QED BY <2>3, <5>2
      <4>5. \A x \in (c[n - 1] + 1)..c[n] : s[x] \in Finding
        BY <1>1, <4>4, ElementOfSeq
      <4>6. SubSeq(s, c[n - 1] + 1, c[n]) \in Seq(Finding)
        BY <4>4, <4>5, SubSeqProperties
      <4> QED BY <4>3, <4>6
    <3> QED BY <3>1, <3>2
  <2>7. DOMAIN ss = 1..Len(gs) + 1
    BY <1>5
  <2> HIDE DEF ss
  <2>8. ss \in Seq(Seq(Finding)) /\ Len(ss) = Len(gs) + 1
    <3>1. ss = [n \in 1..Len(gs) + 1 |-> ss[n]]
      <4>1. ss = [n \in DOMAIN ss |-> ss[n]]
        BY DEF ss
      <4> QED BY <2>7, <4>1
    <3>2. Len(gs) + 1 \in Nat
      BY <1>3
    <3>3. ss \in [1..Len(gs) + 1 -> Seq(Finding)]
      BY <2>6, <3>1
    <3> QED BY <3>2, <3>3
  <2>9. ss # << >>
    BY <1>3, <2>8
  <2>10. FlattenSeq(ss) = s
    BY <1>1, <2>4, <2>5, <2>6, <2>8, <2>9, FlattenPieces
  <2> QED BY <2>10 DEF shownBy, ss
<1>8. \A m, n \in DOMAIN w :
        w[m].piece = "section" /\ w[n].piece = "section" /\ w[m].kind = w[n].kind => m = n
  <2> SUFFICES ASSUME NEW m \in DOMAIN w, NEW n \in DOMAIN w, w[m].piece = "section",
                      w[n].piece = "section", w[m].kind = w[n].kind
               PROVE  m = n
    OBVIOUS
  <2>1. m # 1 /\ n # 1
    BY <1>5
  <2>2. m - 1 \in 1..Len(gs) /\ n - 1 \in 1..Len(gs) /\ gs[m - 1].kind = gs[n - 1].kind
    BY <1>6, <2>1
  <2>3. m - 1 = n - 1
    BY <1>3, <2>2
  <2>4. m \in Int /\ n \in Int
    BY <1>5
  <2> QED BY <2>3, <2>4
<1>9. Cardinality({m \in DOMAIN w : w[m].piece = "section"}) = Len(gs)
  <2>1. {m \in DOMAIN w : w[m].piece = "section"} = 2..Len(gs) + 1
    <3>1. \A m \in DOMAIN w : w[m].piece = "section" <=> m # 1
      BY <1>5, <1>6
    <3>2. \A m \in 1..Len(gs) + 1 : m # 1 <=> m \in 2..Len(gs) + 1
      BY <1>3
    <3>3. 2..Len(gs) + 1 \subseteq 1..Len(gs) + 1
      BY <1>3
    <3> QED BY <1>5, <3>1, <3>2, <3>3
  <2>2. Cardinality(2..Len(gs) + 1)
          = IF 2 > Len(gs) + 1 THEN 0 ELSE (Len(gs) + 1) - 2 + 1
    <3>1. 2 \in Int /\ Len(gs) + 1 \in Int
      BY <1>3
    <3> QED BY <3>1, FS_Interval
  <2>3. (IF 2 > Len(gs) + 1 THEN 0 ELSE (Len(gs) + 1) - 2 + 1) = Len(gs)
    BY <1>3
  <2> QED BY <2>1, <2>2, <2>3
<1>10. w # << >>
  BY <1>3, <1>5
<1>11. \E U : w \in Seq(U)
  BY <1>5
<1>12. Sectioned(w, h, fs)
  BY <1>5, <1>6, <1>7, <1>8, <1>9, <1>10, <1>11 DEF Sectioned, gs, s
<1> QED BY <1>0, <1>12

-----------------------------------------------------------------------------
(* Totals *)

Sums(f, v, n) == f = [k \in 0..n |-> IF k = 0 THEN 0 ELSE f[k - 1] + v[k]]

LEMMA SumsExist ==
  ASSUME NEW v \in Seq(Int), NEW n \in 0..Len(v)
  PROVE  \E f \in [0..n -> Int] : Sums(f, v, n)
<1> DEFINE G == {k \in 0..Len(v) : \E f \in [0..k -> Int] : Sums(f, v, k)}
<1>1. Len(v) \in Nat /\ \A k \in 1..Len(v) : v[k] \in Int
  BY ElementOfSeq
<1>2. 0 \in G
  <2> DEFINE f == [k \in 0..0 |-> 0]
  <2>1. f \in [0..0 -> Int] /\ Sums(f, v, 0)
    BY DEF Sums
  <2> QED BY <1>1, <2>1
<1>3. ASSUME NEW k \in 0..Len(v), k \in G, k < Len(v) PROVE k + 1 \in G
  <2>1. PICK f \in [0..k -> Int] : Sums(f, v, k)
    BY <1>3
  <2>2. k \in Nat /\ k + 1 \in 1..Len(v) /\ k + 1 \in 0..Len(v)
    BY <1>1, <1>3
  <2> DEFINE g == [m \in 0..k + 1 |-> IF m = k + 1 THEN f[k] + v[k + 1] ELSE f[m]]
  <2>3. g \in [0..k + 1 -> Int]
    BY <1>1, <2>2
  <2>4. ASSUME NEW m \in 0..k + 1
        PROVE  g[m] = IF m = 0 THEN 0 ELSE g[m - 1] + v[m]
    <3>1. CASE m = k + 1
      <4>1. g[m] = f[k] + v[k + 1] /\ g[k] = f[k] /\ m # 0 /\ m - 1 = k
        BY <2>2, <3>1
      <4> HIDE DEF g
      <4> QED BY <3>1, <4>1
    <3>2. CASE m # k + 1
      <4>1. m \in 0..k /\ g[m] = f[m] /\ (m # 0 => g[m - 1] = f[m - 1])
        BY <2>2, <3>2
      <4>2. f[m] = IF m = 0 THEN 0 ELSE f[m - 1] + v[m]
        BY <2>1, <4>1 DEF Sums
      <4> HIDE DEF g
      <4> QED BY <4>1, <4>2
    <3> QED BY <3>1, <3>2
  <2>5. g = [m \in 0..k + 1 |-> g[m]]
    OBVIOUS
  <2> HIDE DEF g
  <2>6. Sums(g, v, k + 1)
    BY <2>4, <2>5 DEF Sums
  <2> QED BY <2>2, <2>3, <2>6
<1> HIDE DEF G
<1>4. \A k \in 0..Len(v) : k \in G /\ k < Len(v) => k + 1 \in G
  BY <1>3
<1>5. 0..Len(v) \subseteq G
  BY <1>1, <1>2, <1>4, Induction
<1> QED BY <1>5 DEF G

LEMMA TotalIs ==
  ASSUME NEW v \in Seq(Int)
  PROVE  \E f \in [0..Len(v) -> Int] :
           /\ f[0] = 0 /\ total(v) = f[Len(v)]
           /\ \A n \in 1..Len(v) : f[n] = f[n - 1] + v[n]
<1>1. Len(v) \in Nat /\ \A k \in 1..Len(v) : v[k] \in Int
  BY ElementOfSeq
<1> DEFINE h == CHOOSE f : Sums(f, v, Len(v))
<1>2. Sums(h, v, Len(v))
  <2>1. Len(v) \in 0..Len(v)
    BY <1>1
  <2>2. \E f : Sums(f, v, Len(v))
    BY <2>1, SumsExist
  <2> QED BY <2>2
<1>3. total(v) = h[Len(v)]
  BY DEF total, Sums
<1> HIDE DEF h
<1>4. h = [k \in 0..Len(v) |-> IF k = 0 THEN 0 ELSE h[k - 1] + v[k]]
  BY <1>2 DEF Sums
<1>5. h[0] = 0 /\ \A n \in 1..Len(v) : h[n] = h[n - 1] + v[n]
  <2>1. \A k \in 0..Len(v) : h[k] = IF k = 0 THEN 0 ELSE h[k - 1] + v[k]
    BY <1>4
  <2>2. 0 \in 0..Len(v) /\ \A n \in 1..Len(v) : n \in 0..Len(v) /\ n # 0
    BY <1>1
  <2> QED BY <2>1, <2>2
<1> DEFINE G == {n \in 0..Len(v) : h[n] \in Int}
<1>6. 0 \in G
  BY <1>1, <1>5
<1>7. ASSUME NEW n \in 0..Len(v), n \in G, n < Len(v) PROVE n + 1 \in G
  <2>1. n + 1 \in 1..Len(v) /\ (n + 1) - 1 = n /\ n + 1 \in 0..Len(v)
    BY <1>1, <1>7
  <2>2. h[n + 1] = h[n] + v[n + 1] /\ v[n + 1] \in Int
    BY <1>1, <1>5, <2>1
  <2> QED BY <1>7, <2>1, <2>2
<1> HIDE DEF G
<1>8. \A n \in 0..Len(v) : n \in G /\ n < Len(v) => n + 1 \in G
  BY <1>7
<1>9. 0..Len(v) \subseteq G
  BY <1>1, <1>6, <1>8, Induction
<1>10. h \in [0..Len(v) -> Int]
  BY <1>4, <1>9 DEF G
<1> QED BY <1>3, <1>5, <1>10

\* One number changes, and the total by as much.
LEMMA TotalChanges ==
  ASSUME NEW v \in Seq(Int), NEW w \in Seq(Int), Len(v) = Len(w),
         NEW c \in 1..Len(v),
         \A n \in 1..Len(v) : n # c => w[n] = v[n]
  PROVE  total(w) = total(v) + (w[c] - v[c])
<1>1. Len(v) \in Nat /\ \A k \in 1..Len(v) : v[k] \in Int /\ w[k] \in Int
  BY ElementOfSeq
<1>2. PICK f \in [0..Len(v) -> Int] : f[0] = 0 /\ total(v) = f[Len(v)]
        /\ \A n \in 1..Len(v) : f[n] = f[n - 1] + v[n]
  BY TotalIs
<1>3. PICK g \in [0..Len(v) -> Int] : g[0] = 0 /\ total(w) = g[Len(v)]
        /\ \A n \in 1..Len(v) : g[n] = g[n - 1] + w[n]
  <2>1. \E g \in [0..Len(w) -> Int] : g[0] = 0 /\ total(w) = g[Len(w)]
          /\ \A n \in 1..Len(w) : g[n] = g[n - 1] + w[n]
    BY TotalIs
  <2> QED BY <2>1
<1>0. PICK d \in Int : d = w[c] - v[c]
  BY <1>1
<1> DEFINE G == {n \in 0..Len(v) : g[n] = f[n] + IF n < c THEN 0 ELSE d}
<1>4. 0 \in G
  BY <1>1, <1>2, <1>3
<1>5. ASSUME NEW n \in 0..Len(v), n \in G, n < Len(v) PROVE n + 1 \in G
  <2>1. n + 1 \in 1..Len(v) /\ (n + 1) - 1 = n /\ n + 1 \in 0..Len(v) /\ n \in Int /\ c \in Int
    BY <1>1, <1>5
  <2>2. g[n + 1] = g[n] + w[n + 1] /\ f[n + 1] = f[n] + v[n + 1]
    BY <1>2, <1>3, <2>1
  <2>3. v[n + 1] \in Int /\ w[n + 1] \in Int /\ f[n] \in Int /\ g[n] \in Int
    BY <1>1, <2>1
  <2>4. g[n] = f[n] + IF n < c THEN 0 ELSE d
    BY <1>5
  <2>5. CASE n + 1 = c
    <3>1. w[n + 1] = v[n + 1] + d /\ n < c /\ ~(n + 1 < c)
      BY <1>0, <1>1, <2>1, <2>3, <2>5
    <3> QED BY <2>1, <2>2, <2>3, <2>4, <3>1
  <2>6. CASE n + 1 # c
    <3>1. w[n + 1] = v[n + 1] /\ (n < c <=> n + 1 < c)
      BY <2>1, <2>6
    <3>2. g[n + 1] = f[n + 1] + IF n + 1 < c THEN 0 ELSE d
      BY <2>2, <2>3, <2>4, <3>1
    <3> QED BY <2>1, <3>2
  <2> QED BY <2>5, <2>6
<1> HIDE DEF G
<1>6. \A n \in 0..Len(v) : n \in G /\ n < Len(v) => n + 1 \in G
  BY <1>5
<1>7. Len(v) \in G /\ ~(Len(v) < c)
  <2>1. 0..Len(v) \subseteq G
    BY <1>1, <1>4, <1>6, Induction
  <2> QED BY <1>1, <2>1
<1> QED BY <1>0, <1>2, <1>3, <1>7 DEF G

LEMMA TotalOfZeros ==
  ASSUME NEW v \in Seq(Int), \A n \in 1..Len(v) : v[n] = 0
  PROVE  total(v) = 0
<1>1. Len(v) \in Nat
  OBVIOUS
<1>2. PICK f \in [0..Len(v) -> Int] : f[0] = 0 /\ total(v) = f[Len(v)]
        /\ \A n \in 1..Len(v) : f[n] = f[n - 1] + v[n]
  BY TotalIs
<1> DEFINE G == {n \in 0..Len(v) : f[n] = 0}
<1>3. 0 \in G
  BY <1>1, <1>2
<1>4. ASSUME NEW n \in 0..Len(v), n \in G, n < Len(v) PROVE n + 1 \in G
  <2>1. n + 1 \in 1..Len(v) /\ (n + 1) - 1 = n /\ n + 1 \in 0..Len(v)
    BY <1>1, <1>4
  <2> QED BY <1>2, <1>4, <2>1
<1> HIDE DEF G
<1>5. \A n \in 0..Len(v) : n \in G /\ n < Len(v) => n + 1 \in G
  BY <1>4
<1>6. 0..Len(v) \subseteq G
  BY <1>1, <1>3, <1>5, Induction
<1> QED BY <1>1, <1>2, <1>6 DEF G

Permutes(p, D) ==
  /\ p \in [D -> D] /\ \A m \in D : \E r \in D : p[r] = m
  /\ \A r, q \in D : p[r] = p[q] => r = q

\* A total does not depend on the order.
LEMMA TotalIsOfAll ==
  ASSUME NEW v \in Seq(Int), NEW w \in Seq(Int), Len(v) = Len(w),
         NEW p, Permutes(p, 1..Len(v)), \A n \in 1..Len(v) : w[n] = v[p[n]]
  PROVE  total(w) = total(v)
<1> DEFINE N == Len(v)
           first(k) == [n \in 1..N |-> IF \E r \in 1..k : p[r] = n THEN v[n] ELSE 0]
<1>0. /\ p \in [1..N -> 1..N] /\ \A m \in 1..N : \E r \in 1..N : p[r] = m
      /\ \A r, q \in 1..N : p[r] = p[q] => r = q
  BY DEF Permutes
<1>1. N \in Nat /\ \A n \in 1..N : v[n] \in Int
  BY ElementOfSeq
<1>2. \A k \in 0..N : first(k) \in Seq(Int) /\ Len(first(k)) = N
        /\ \A n \in 1..N : first(k)[n] = IF \E r \in 1..k : p[r] = n THEN v[n] ELSE 0
  <2> SUFFICES ASSUME NEW k \in 0..N
               PROVE  first(k) \in Seq(Int) /\ Len(first(k)) = N
                      /\ \A n \in 1..N : first(k)[n] = IF \E r \in 1..k : p[r] = n THEN v[n] ELSE 0
    OBVIOUS
  <2>1. first(k) \in [1..N -> Int]
    <3> HIDE DEF N
    <3> QED BY <1>1
  <2>2. \A n \in 1..N : first(k)[n] = IF \E r \in 1..k : p[r] = n THEN v[n] ELSE 0
    OBVIOUS
  <2> HIDE DEF first, N
  <2> QED BY <1>1, <2>1, <2>2
<1> HIDE DEF first
<1>3. PICK g \in [0..N -> Int] : g[0] = 0 /\ total(w) = g[N]
        /\ \A n \in 1..N : g[n] = g[n - 1] + w[n]
  <2>1. \E g \in [0..Len(w) -> Int] : g[0] = 0 /\ total(w) = g[Len(w)]
          /\ \A n \in 1..Len(w) : g[n] = g[n - 1] + w[n]
    BY TotalIs
  <2> QED BY <2>1
<1> DEFINE G == {k \in 0..N : total(first(k)) = g[k]}
<1>4. 0 \in G
  <2>1. 0 \in 0..N
    BY <1>1
  <2>2. ASSUME NEW n \in 1..N PROVE first(0)[n] = 0
    <3>1. ~\E r \in 1..0 : p[r] = n
      OBVIOUS
    <3>2. first(0)[n] = IF \E r \in 1..0 : p[r] = n THEN v[n] ELSE 0
      BY <1>2, <2>1
    <3> QED BY <3>1, <3>2
  <2>3. total(first(0)) = 0
    BY <1>2, <2>1, <2>2, TotalOfZeros
  <2> QED BY <1>3, <2>1, <2>3
<1>5. ASSUME NEW k \in 0..N, k \in G, k < N PROVE k + 1 \in G
  <2>1. k + 1 \in 1..N /\ (k + 1) - 1 = k /\ k + 1 \in 0..N /\ k \in Nat
    BY <1>1, <1>5
  <2>2. 1..k + 1 = 1..k \cup {k + 1} /\ 1..k \subseteq 1..N /\ k + 1 \notin 1..k
    <3>1. \A r \in 1..k + 1 : r = k + 1 \/ r \in 1..k
      BY <2>1
    <3>2. \A r \in 1..k : r \in 1..k + 1 /\ r # k + 1
      BY <2>1
    <3>3. k + 1 \in 1..k + 1
      BY <2>1
    <3>4. 1..k \subseteq 1..N
      <4> HIDE DEF N
      <4> QED BY <1>1, <2>1
    <3>5. 1..k + 1 \subseteq 1..k \cup {k + 1}
      BY <3>1
    <3>6. 1..k \cup {k + 1} \subseteq 1..k + 1 /\ k + 1 \notin 1..k
      BY <3>2, <3>3
    <3>7. 1..k + 1 = 1..k \cup {k + 1}
      BY <3>5, <3>6
    <3> QED BY <3>4, <3>6, <3>7
  <2> DEFINE a == first(k)  b == first(k + 1)
  <2>3. PICK c \in 1..N : c = p[k + 1]
    BY <1>0, <2>1
  <2> HIDE DEF N
  <2>4. a \in Seq(Int) /\ Len(a) = N
        /\ \A n \in 1..N : a[n] = IF \E r \in 1..k : p[r] = n THEN v[n] ELSE 0
    BY <1>2
  <2>5. b \in Seq(Int) /\ Len(b) = N
        /\ \A n \in 1..N : b[n] = IF \E r \in 1..k + 1 : p[r] = n THEN v[n] ELSE 0
    BY <1>2, <2>1
  <2> HIDE DEF a, b
  <2>6. \A n \in 1..N : (\E r \in 1..k + 1 : p[r] = n) <=> (\E r \in 1..k : p[r] = n) \/ n = c
    BY <2>2, <2>3
  <2>7. ~\E r \in 1..k : p[r] = c
    BY <1>0, <2>1, <2>2, <2>3
  <2>8. a[c] = 0 /\ b[c] = v[c]
    BY <2>3, <2>4, <2>5, <2>6, <2>7
  <2>9. ASSUME NEW n \in 1..N, n # c PROVE b[n] = a[n]
    <3>1. a[n] = IF \E r \in 1..k : p[r] = n THEN v[n] ELSE 0
      BY <2>4
    <3>2. b[n] = IF \E r \in 1..k + 1 : p[r] = n THEN v[n] ELSE 0
      BY <2>5
    <3>3. (\E r \in 1..k + 1 : p[r] = n) <=> (\E r \in 1..k : p[r] = n)
      BY <2>6, <2>9
    <3> QED BY <3>1, <3>2, <3>3
  <2>10. b[c] = a[c] + v[c]
    <3>1. 0 + v[c] = v[c]
      BY <1>1
    <3> QED BY <2>8, <3>1
  <2>11. total(b) = total(a) + v[c]
    <3>1. c \in 1..Len(a) /\ Len(a) = Len(b)
      BY <2>4, <2>5
    <3>2. \A n \in 1..Len(a) : n # c => b[n] = a[n]
      BY <2>4, <2>9
    <3>3. ASSUME NEW y \in Seq(Int), NEW z \in Seq(Int), Len(y) = Len(z), c \in 1..Len(y),
                 \A n \in 1..Len(y) : n # c => z[n] = y[n]
          PROVE  total(z) = total(y) + (z[c] - y[c])
      BY <3>3, TotalChanges
    <3>4. total(b) = total(a) + (b[c] - a[c])
      BY <2>4, <2>5, <3>1, <3>2, <3>3
    <3>5. b[c] - a[c] = v[c]
      BY <1>1, <2>8
    <3> QED BY <3>4, <3>5
  <2>12. w[k + 1] = v[c]
    BY <2>1, <2>3 DEF N
  <2>13. total(b) = g[k + 1]
    BY <1>3, <1>5, <2>1, <2>11, <2>12 DEF a
  <2> QED BY <2>1, <2>13 DEF b
<1> HIDE DEF G
<1>6. \A k \in 0..N : k \in G /\ k < N => k + 1 \in G
  BY <1>5
<1>7. N \in 0..N /\ N \in G
  <2> HIDE DEF N
  <2>1. 0..N \subseteq G
    BY <1>1, <1>4, <1>6, Induction
  <2> QED BY <1>1, <2>1
<1>8. first(N) = v
  <2>1. first(N) \in Seq(Int) /\ Len(first(N)) = N /\ \A n \in 1..N : first(N)[n] = v[n]
    BY <1>0, <1>2, <1>7
  <2> QED BY <2>1, SeqEqual
<1> QED BY <1>3, <1>7, <1>8 DEF G

-----------------------------------------------------------------------------
(* A whole report *)

LEMMA SameNumber ==
  ASSUME NEW D, IsFiniteSet(D), NEW p, Permutes(p, D), NEW T \in SUBSET D
  PROVE  Cardinality({r \in D : p[r] \in T}) = Cardinality(T)
<1> DEFINE U == {r \in D : p[r] \in T}
           f == [r \in U |-> p[r]]
<1>1. f \in [U -> T] /\ (\A r, q \in U : f[r] = f[q] => r = q) /\ \A m \in T : \E r \in U : f[r] = m
  BY DEF Permutes
<1>2. U \in SUBSET D
  OBVIOUS
<1> HIDE DEF U, f
<1>3. f \in Bijection(U, T)
  BY <1>1 DEF Bijection, Injection, Surjection, IsInjective
<1>4. IsFiniteSet(U)
  BY <1>2, FS_Subset
<1> QED BY <1>3, <1>4, FS_Bijection DEF ExistsBijection, U

\* Sorting changes no number of the report.
LEMMA SortedTotals ==
  ASSUME NEW fs \in Seq(Finding)
  PROVE  /\ Cardinality(costed(sortedFindings(fs))) = Cardinality(costed(fs))
         /\ Cardinality(skipped(sortedFindings(fs))) = Cardinality(skipped(fs))
         /\ totalCost(sortedFindings(fs)) = totalCost(fs)
<1> DEFINE D == DOMAIN fs
           p == placesInOrder(fs)
           s == sortedFindings(fs)
           v == [n \in DOMAIN fs |-> IF n \in costed(fs) THEN fs[n].cost ELSE 0]
           w == [n \in DOMAIN s |-> IF n \in costed(s) THEN s[n].cost ELSE 0]
<1>1. D = 1..Len(fs) /\ Len(fs) \in Nat /\ IsFiniteSet(D)
      /\ \A n \in D : fs[n] \in Finding
  <2>1. D = 1..Len(fs) /\ Len(fs) \in Nat /\ \A n \in D : fs[n] \in Finding
    BY ElementOfSeq
  <2> QED BY <2>1, FS_Interval
<1>2. /\ Permutes(p, D) /\ p \in [D -> D]
      /\ s \in Seq(Finding) /\ DOMAIN s = D /\ Len(s) = Len(fs)
      /\ \A r \in D : s[r] = fs[p[r]]
  BY SortedFindings DEF Permutes
<1> HIDE DEF p, s, D
<1>3. costed(s) = {r \in D : p[r] \in costed(fs)} /\ costed(fs) \in SUBSET D
      /\ skipped(s) = {r \in D : p[r] \in skipped(fs)} /\ skipped(fs) \in SUBSET D
  <2>1. costed(fs) = {r \in D : fs[r].cost # NoCost} /\ skipped(fs) = {r \in D : fs[r].status = "Skipped"}
    BY DEF costed, skipped, D
  <2>2. costed(s) = {r \in D : s[r].cost # NoCost} /\ skipped(s) = {r \in D : s[r].status = "Skipped"}
    BY <1>2 DEF costed, skipped
  <2> QED BY <1>2, <2>1, <2>2
<1>4. ASSUME NEW T \in SUBSET D PROVE Cardinality({r \in D : p[r] \in T}) = Cardinality(T)
  <2>1. IsFiniteSet(D) /\ Permutes(p, D)
    BY <1>1, <1>2
  <2> QED BY ONLY <2>1, <1>4, SameNumber
<1>5. /\ Cardinality(costed(s)) = Cardinality(costed(fs))
      /\ Cardinality(skipped(s)) = Cardinality(skipped(fs))
  BY <1>3, <1>4
<1>6. \A n \in D : v[n] \in Int /\ w[n] = v[p[n]]
  <2> SUFFICES ASSUME NEW n \in D PROVE v[n] \in Int /\ w[n] = v[p[n]]
    OBVIOUS
  <2>1. v[n] = IF n \in costed(fs) THEN fs[n].cost ELSE 0
    BY DEF D
  <2>2. n \in costed(fs) => fs[n].cost \in Int
    BY <1>1 DEF costed, Finding
  <2>3. w[n] = IF n \in costed(s) THEN s[n].cost ELSE 0
    BY <1>2
  <2>4. v[p[n]] = IF p[n] \in costed(fs) THEN fs[p[n]].cost ELSE 0
    BY <1>2 DEF D
  <2> QED BY <1>2, <1>3, <2>1, <2>2, <2>3, <2>4
<1>7. v \in Seq(Int) /\ w \in Seq(Int) /\ Len(v) = Len(fs) /\ Len(w) = Len(fs)
  <2>1. DOMAIN v = 1..Len(fs) /\ DOMAIN w = 1..Len(fs)
    BY <1>1, <1>2 DEF D
  <2>2. v = [n \in DOMAIN v |-> v[n]] /\ w = [n \in DOMAIN w |-> w[n]]
    OBVIOUS
  <2> HIDE DEF v, w
  <2>3. \A n \in 1..Len(fs) : v[n] \in Int /\ w[n] \in Int
    BY <1>1, <1>2, <1>6
  <2>4. v \in [1..Len(fs) -> Int] /\ w \in [1..Len(fs) -> Int]
    BY <2>1, <2>2, <2>3
  <2> QED BY <1>1, <2>4
<1>8. totalCost(fs) = total(v) /\ totalCost(s) = total(w)
  BY DEF totalCost
<1> HIDE DEF v, w
<1>9. total(w) = total(v)
  <2>1. Permutes(p, 1..Len(v)) /\ Len(v) = Len(w) /\ \A n \in 1..Len(v) : w[n] = v[p[n]]
    BY <1>1, <1>2, <1>6, <1>7
  <2> QED BY <1>7, <2>1, TotalIsOfAll
<1> QED BY <1>5, <1>8, <1>9 DEF s

\* What the pieces w say of the findings fs.
Reports(w, fs) ==
  /\ w # << >> /\ \E S : w \in Seq(S)
  /\ shownBy(w) = sortedFindings(fs)
  /\ \A m, n \in DOMAIN w :
       w[m].piece = "section" /\ w[n].piece = "section" /\ w[m].kind = w[n].kind => m = n
  /\ \A n \in DOMAIN w :
       w[n].piece \in {"summary", "stats"} =>
         /\ w[n].total = Len(fs)
         /\ w[n].costed = Cardinality(costed(fs))
         /\ w[n].cost = totalCost(fs)
  /\ \A n \in DOMAIN w :
       w[n].piece = "stats" =>
         /\ w[n].kinds = Cardinality({m \in DOMAIN w : w[m].piece = "section"})
         /\ w[n].skipped = Cardinality(skipped(fs))

LEMMA SinglePiece ==
  ASSUME NEW fs \in Seq(Finding), NEW h, h.piece \in {"none", "array"},
         h.piece = "none" => fs = << >>, h.piece = "array" => h.findings = sortedFindings(fs)
  PROVE  Reports(<<h>>, fs)
<1> DEFINE w == <<h>>
           ss == [n \in DOMAIN w |->
                    IF w[n].piece \in {"section", "array"} THEN w[n].findings ELSE << >>]
<1>1. w # << >> /\ w \in Seq({h}) /\ DOMAIN w = {1} /\ w[1] = h
  OBVIOUS
<1>2. ss = <<sortedFindings(fs)>>
  <2>1. CASE h.piece = "array"
    BY <2>1
  <2>2. CASE h.piece = "none"
    <3>1. Len(sortedFindings(fs)) = 0 /\ sortedFindings(fs) \in Seq(Finding)
      BY <2>2, SortedFindings, EmptySeq
    <3>2. sortedFindings(fs) = << >>
      BY <3>1, EmptySeq
    <3> QED BY <2>2, <3>2
  <2> QED BY <2>1, <2>2
<1>3. FlattenSeq(ss) = sortedFindings(fs)
  <2> DEFINE s == sortedFindings(fs)
             e == [n \in 0..1 |-> IF n = 0 THEN 0 ELSE Len(s)]
  <2>1. s \in Seq(Finding)
    BY SortedFindings
  <2> HIDE DEF s
  <2>2. ss = <<s>> /\ Len(s) \in Nat
    BY <1>2, <2>1 DEF s
  <2> HIDE DEF ss
  <2>3. ss \in Seq(Seq(Finding)) /\ Len(ss) = 1 /\ ss # << >> /\ ss[1] = s
    BY <2>1, <2>2
  <2>4. e[0] = 0 /\ e[1] = Len(s)
    OBVIOUS
  <2> HIDE DEF e
  <2>5. \A n \in 0..Len(ss) : e[n] \in 0..Len(s)
    BY <2>2, <2>3, <2>4
  <2>6. \A n \in 1..Len(ss) : e[n - 1] <= e[n] /\ ss[n] = SubSeq(s, e[n - 1] + 1, e[n])
    <3> SUFFICES ASSUME NEW n \in 1..Len(ss)
                 PROVE  e[n - 1] <= e[n] /\ ss[n] = SubSeq(s, e[n - 1] + 1, e[n])
      OBVIOUS
    <3>1. n = 1 /\ n - 1 = 0 /\ e[n - 1] + 1 = 1
      BY <2>3, <2>4
    <3>2. SubSeq(s, 1, Len(s)) = s
      BY <2>1, SubSeqFull
    <3> QED BY <2>2, <2>3, <2>4, <3>1, <3>2
  <2>7. e[Len(ss)] = Len(s)
    BY <2>3, <2>4
  <2>8. FlattenSeq(ss) = s
    BY <2>1, <2>3, <2>4, <2>5, <2>6, <2>7, FlattenPieces
  <2> QED BY <2>8 DEF s
<1>4. shownBy(w) = sortedFindings(fs)
  BY <1>3 DEF shownBy
<1>5. \A n \in DOMAIN w : w[n].piece \notin {"section", "summary", "stats"}
  BY <1>1
<1>6. \E S : w \in Seq(S)
  BY <1>1
<1> HIDE DEF w
<1>7. Reports(w, fs)
  BY <1>1, <1>4, <1>5, <1>6 DEF Reports
<1> QED BY <1>7 DEF w

LEMMA HeadedReport ==
  ASSUME NEW fs \in Seq(Finding), fs # << >>, NEW h, h.piece \in {"summary", "stats"},
         h.total = Len(fs), h.costed = Cardinality(costed(fs)), h.cost = totalCost(fs),
         h.piece = "stats" => /\ h.kinds = Len(groupedByKind(sortedFindings(fs)))
                              /\ h.skipped = Cardinality(skipped(fs))
  PROVE  Reports(<<h>> \o groupedByKind(sortedFindings(fs)), fs)
<1> DEFINE w == <<h>> \o groupedByKind(sortedFindings(fs))
<1>1. Sectioned(w, h, fs)
  BY HeadAndSections
<1> HIDE DEF w
<1>2. \A n \in DOMAIN w : w[n].piece \in {"summary", "stats"} => w[n] = h
  BY <1>1 DEF Sectioned
<1>3. Reports(w, fs)
  BY <1>1, <1>2 DEF Sectioned, Reports
<1> QED BY <1>3 DEF w

LEMMA WholeReport ==
  ASSUME NEW fs \in Seq(Finding), NEW o
  PROVE  Reports(pieces(fs, o), fs)
<1>1. ASSUME fs = << >> PROVE Reports(<<[piece |-> "none"]>>, fs)
  <2> DEFINE h == [piece |-> "none"]
  <2>1. h.piece = "none"
    OBVIOUS
  <2> HIDE DEF h
  <2>2. ASSUME NEW y, y.piece = "none" PROVE Reports(<<y>>, fs)
    <3>1. y.piece \in {"none", "array"} /\ (y.piece = "none" => fs = << >>)
          /\ (y.piece = "array" => y.findings = sortedFindings(fs))
      BY <1>1, <2>2
    <3> QED BY <3>1, SinglePiece
  <2>3. Reports(<<h>>, fs)
    BY <2>1, <2>2
  <2> QED BY <2>3 DEF h
<1>2. Reports(jsonPieces(fs), fs)
  BY SinglePiece DEF jsonPieces
<1>3. Reports(tablePieces(fs), fs)
  <2>1. CASE fs = << >>
    BY <1>1, <2>1 DEF tablePieces
  <2>2. CASE fs # << >>
    <3>1. summarize(fs).piece = "summary" /\ summarize(fs).total = Len(fs)
          /\ summarize(fs).costed = Cardinality(costed(fs)) /\ summarize(fs).cost = totalCost(fs)
      BY DEF summarize
    <3> QED BY <2>2, <3>1, HeadedReport DEF tablePieces
  <2> QED BY <2>1, <2>2
<1>4. Reports(htmlPieces(fs), fs)
  <2>1. CASE fs = << >>
    BY <1>1, <2>1 DEF htmlPieces
  <2>2. CASE fs # << >>
    <3> DEFINE h == [piece |-> "stats", total |-> Len(fs), costed |-> Cardinality(costed(fs)),
                     cost |-> totalCost(fs), kinds |-> Len(groupedByKind(sortedFindings(fs))),
                     skipped |-> Cardinality(skipped(fs))]
    <3>1. h.piece = "stats" /\ h.total = Len(fs) /\ h.costed = Cardinality(costed(fs))
          /\ h.cost = totalCost(fs) /\ h.kinds = Len(groupedByKind(sortedFindings(fs)))
          /\ h.skipped = Cardinality(skipped(fs))
      OBVIOUS
    <3>2. htmlPieces(fs) = <<h>> \o groupedByKind(sortedFindings(fs))
      BY <2>2 DEF htmlPieces
    <3> HIDE DEF h
    <3> QED BY <2>2, <3>1, <3>2, HeadedReport
  <2> QED BY <2>1, <2>2
<1> QED BY <1>2, <1>3, <1>4 DEF pieces, markdownPieces

-----------------------------------------------------------------------------
(* What a detector contributes *)

\* At time t, with these prices, d may have found f.
Genuine(d, f, t, prices) ==
  \/ f = skippedFinding(d)
  \/ \E q \in DOMAIN Finds[d], c \in Births : c <= t /\ f = orphan(d, q, c, prices)

Contributed(d, s, t, prices) ==
  s \in Seq(Finding) /\ \A n \in DOMAIN s : Genuine(d, s[n], t, prices)

\* The estimate of a resource, and what follows if it is 0.
LEMMA EstimateCost ==
  ASSUME NEW d \in Detectors, NEW q \in DOMAIN Finds[d], NEW g \in DOMAIN PricingFiles,
         LoadPricingTable(PricingFiles[g])
  PROVE  /\ estimateCost(PricingFiles[g], Finds[d][q].bill) \in Int \cup {NoCost}
         /\ estimateCost(PricingFiles[g], Finds[d][q].bill) = 0 =>
              \/ 0 \in Range(PricingFiles[g].ebs)
              \/ Finds[d][q].bill.by = "volume" /\ storageGB(Finds[d][q].bill.size) = 0
<1> DEFINE bill == Finds[d][q].bill
           prices == PricingFiles[g]
           type == storageClassVolumeType(bill.class)
           rate == IF type \in DOMAIN prices.ebs THEN prices.ebs[type]
                   ELSE lookup(prices.ebs, prices.defaultType, 0)
<1>1. Finds[d][q] \in Range(Finds[d])
  BY DEF Range
<1>2. bill.by = "volume" => storageGB(bill.size) \in Nat
  <2>1. bill.by = "volume" => bill.size \in Nat \cup {NoSize}
    BY <1>1, FindsAssumption
  <2> QED BY <2>1 DEF storageGB
<1>3. prices.loadBalancer \in Int /\ prices.loadBalancer > 0 /\ prices.defaultType \in DOMAIN prices.ebs
      /\ Range(prices.ebs) \subseteq Int
  BY PricesAssumption DEF LoadPricingTable
<1>4. NoCost \notin Int
  BY PricesAssumption
<1>5. rate \in Range(prices.ebs)
  <2> HIDE DEF type, prices
  <2> QED BY <1>3 DEF lookup, Range
<1> HIDE DEF type, rate
<1>6. CASE bill.by = "volume"
  <2>1. estimateCost(prices, bill) = storageGB(bill.size) * rate
    BY <1>6 DEF estimateCost, EBSMonthlyCost, rate, type
  <2>2. rate \in Int /\ storageGB(bill.size) \in Int
    BY <1>2, <1>3, <1>5, <1>6
  <2>3. storageGB(bill.size) * rate = 0 => rate = 0 \/ storageGB(bill.size) = 0
    BY <2>2
  <2>4. storageGB(bill.size) * rate \in Int
    BY <2>2
  <2> QED BY <1>5, <1>6, <2>1, <2>3, <2>4
<1>7. CASE bill.by = "loadBalancer"
  <2>1. estimateCost(prices, bill) = prices.loadBalancer
    BY <1>7 DEF estimateCost, LoadBalancerMonthlyCost
  <2> QED BY <1>3, <2>1
<1>8. CASE bill.by \notin {"volume", "loadBalancer"}
  <2>1. estimateCost(prices, bill) = NoCost
    BY <1>8 DEF estimateCost
  <2> QED BY <1>4, <2>1
<1> QED BY <1>6, <1>7, <1>8

LEMMA GenuineIsFinding ==
  ASSUME NEW d \in Detectors, NEW t, NEW g \in DOMAIN PricingFiles,
         LoadPricingTable(PricingFiles[g]), NEW f, Genuine(d, f, t, PricingFiles[g])
  PROVE  f \in Finding
<1>1. DetectorName[d] \in Nat
  BY FindsAssumption
<1>2. CASE f = skippedFinding(d)
  BY <1>1, <1>2 DEF skippedFinding, Finding
<1>3. ASSUME NEW q \in DOMAIN Finds[d], NEW c \in Births, f = orphan(d, q, c, PricingFiles[g])
      PROVE  f \in Finding
  <2>1. Finds[d][q] \in Range(Finds[d])
    BY DEF Range
  <2>2. {Finds[d][q].kind, Finds[d][q].namespace, Finds[d][q].name} \subseteq Nat
    BY <2>1, FindsAssumption
  <2>3. (IF Finds[d][q].dated THEN c ELSE 0) \in Int
    BY TimesAssumption
  <2>4. estimateCost(PricingFiles[g], Finds[d][q].bill) \in Int \cup {NoCost}
    BY EstimateCost
  <2> QED BY <1>1, <1>3, <2>2, <2>3, <2>4 DEF orphan, Finding
<1> QED BY <1>2, <1>3 DEF Genuine

LEMMA ContributionIsGenuine ==
  ASSUME NEW d \in Detectors, NEW t, NEW g \in DOMAIN PricingFiles,
         LoadPricingTable(PricingFiles[g]), NEW s \in ContributionsAt(d, t, PricingFiles[g])
  PROVE  Contributed(d, s, t, PricingFiles[g])
<1> DEFINE prices == PricingFiles[g]
<1>1. CASE s = <<skippedFinding(d)>>
  <2>1. Genuine(d, skippedFinding(d), t, prices)
    BY DEF Genuine
  <2>2. skippedFinding(d) \in Finding
    BY <2>1, GenuineIsFinding
  <2> HIDE DEF prices
  <2>3. s \in Seq(Finding) /\ \A n \in DOMAIN s : s[n] = skippedFinding(d)
    BY <1>1, <2>2
  <2>4. Contributed(d, s, t, prices)
    BY <2>1, <2>3 DEF Contributed
  <2> QED BY <2>4 DEF prices
<1>2. ASSUME NEW S \in SUBSET DOMAIN Finds[d], NEW c \in [S -> {b \in Births : b <= t}],
             s = [n \in 1..Cardinality(S) |-> LET q == inOrder(S)[n] IN orphan(d, q, c[q], prices)]
      PROVE  Contributed(d, s, t, prices)
  <2>1. S \subseteq Nat /\ IsFiniteSet(S)
    <3>1. Len(Finds[d]) \in Nat /\ DOMAIN Finds[d] = 1..Len(Finds[d])
      BY FindsAssumption
    <3>2. 1 \in Int /\ Len(Finds[d]) \in Int
      BY <3>1
    <3>3. IsFiniteSet(1..Len(Finds[d]))
      BY <3>2, FS_Interval
    <3>4. IsFiniteSet(S)
      BY <3>1, <3>3, FS_Subset
    <3> QED BY <3>1, <3>4
  <2>2. Cardinality(S) \in Nat /\ inOrder(S) \in [1..Cardinality(S) -> S]
    BY <2>1, InOrder
  <2>3. ASSUME NEW n \in 1..Cardinality(S)
        PROVE  Genuine(d, s[n], t, prices) /\ s[n] \in Finding
    <3>1. PICK q \in S : q = inOrder(S)[n]
      BY <2>2
    <3>2. s[n] = orphan(d, q, c[q], prices)
      BY <1>2, <3>1
    <3>3. q \in DOMAIN Finds[d] /\ c[q] \in Births /\ c[q] <= t
      OBVIOUS
    <3>4. Genuine(d, s[n], t, prices)
      BY <3>2, <3>3 DEF Genuine
    <3> QED BY <3>4, GenuineIsFinding
  <2>4. DOMAIN s = 1..Cardinality(S) /\ s = [n \in 1..Cardinality(S) |-> s[n]]
    BY <1>2
  <2>5. s \in Seq(Finding)
    BY <2>2, <2>3, <2>4
  <2> HIDE DEF prices
  <2> QED BY <2>3, <2>4, <2>5 DEF Contributed
<1>3. s = <<skippedFinding(d)>> \/
      \E S \in SUBSET DOMAIN Finds[d] : \E c \in [S -> {b \in Births : b <= t}] :
        s = [n \in 1..Cardinality(S) |-> LET q == inOrder(S)[n] IN orphan(d, q, c[q], prices)]
  BY DEF ContributionsAt
<1> QED BY <1>1, <1>2, <1>3

-----------------------------------------------------------------------------
(* The inductive invariant *)

Typed ==
  /\ opts \in Options /\ now \in StartTime..MaxTime
  /\ pc \in {"clientset", "pricing", "renderer", "scanning", "filtering", "rendering",
             "exited"}
  /\ exit \in {0, 1, 2} /\ (exit = 2 <=> pc # "exited")
  /\ published \in BOOLEAN

\* Past the pricing, the table is one that LoadPricingTable accepts.
Priced ==
  pc \in {"renderer", "scanning", "filtering", "rendering"} \/ exit = 0
    => LoadPricingTable(table)

\* What is resolved came from its detector by now, and the report lists it all.
Resolved ==
  /\ verdict = [d \in Detectors |-> verdict[d]]
  /\ \A d \in Detectors :
       verdict[d] = Undecided \/ (LoadPricingTable(table) /\ Contributed(d, verdict[d], now, table))
  /\ report = IF published THEN verdict ELSE << >>
  /\ published => \A d \in Detectors : verdict[d] # Undecided
  /\ pc \in {"filtering", "rendering"} \/ exit = 0 => published

\* The filter is right about the findings it has come to, and done when it ends.
Due(f) == inScope(f) /\ (f.created = 0 \/ StartTime - f.created >= opts.minAge)
Grown(f) == f.created = 0 \/ now - f.created >= opts.minAge

Filtered ==
  /\ i \in Nat \ {0} /\ i <= Len(aggregated) + 1
  /\ kept \in Seq(Finding) /\ Len(kept) < i
  /\ \A n \in DOMAIN kept : Contains(aggregated, kept[n]) /\ Grown(kept[n])
  /\ \A n \in 1..i - 1 : Due(aggregated[n]) => Contains(kept, aggregated[n])
  /\ pc = "rendering" \/ exit = 0 => i = Len(aggregated) + 1

\* What is written is a prefix of the output, and all of it when the command succeeds.
Written ==
  /\ Len(written) \in Nat /\ Len(written) <= Len(output)
  /\ written = SubSeq(output, 1, Len(written))
  /\ pc \notin {"rendering", "exited"} => written = << >>
  /\ exit = 0 => Len(written) = Len(output)

CommandInv == Typed /\ Priced /\ Resolved /\ Filtered /\ Written

LEMMA VerdictsFlatten ==
  ASSUME NEW v, v = [d \in Detectors |-> v[d]], NEW t, NEW prices,
         \A d \in Detectors : Contributed(d, v[d], t, prices)
  PROVE  /\ FlattenSeq(v) \in Seq(Finding)
         /\ \A n \in DOMAIN FlattenSeq(v) : \E d \in Detectors :
              Genuine(d, FlattenSeq(v)[n], t, prices)
         /\ \A d \in Detectors : \A f : Contains(v[d], f) => Contains(FlattenSeq(v), f)
<1>1. v \in Seq(Seq(Finding)) /\ DOMAIN v = Detectors
  <2>1. NumDetectors \in Nat /\ v = [d \in 1..NumDetectors |-> v[d]] /\ DOMAIN v = Detectors
    BY FindsAssumption DEF Detectors
  <2>2. \A d \in 1..NumDetectors : v[d] \in Seq(Finding)
    BY DEF Contributed, Detectors
  <2> QED BY <2>1, <2>2
<1>2. /\ FlattenSeq(v) \in Seq(Finding)
      /\ \A n \in DOMAIN FlattenSeq(v) : \E k \in DOMAIN v : Contains(v[k], FlattenSeq(v)[n])
      /\ \A k \in DOMAIN v : \A f : Contains(v[k], f) => Contains(FlattenSeq(v), f)
  BY <1>1, FlattenElements
<1>3. ASSUME NEW n \in DOMAIN FlattenSeq(v)
      PROVE  \E d \in Detectors : Genuine(d, FlattenSeq(v)[n], t, prices)
  <2>1. PICK d \in Detectors : Contains(v[d], FlattenSeq(v)[n])
    BY <1>1, <1>2
  <2>2. PICK m \in 1..Len(v[d]) : v[d][m] = FlattenSeq(v)[n]
    BY <2>1 DEF Contains
  <2>3. m \in DOMAIN v[d]
    BY DEF Contributed
  <2> QED BY <2>2, <2>3 DEF Contributed
<1> QED BY <1>1, <1>2, <1>3

LEMMA Aggregated ==
  ASSUME Typed, Resolved
  PROVE  /\ aggregated \in Seq(Finding)
         /\ \A n \in DOMAIN aggregated : \E d \in Detectors :
              LoadPricingTable(table) /\ Genuine(d, aggregated[n], now, table)
         /\ published => \A d \in Detectors : \A f :
              Contains(verdict[d], f) => Contains(aggregated, f)
<1>1. CASE published
  <2>1. report = verdict /\ verdict = [d \in Detectors |-> verdict[d]]
        /\ \A d \in Detectors : LoadPricingTable(table) /\ Contributed(d, verdict[d], now, table)
    BY <1>1 DEF Resolved
  <2>2. /\ FlattenSeq(verdict) \in Seq(Finding)
        /\ \A n \in DOMAIN FlattenSeq(verdict) : \E d \in Detectors :
             Genuine(d, FlattenSeq(verdict)[n], now, table)
        /\ \A d \in Detectors : \A f : Contains(verdict[d], f) => Contains(FlattenSeq(verdict), f)
    BY <2>1, VerdictsFlatten
  <2> QED BY <2>1, <2>2 DEF aggregated
<1>2. CASE ~published
  <2>1. aggregated = << >>
    BY <1>2 DEF Resolved, aggregated, FlattenSeq
  <2> QED BY <1>2, <2>1, EmptySeq
<1> QED BY <1>1, <1>2

\* There is something to write whatever is kept.
LEMMA OutputIsReport ==
  ASSUME Filtered
  PROVE  Reports(output, kept) /\ Len(output) \in Nat /\ \E S : output \in Seq(S)
<1>1. Reports(output, kept)
  BY WholeReport DEF Filtered, output
<1> QED BY <1>1 DEF Reports

LEMMA InitOK == ASSUME Init PROVE CommandInv
<1> USE DEF Init, RunAll!Init
<1>1. Typed
  <2>1. StartTime \in StartTime..MaxTime
    BY TimesAssumption
  <2> QED BY <2>1 DEF Typed
<1>2. Priced
  BY DEF Priced
<1>3. Resolved
  BY DEF Resolved, Detectors, RunAll!Detectors
<1>4. aggregated = << >>
  BY DEF aggregated, FlattenSeq
<1>5. Filtered
  <2>1. kept \in Seq(Finding) /\ Len(kept) = 0 /\ DOMAIN kept = {} /\ Len(aggregated) = 0
    BY <1>4, EmptySeq
  <2> QED BY <2>1 DEF Filtered
<1>6. Written
  <2>1. Len(output) \in Nat
    BY <1>5, OutputIsReport
  <2>2. SubSeq(output, 1, 0) = << >>
    BY SubSeqEmpty
  <2>3. Len(written) = 0
    OBVIOUS
  <2> QED BY <2>1, <2>2, <2>3 DEF Written
<1> QED BY <1>1, <1>2, <1>3, <1>5, <1>6 DEF CommandInv

-----------------------------------------------------------------------------
(* Each step preserves each part *)

LEMMA TypedStep == ASSUME Typed, [Next]_vars PROVE Typed'
<1> USE DEF Typed
<1>1. ASSUME buildClientset \/ rendererFor \/ filterEnds \/ writeFails \/ renderEnds PROVE Typed'
  BY <1>1 DEF buildClientset, rendererFor, filterEnds, writeFails, renderEnds, Go, Exit, run
<1>2. ASSUME loadPricingTable PROVE Typed'
  BY <1>2 DEF loadPricingTable, Go, Exit, run
<1>3. ASSUME NEW d \in Detectors, DetectorEnds(d) PROVE Typed'
  BY <1>3 DEF DetectorEnds, RunAll!Resolve
<1>4. ASSUME RunAllReturns PROVE Typed'
  BY <1>4 DEF RunAllReturns, RunAll!Publish, Go
<1>5. ASSUME filterNext \/ writePiece PROVE Typed'
  BY <1>5 DEF filterNext, writePiece, run
<1>6. ASSUME Tick PROVE Typed'
  <2>1. now' \in StartTime..MaxTime
    BY <1>6, TimesAssumption DEF Tick
  <2> QED BY <1>6, <2>1 DEF Tick, run
<1>7. ASSUME Exited \/ UNCHANGED vars PROVE Typed'
  BY <1>7 DEF Exited, vars, run
<1> QED BY <1>1, <1>2, <1>3, <1>4, <1>5, <1>6, <1>7 DEF Next, Command

LEMMA PricedStep == ASSUME Typed, Priced, [Next]_vars PROVE Priced'
<1> USE DEF Priced, table
<1>1. ASSUME buildClientset \/ rendererFor \/ filterEnds \/ writeFails \/ renderEnds PROVE Priced'
  BY <1>1 DEF buildClientset, rendererFor, filterEnds, writeFails, renderEnds, Go, Exit, Typed
<1>2. ASSUME loadPricingTable PROVE Priced'
  BY <1>2 DEF loadPricingTable, Go, Exit, Typed
<1>3. ASSUME NEW d \in Detectors, DetectorEnds(d) PROVE Priced'
  BY <1>3 DEF DetectorEnds
<1>4. ASSUME RunAllReturns PROVE Priced'
  BY <1>4 DEF RunAllReturns, Go
<1>5. ASSUME filterNext \/ writePiece \/ Tick PROVE Priced'
  BY <1>5 DEF filterNext, writePiece, Tick
<1>6. ASSUME Exited \/ UNCHANGED vars PROVE Priced'
  BY <1>6 DEF Exited, vars
<1> QED BY <1>1, <1>2, <1>3, <1>4, <1>5, <1>6 DEF Next, Command

LEMMA ResolvedStep == ASSUME Typed, Priced, Resolved, [Next]_vars PROVE Resolved'
<1>1. ASSUME UNCHANGED <<run, opts, now>>, pc' \in {"filtering", "rendering"} \/ exit' = 0 => published
      PROVE  Resolved'
  BY <1>1 DEF Resolved, run, table
<1>2. ASSUME buildClientset \/ loadPricingTable \/ rendererFor PROVE Resolved'
  <2>1. UNCHANGED <<run, opts, now>> /\ (pc' \in {"filtering", "rendering"} \/ exit' = 0 => published)
    BY <1>2 DEF buildClientset, loadPricingTable, rendererFor, Go, Exit, Typed
  <2> QED BY <1>1, <2>1
<1>3. ASSUME filterNext \/ filterEnds \/ writePiece \/ writeFails \/ renderEnds PROVE Resolved'
  <2>1. UNCHANGED <<run, opts, now>> /\ (pc' \in {"filtering", "rendering"} \/ exit' = 0 => published)
    BY <1>3 DEF filterNext, filterEnds, writePiece, writeFails, renderEnds, Go, Exit, Resolved
  <2> QED BY <1>1, <2>1
<1>4. ASSUME Exited \/ UNCHANGED vars PROVE Resolved'
  BY <1>4 DEF Exited, vars, run, Resolved, table
<1>5. ASSUME NEW d \in Detectors, DetectorEnds(d) PROVE Resolved'
  <2>1. PICK v : verdict' = [verdict EXCEPT ![d] = v]
    BY <1>5 DEF DetectorEnds, RunAll!Resolve
  <2>2. verdict' = [e \in Detectors |-> verdict'[e]] /\ verdict'[d] = v
        /\ \A e \in Detectors : e # d => verdict'[e] = verdict[e]
    BY <2>1 DEF Resolved
  <2>3. LoadPricingTable(table) /\ v \in ContributionsAt(d, now, table)
    BY <1>5, <2>2 DEF DetectorEnds, Priced
  <2>4. Contributed(d, v, now, table)
    <3>1. opts.pricingFile \in DOMAIN PricingFiles
      BY PricesAssumption DEF Typed
    <3> QED BY <2>3, <3>1, ContributionIsGenuine DEF table
  <2>5. UNCHANGED <<now, table, published, report>> /\ ~published
    BY <1>5 DEF DetectorEnds, RunAll!Resolve, table
  <2>6. ~(pc' \in {"filtering", "rendering"} \/ exit' = 0)
    BY <1>5, <2>5 DEF DetectorEnds, Resolved
  <2>7. \A e \in Detectors :
          verdict'[e] = Undecided
          \/ (LoadPricingTable(table) /\ Contributed(e, verdict'[e], now, table))
    BY <2>2, <2>3, <2>4 DEF Resolved
  <2> QED BY <2>2, <2>5, <2>6, <2>7 DEF Resolved
<1>6. ASSUME RunAllReturns PROVE Resolved'
  <2>1. published' /\ report' = verdict /\ UNCHANGED <<verdict, now, table>>
        /\ \A d \in Detectors : verdict[d] # Undecided
    BY <1>6 DEF RunAllReturns, RunAll!Publish, RunAll!Detectors, Detectors, table
  <2> QED BY <2>1 DEF Resolved
<1>7. ASSUME Tick PROVE Resolved'
  <2>1. UNCHANGED <<pc, exit, verdict, published, report, table>> /\ now' = now + 1
    BY <1>7 DEF Tick, run, table
  <2>2. now \in Int /\ Births \subseteq Int
    BY TimesAssumption DEF Typed
  <2>3. ASSUME NEW d \in Detectors, NEW s, Contributed(d, s, now, table)
        PROVE  Contributed(d, s, now', table)
    <3>1. \A c \in Births : c <= now => c <= now'
      BY <2>1, <2>2
    <3>2. \A n \in DOMAIN s : Genuine(d, s[n], now, table) => Genuine(d, s[n], now', table)
      BY <3>1 DEF Genuine
    <3> QED BY <2>3, <3>2 DEF Contributed
  <2> QED BY <2>1, <2>3 DEF Resolved
<1> QED BY <1>2, <1>3, <1>4, <1>5, <1>6, <1>7 DEF Next, Command

LEMMA FilteredStep ==
  ASSUME Typed, Resolved, Filtered, [Next]_vars PROVE Filtered'
<1>1. ASSUME UNCHANGED <<aggregated, opts, now, i, kept>>,
             pc' = "rendering" \/ exit' = 0 => i = Len(aggregated) + 1
      PROVE  Filtered'
  BY <1>1 DEF Filtered, Grown, Due, inScope
<1>2. ASSUME UNCHANGED <<run, opts, now, i, kept>>,
             pc' = "rendering" \/ exit' = 0 => i = Len(aggregated) + 1
      PROVE  Filtered'
  <2>1. UNCHANGED aggregated
    BY <1>2 DEF aggregated, run
  <2> QED BY <1>1, <1>2, <2>1
<1>3. ASSUME buildClientset \/ loadPricingTable \/ rendererFor PROVE Filtered'
  <2>1. UNCHANGED <<run, opts, now, i, kept>>
        /\ (pc' = "rendering" \/ exit' = 0 => i = Len(aggregated) + 1)
    BY <1>3 DEF buildClientset, loadPricingTable, rendererFor, Go, Exit, Typed
  <2> QED BY <1>2, <2>1
<1>4. ASSUME writePiece \/ writeFails \/ renderEnds PROVE Filtered'
  <2>1. UNCHANGED <<run, opts, now, i, kept>>
        /\ (pc' = "rendering" \/ exit' = 0 => i = Len(aggregated) + 1)
    BY <1>4 DEF writePiece, writeFails, renderEnds, Exit, Filtered
  <2> QED BY <1>2, <2>1
<1>5. ASSUME filterEnds PROVE Filtered'
  <2>1. UNCHANGED <<run, opts, now, i, kept>> /\ i > Len(aggregated)
    BY <1>5 DEF filterEnds
  <2>2. Len(aggregated) \in Nat
    BY Aggregated
  <2>3. i = Len(aggregated) + 1
    BY <2>1, <2>2 DEF Filtered
  <2> QED BY <1>2, <2>1, <2>3
<1>6. ASSUME Exited \/ UNCHANGED vars PROVE Filtered'
  <2>1. UNCHANGED <<run, opts, now, i, kept>>
        /\ (pc' = "rendering" \/ exit' = 0 => i = Len(aggregated) + 1)
    BY <1>6 DEF Exited, vars, Filtered
  <2> QED BY <1>2, <2>1
<1>7. ASSUME NEW d \in Detectors, DetectorEnds(d) PROVE Filtered'
  <2>1. UNCHANGED <<aggregated, opts, now, i, kept, pc, exit>>
    BY <1>7 DEF DetectorEnds, RunAll!Resolve, aggregated
  <2> QED BY <1>1, <2>1 DEF Filtered
<1>8. ASSUME RunAllReturns PROVE Filtered'
  <2>1. UNCHANGED <<opts, now, i, kept, exit>> /\ pc' = "filtering" /\ ~published /\ exit # 0
    BY <1>8 DEF RunAllReturns, Go, RunAll!Publish, Typed
  <2>2. aggregated = << >>
    BY <2>1 DEF Resolved, aggregated, FlattenSeq
  <2>3. i = 1 /\ DOMAIN kept = {} /\ kept \in Seq(Finding) /\ Len(kept) = 0
    <3>1. Len(aggregated) = 0 /\ Len(kept) \in Nat /\ DOMAIN kept = 1..Len(kept)
      BY <2>2, LenProperties DEF Filtered
    <3> QED BY <3>1 DEF Filtered
  <2>4. aggregated' \in Seq(Finding)
    <3>1. aggregated' = FlattenSeq(verdict)
      BY <1>8 DEF RunAllReturns, RunAll!Publish, aggregated
    <3>2. \A d \in Detectors : Contributed(d, verdict[d], now, table)
      BY <1>8 DEF RunAllReturns, RunAll!Publish, RunAll!Detectors, Detectors, Resolved
    <3>3. FlattenSeq(verdict) \in Seq(Finding)
      BY <3>2, VerdictsFlatten DEF Resolved
    <3> QED BY <3>1, <3>3
  <2>5. Len(aggregated') \in Nat
    BY <2>4
  <2>6. i' = 1 /\ kept' = kept /\ pc' # "rendering" /\ exit' # 0 /\ 1..i' - 1 = {}
    BY <2>1, <2>3
  <2> QED BY <2>3, <2>5, <2>6 DEF Filtered
<1>9. ASSUME filterNext PROVE Filtered'
  <2> DEFINE f == aggregated[i]
             drop == outOfScope(f) \/ tooYoung(f)
  <2>1. /\ pc = "filtering" /\ i <= Len(aggregated) /\ i' = i + 1
        /\ kept' = IF drop THEN kept ELSE Append(kept, f)
        /\ UNCHANGED <<aggregated, opts, now, pc, exit>>
    BY <1>9 DEF filterNext, aggregated, run
  <2>2. /\ aggregated \in Seq(Finding) /\ i \in DOMAIN aggregated /\ i \in 1..Len(aggregated)
        /\ Len(aggregated) \in Nat /\ i \in Nat
    <3>1. aggregated \in Seq(Finding) /\ Len(aggregated) \in Nat
          /\ DOMAIN aggregated = 1..Len(aggregated)
      BY Aggregated, LenProperties
    <3> QED BY <2>1, <3>1 DEF Filtered
  <2>3. f \in Finding /\ Contains(aggregated, f)
    BY <2>2, ElementOfSeq DEF Contains
  <2>4. opts.minAge \in Nat /\ now \in Int /\ StartTime \in Int /\ StartTime <= now
        /\ f.created \in Int
    <3>1. f.created \in Int
      BY <2>3 DEF Finding
    <3> QED BY <3>1, TimesAssumption DEF Typed
  <2>5. f.created = 0 \/ f.created <= now
    <3>1. PICK d \in Detectors : Genuine(d, f, now, table)
      BY <2>2, Aggregated
    <3>2. skippedFinding(d).created = 0
          /\ \A q \in DOMAIN Finds[d], c \in Births : orphan(d, q, c, table).created \in {0, c}
      BY DEF skippedFinding, orphan
    <3> HIDE DEF f
    <3> QED BY <3>1, <3>2 DEF Genuine
  <2>6. ~drop => Grown(f)
    BY <2>4, <2>5 DEF tooYoung, Grown
  <2>7. Due(f) => ~drop
    BY <2>4 DEF Due, inScope, outOfScope, tooYoung
  <2>8. Len(kept) \in Nat /\ kept \in Seq(Finding) /\ DOMAIN kept = 1..Len(kept)
    BY LenProperties DEF Filtered
  <2> HIDE DEF f, drop
  <2>9. /\ kept' \in Seq(Finding) /\ Len(kept') < i'
        /\ \A n \in DOMAIN kept' : Contains(aggregated, kept'[n]) /\ Grown(kept'[n])
        /\ \A x : Contains(kept, x) => Contains(kept', x)
        /\ Due(f) => Contains(kept', f)
    <3>1. CASE drop
      BY <2>1, <2>2, <2>7, <2>8, <3>1 DEF Filtered
    <3>2. CASE ~drop
      <4> DEFINE k == Append(kept, f)
      <4>1. /\ k \in Seq(Finding) /\ Len(k) = Len(kept) + 1
            /\ \A n \in 1..Len(kept) : k[n] = kept[n]
            /\ k[Len(kept) + 1] = f
        BY <2>3, <2>8, AppendProperties
      <4> HIDE DEF k
      <4>2. kept' = k /\ DOMAIN k = 1..Len(kept) + 1
        BY <2>1, <3>2, <4>1, LenProperties DEF k
      <4>3. ASSUME NEW n \in DOMAIN k PROVE Contains(aggregated, k[n]) /\ Grown(k[n])
        <5>1. n \in 1..Len(kept) \/ n = Len(kept) + 1
          BY <2>8, <4>2
        <5>2. CASE n \in 1..Len(kept)
          BY <2>8, <4>1, <5>2 DEF Filtered
        <5>3. CASE n = Len(kept) + 1
          BY <2>3, <2>6, <3>2, <4>1, <5>3
        <5> QED BY <5>1, <5>2, <5>3
      <4>4. Len(kept') < i'
        BY <2>1, <2>2, <2>8, <4>1, <4>2 DEF Filtered
      <4>5. Contains(k, f) /\ \A x : Contains(kept, x) => Contains(k, x)
        <5>1. Len(kept) + 1 \in 1..Len(k) /\ 1..Len(kept) \subseteq 1..Len(k)
          BY <2>8, <4>1
        <5> QED BY <4>1, <5>1 DEF Contains
      <4> QED BY <4>1, <4>2, <4>3, <4>4, <4>5
    <3> QED BY <3>1, <3>2
  <2>10. \A n \in 1..i' - 1 : Due(aggregated[n]) => Contains(kept', aggregated[n])
    <3> SUFFICES ASSUME NEW n \in 1..i' - 1, Due(aggregated[n])
                 PROVE  Contains(kept', aggregated[n])
      OBVIOUS
    <3>1. n \in 1..i - 1 \/ n = i
      BY <2>1, <2>2
    <3> QED BY <2>9, <3>1 DEF Filtered, f
  <2>11. i' \in Nat \ {0} /\ i' <= Len(aggregated) + 1 /\ ~(pc' = "rendering" \/ exit' = 0)
    BY <2>1, <2>2 DEF Typed
  <2>12. \A x : (Due(x))' = Due(x) /\ (Grown(x))' = Grown(x)
    BY <2>1 DEF Due, Grown, inScope
  <2> QED BY <2>1, <2>9, <2>10, <2>11, <2>12 DEF Filtered, Due, Grown, inScope
<1>10. ASSUME Tick PROVE Filtered'
  <2>1. UNCHANGED <<aggregated, opts, i, kept, pc, exit>> /\ now' = now + 1
    BY <1>10 DEF Tick, run, aggregated
  <2>2. ASSUME NEW x \in Finding, Grown(x) PROVE x.created = 0 \/ now' - x.created >= opts.minAge
    <3>1. x.created \in Int /\ now \in Int /\ opts.minAge \in Int
      BY TimesAssumption DEF Finding, Typed
    <3> QED BY <2>1, <2>2, <3>1 DEF Grown
  <2>3. \A n \in DOMAIN kept : kept[n] \in Finding
    BY ElementOfSeq, LenProperties DEF Filtered
  <2> QED BY <2>1, <2>2, <2>3 DEF Filtered, Grown, Due, inScope
<1> QED BY <1>3, <1>4, <1>5, <1>6, <1>7, <1>8, <1>9, <1>10 DEF Next, Command

LEMMA WrittenStep ==
  ASSUME Typed, Filtered, Written, Filtered', [Next]_vars PROVE Written'
<1>1. Len(output) \in Nat /\ \E S : output \in Seq(S)
  BY OutputIsReport
<1>2. ASSUME UNCHANGED <<kept, opts, written>>,
             pc' \notin {"rendering", "exited"} => written = << >>,
             exit' = 0 => Len(written) = Len(output)
      PROVE  Written'
  BY <1>2 DEF Written, output
<1>3. ASSUME buildClientset \/ loadPricingTable \/ rendererFor \/ RunAllReturns PROVE Written'
  <2>1. UNCHANGED <<kept, opts, written>> /\ written = << >> /\ exit' # 0
    BY <1>3 DEF buildClientset, loadPricingTable, rendererFor, RunAllReturns, Go, Exit, Typed, Written
  <2> QED BY <1>2, <2>1
<1>4. ASSUME NEW d \in Detectors, DetectorEnds(d) PROVE Written'
  <2>1. UNCHANGED <<kept, opts, written>> /\ written = << >> /\ exit' # 0
    BY <1>4 DEF DetectorEnds, Typed, Written
  <2> QED BY <1>2, <2>1
<1>5. ASSUME filterEnds \/ writeFails \/ Tick \/ Exited \/ UNCHANGED vars PROVE Written'
  <2>1. UNCHANGED <<kept, opts, written>> /\ (pc' \notin {"rendering", "exited"} => written = << >>)
        /\ (exit' = 0 => Len(written) = Len(output))
    BY <1>5 DEF filterEnds, writeFails, Tick, Exited, vars, Go, Exit, Written, Typed
  <2> QED BY <1>2, <2>1
<1>6. ASSUME renderEnds PROVE Written'
  <2>1. UNCHANGED <<kept, opts, written>> /\ pc' = "exited" /\ Len(written) = Len(output)
    BY <1>6 DEF renderEnds, Exit
  <2> QED BY <1>2, <2>1
<1>7. ASSUME filterNext PROVE Written'
  <2>1. written' = << >> /\ exit' # 0
    BY <1>7 DEF filterNext, Written, Typed
  <2>2. Reports(output', kept')
    BY WholeReport DEF Filtered, output
  <2>3. Len(output') \in Nat
    BY <2>2 DEF Reports
  <2>4. SubSeq(output', 1, 0) = << >> /\ Len(written') = 0
    BY <2>1, SubSeqEmpty
  <2> QED BY <2>1, <2>3, <2>4 DEF Written
<1>8. ASSUME writePiece PROVE Written'
  <2> DEFINE n == Len(written)
  <2>1. /\ UNCHANGED <<kept, opts, output>> /\ pc' = "rendering" /\ exit' # 0
        /\ n < Len(output) /\ written' = Append(written, output[n + 1])
    BY <1>8 DEF writePiece, output, Typed
  <2>2. n \in Nat /\ written = SubSeq(output, 1, n)
    BY DEF Written
  <2>3. PICK S : output \in Seq(S)
    BY <1>1
  <2>4. 1 \in 1..Len(output) /\ n + 1 \in 1..Len(output) /\ n + 1 - 1 = n
    BY <1>1, <2>1, <2>2
  <2>5. SubSeq(output, 1, n) \in Seq(S)
    <3>1. \A m \in 1..n : output[m] \in S
      BY <1>1, <2>1, <2>2, <2>3, ElementOfSeq
    <3> QED BY <2>2, <3>1, SubSeqProperties
  <2>6. written' = SubSeq(output, 1, n + 1)
    <3>1. SubSeq(output, 1, n + 1) = SubSeq(output, 1, n + 1 - 1) \o <<output[n + 1]>>
      BY <2>3, <2>4, SubSeqRecursiveSecond
    <3>2. Append(SubSeq(output, 1, n), output[n + 1]) = SubSeq(output, 1, n) \o <<output[n + 1]>>
      BY <2>3, <2>4, <2>5, ElementOfSeq, AppendIsConcat
    <3> QED BY <2>1, <2>2, <2>4, <3>1, <3>2
  <2>7. Len(written') = n + 1
    BY <2>1, <2>2, <2>3, <2>4, <2>5, ElementOfSeq, AppendProperties
  <2> QED BY <1>1, <2>1, <2>2, <2>6, <2>7 DEF Written
<1> QED BY <1>3, <1>4, <1>5, <1>6, <1>7, <1>8 DEF Next, Command

\* The inductive invariant of the command, stage by stage from main.go's pricing to the
\* last piece that Render writes.
THEOREM CommandInvHolds == Spec => []CommandInv
<1>1. Init => CommandInv
  BY InitOK
<1>2. CommandInv /\ [Next]_vars => CommandInv'
  BY TypedStep, PricedStep, ResolvedStep, FilteredStep, WrittenStep DEF CommandInv
<1> QED BY <1>1, <1>2, PTL DEF Spec

-----------------------------------------------------------------------------
(* What the invariant says when the command has succeeded *)

LEMMA WhatIsShown ==
  ASSUME CommandInv, Succeeded
  PROVE  /\ kept \in Seq(Finding) /\ aggregated \in Seq(Finding)
         /\ Reports(written, kept) /\ shown = sortedFindings(kept)
         /\ LoadPricingTable(table) /\ published
         /\ \A n \in DOMAIN aggregated : Due(aggregated[n]) => Contains(kept, aggregated[n])
         /\ \A n \in DOMAIN aggregated : \E d \in Detectors : Genuine(d, aggregated[n], now, table)
         /\ \A f : Contains(kept, f) => Contains(shown, f)
         /\ \A n \in DOMAIN shown : Contains(aggregated, shown[n]) /\ Grown(shown[n])
<1> USE DEF CommandInv, Succeeded
<1>1. /\ kept \in Seq(Finding) /\ aggregated \in Seq(Finding)
      /\ LoadPricingTable(table) /\ published /\ i = Len(aggregated) + 1
      /\ \A n \in DOMAIN aggregated : \E d \in Detectors : Genuine(d, aggregated[n], now, table)
  BY Aggregated DEF Filtered, Priced, Resolved
<1>2. written = output
  <2>1. \E S : output \in Seq(S)
    BY OutputIsReport
  <2>2. written = SubSeq(output, 1, Len(output))
    BY DEF Written
  <2> QED BY <2>1, <2>2, SubSeqFull
<1>3. Reports(written, kept)
  BY <1>2, OutputIsReport
<1>4. shown = sortedFindings(kept)
  BY <1>3 DEF Reports, shown, shownBy
<1>5. \A n \in DOMAIN aggregated : Due(aggregated[n]) => Contains(kept, aggregated[n])
  <2>1. DOMAIN aggregated = 1..i - 1
    BY <1>1, LenProperties
  <2> QED BY <2>1 DEF Filtered
<1> DEFINE p == placesInOrder(kept)
           s == sortedFindings(kept)
<1>6. /\ p \in [DOMAIN kept -> DOMAIN kept] /\ \A m \in DOMAIN kept : \E r \in DOMAIN kept : p[r] = m
      /\ DOMAIN s = DOMAIN kept /\ Len(s) = Len(kept) /\ DOMAIN kept = 1..Len(kept)
      /\ \A r \in DOMAIN kept : s[r] = kept[p[r]]
  BY <1>1, SortedFindings, LenProperties
<1> HIDE DEF p, s
<1>7. \A f : Contains(kept, f) => Contains(s, f)
  <2> SUFFICES ASSUME NEW f, NEW m \in DOMAIN kept, kept[m] = f PROVE Contains(s, f)
    BY <1>6 DEF Contains
  <2>1. PICK r \in DOMAIN kept : p[r] = m
    BY <1>6
  <2> QED BY <1>6, <2>1 DEF Contains
<1>8. \A n \in DOMAIN s : Contains(aggregated, s[n]) /\ Grown(s[n])
  BY <1>6 DEF Filtered
<1> QED BY <1>1, <1>3, <1>4, <1>5, <1>7, <1>8 DEF s

-----------------------------------------------------------------------------
(* The properties *)

\* Every variable of ScanCommand keeps its type, from the flags of main.go to the pieces
\* that are written.
THEOREM TypeOKHolds == Spec => []TypeOK
<1>1. ASSUME CommandInv PROVE TypeOK
  <2>1. Typed /\ Resolved /\ Filtered /\ Written
    BY <1>1 DEF CommandInv
  <2>2. aggregated \in Seq(Finding)
    BY <2>1, Aggregated
  <2>3. i \in 1..Len(aggregated) + 1
    BY <2>1, <2>2 DEF Filtered
  <2> QED BY <2>1, <2>3 DEF Typed, Filtered, Written, TypeOK
<1> QED BY <1>1, CommandInvHolds, PTL

\* A detector that failed or panicked is in the report of a run that succeeds: none of
\* filterFindings' conditions (run.go:77-91) drops a Skipped finding.
THEOREM EverySkipIsShownHolds == Spec => []EverySkipIsShown
<1>1. ASSUME CommandInv, Succeeded, NEW d \in Detectors, verdict[d] = <<skippedFinding(d)>>
      PROVE  Contains(shown, skippedFinding(d))
  <2> DEFINE f == skippedFinding(d)
  <2>1. Contains(verdict[d], f)
    BY <1>1 DEF Contains
  <2>2. Contains(aggregated, f)
    BY <1>1, <2>1, Aggregated, WhatIsShown DEF CommandInv
  <2>3. Due(f)
    BY DEF Due, inScope, skippedFinding
  <2>4. PICK n \in 1..Len(aggregated) : aggregated[n] = f
    BY <2>2 DEF Contains
  <2>5. n \in DOMAIN aggregated
    BY <1>1, WhatIsShown, LenProperties
  <2> HIDE DEF f
  <2>6. Contains(kept, f)
    BY <1>1, <2>3, <2>4, <2>5, WhatIsShown
  <2>7. Contains(shown, f)
    BY <1>1, <2>6, WhatIsShown
  <2> QED BY <2>7 DEF f
<1>2. CommandInv => EverySkipIsShown
  BY <1>1 DEF EverySkipIsShown
<1> QED BY <1>2, CommandInvHolds, PTL

\* --min-age is kept although run.go:87 reads the clock anew for each finding: what is
\* shown had reached it at the end, and what had reached it at the start is shown.
THEOREM GracePeriodIsKeptHolds == Spec => []GracePeriodIsKept
<1>1. ASSUME CommandInv, Succeeded, NEW n \in DOMAIN shown
      PROVE  shown[n].created = 0 \/ now - shown[n].created >= opts.minAge
  BY <1>1, WhatIsShown DEF Grown
<1>2. ASSUME CommandInv, Succeeded, NEW n \in DOMAIN aggregated, Due(aggregated[n])
      PROVE  Contains(shown, aggregated[n])
  BY <1>2, WhatIsShown
<1>3. CommandInv => GracePeriodIsKept
  BY <1>1, <1>2 DEF GracePeriodIsKept, Due
<1> QED BY <1>3, CommandInvHolds, PTL

\* Merging neighbours (render.go:51-64) is enough after the sort: there is one section per
\* Kind, and together they hold each finding as often as the filter kept it.
THEOREM SectionsAreCompleteHolds == Spec => []SectionsAreComplete
<1>1. ASSUME CommandInv, Succeeded
      PROVE  /\ Len(shown) = Len(kept)
             /\ \A n \in DOMAIN kept :
                  Cardinality({m \in DOMAIN shown : shown[m] = kept[n]})
                    = Cardinality({m \in DOMAIN kept : kept[m] = kept[n]})
  <2>1. shown = sortedFindings(kept) /\ kept \in Seq(Finding)
    BY <1>1, WhatIsShown
  <2> DEFINE D == DOMAIN kept
             p == placesInOrder(kept)
  <2>2. /\ Permutes(p, D) /\ DOMAIN shown = D /\ Len(shown) = Len(kept)
        /\ \A r \in D : p[r] \in D /\ shown[r] = kept[p[r]]
    BY <2>1, SortedFindings DEF Permutes
  <2>3. IsFiniteSet(D)
    <3>1. D = 1..Len(kept) /\ Len(kept) \in Nat
      BY <2>1, LenProperties
    <3> QED BY <3>1, FS_Interval
  <2> HIDE DEF p, D
  <2>4. ASSUME NEW n \in D
        PROVE  Cardinality({m \in D : shown[m] = kept[n]})
                 = Cardinality({m \in D : kept[m] = kept[n]})
    <3> DEFINE T == {m \in D : kept[m] = kept[n]}
    <3>1. T \in SUBSET D
      OBVIOUS
    <3>2. {m \in D : shown[m] = kept[n]} = {m \in D : p[m] \in T}
      BY <2>2
    <3> HIDE DEF T
    <3>3. Cardinality({m \in D : p[m] \in T}) = Cardinality(T)
      BY ONLY <2>2, <2>3, <3>1, SameNumber
    <3> QED BY <3>2, <3>3 DEF T
  <2> QED BY <2>2, <2>4 DEF D
<1>2. ASSUME CommandInv, Succeeded
      PROVE  \A m, n \in DOMAIN written :
               written[m].piece = "section" /\ written[n].piece = "section"
                 /\ written[m].kind = written[n].kind => m = n
  BY <1>2, WhatIsShown DEF Reports
<1>3. CommandInv => SectionsAreComplete
  BY <1>1, <1>2 DEF SectionsAreComplete
<1> QED BY <1>3, CommandInvHolds, PTL

\* Exit code 0 is for a report written to its last piece, and the numbers at its head,
\* which summarize (render.go:92-102) takes before the sections, agree with them.
THEOREM ExitZeroIsWholeReportHolds == Spec => []ExitZeroIsWholeReport
<1>1. ASSUME CommandInv, Succeeded
      PROVE  /\ Len(shown) = Len(kept) /\ totalCost(shown) = totalCost(kept)
             /\ Cardinality(costed(shown)) = Cardinality(costed(kept))
             /\ Cardinality(skipped(shown)) = Cardinality(skipped(kept))
  <2>1. shown = sortedFindings(kept) /\ kept \in Seq(Finding)
    BY <1>1, WhatIsShown
  <2> QED BY <2>1, SortedFindings, SortedTotals
<1>2. ASSUME CommandInv, Succeeded PROVE Reports(written, kept)
  BY <1>2, WhatIsShown
<1>3. CommandInv => ExitZeroIsWholeReport
  BY <1>1, <1>2 DEF Reports, ExitZeroIsWholeReport
<1> QED BY <1>3, CommandInvHolds, PTL

\* An estimate of $0 has a size of 0 or a stated rate of 0 behind it, and never a rate that
\* the table lacks: LoadPricingTable refuses a default without one (pricing.go:23-29).
THEOREM ZeroIsNeverAGuessHolds == Spec => []ZeroIsNeverAGuess
<1>1. ASSUME CommandInv, Succeeded, NEW f \in Range(shown), f.cost = 0, 0 \notin Range(table.ebs)
      PROVE  \E d \in Detectors : \E r \in Range(Finds[d]) :
               /\ DetectorName[d] = f.detector
               /\ <<r.kind, r.namespace, r.name>> = <<f.kind, f.namespace, f.name>>
               /\ r.bill.by = "volume" /\ storageGB(r.bill.size) = 0
  <2>1. PICK n \in DOMAIN shown : shown[n] = f
    BY <1>1 DEF Range
  <2>2. Contains(aggregated, f) /\ aggregated \in Seq(Finding)
    BY <1>1, <2>1, WhatIsShown
  <2>3. PICK m \in DOMAIN aggregated : aggregated[m] = f
    BY <2>2, LenProperties DEF Contains
  <2>4. PICK d \in Detectors : Genuine(d, f, now, table)
    BY <1>1, <2>3, WhatIsShown
  <2>5. f.cost # NoCost
    BY <1>1, PricesAssumption
  <2>6. PICK q \in DOMAIN Finds[d], c \in Births : f = orphan(d, q, c, table)
    BY <2>4, <2>5 DEF Genuine, skippedFinding
  <2> DEFINE r == Finds[d][q]
  <2>7. r \in Range(Finds[d])
    BY DEF Range
  <2>8. /\ f.detector = DetectorName[d] /\ f.kind = r.kind /\ f.namespace = r.namespace
        /\ f.name = r.name /\ estimateCost(table, r.bill) = 0
    BY <1>1, <2>6 DEF orphan
  <2>9. r.bill.by = "volume" /\ storageGB(r.bill.size) = 0
    <3>1. opts.pricingFile \in DOMAIN PricingFiles /\ LoadPricingTable(PricingFiles[opts.pricingFile])
      BY <1>1, WhatIsShown, PricesAssumption DEF CommandInv, Typed, table
    <3> QED BY <1>1, <2>8, <3>1, EstimateCost DEF table
  <2> QED BY <2>7, <2>8, <2>9
<1>2. CommandInv => ZeroIsNeverAGuess
  BY <1>1 DEF ZeroIsNeverAGuess
<1> QED BY <1>2, CommandInvHolds, PTL
=============================================================================
