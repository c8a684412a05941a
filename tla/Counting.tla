------------------------------ MODULE Counting ------------------------------
(***************************************************************************)
(* Lemmas about counting, for the proofs about the search engines and the  *)
(* fusion of rankings: the rank of an element in an order, the sequence    *)
(* that lists a set by rank, totals, powers of two and quotients, and      *)
(* induction over the naturals as the absence of a least exception.        *)
(***************************************************************************)
EXTENDS Integers, FiniteSets, Sequences, FiniteSetTheorems, WellFoundedInduction, TLAPS

(***************************************************************************)
(* Least elements, and induction as the absence of a least exception.      *)
(***************************************************************************)
BeforeIn == {p \in Nat \X Nat : p[1] < p[2]}

\* Any naturals have a least.
LEMMA LeastNatural ==
    ASSUME NEW S \in SUBSET Nat, S # {}
    PROVE  \E x \in S : \A y \in S : x <= y
PROOF
  <1>1. IsWellFoundedOn(BeforeIn, Nat)
    BY NatLessThanWellFounded, Zenon DEF OpToRel, BeforeIn
  <1>2. PICK x \in S : \A y \in S : ~ (<<y, x>> \in BeforeIn)
    BY <1>1, WFMin
  <1>3. ASSUME NEW y \in S PROVE x <= y
    <2>1. SUFFICES ASSUME y < x PROVE FALSE
      OBVIOUS
    <2> DEFINE p == <<y, x>>
    <2>2. p \in Nat \X Nat /\ p[1] < p[2]
      BY <2>1
    <2> HIDE DEF p
    <2>3. p \in BeforeIn
      BY <2>2 DEF BeforeIn
    <2>4. QED
      BY <1>2, <2>3 DEF p
  <1>4. QED
    BY <1>3

\* A set of naturals without 0, each of whose other members is after one, is empty.
LEMMA NoException ==
    ASSUME NEW S \in SUBSET Nat, 0 \notin S,
           \A n \in Nat : n + 1 \in S => n \in S
    PROVE  S = {}
PROOF
  <1> SUFFICES ASSUME S # {} PROVE FALSE
    OBVIOUS
  <1>1. PICK x \in S : \A y \in S : x <= y
    BY LeastNatural
  <1> DEFINE n == x - 1
  <1>2. x \in Nat /\ n \in Nat /\ n + 1 = x /\ ~ (x <= n)
    BY <1>1
  <1> HIDE DEF n
  <1>3. n \in S
    BY <1>2
  <1>4. QED
    BY <1>1, <1>2, <1>3

(***************************************************************************)
(* Orders and ranks.  What is the first of a set, and the first n of it,   *)
(* are counts of what comes before: on a finite set under a strict total   *)
(* order these counts are 0, 1, ... and none is taken twice.               *)
(***************************************************************************)
StrictOrder(R, S) ==
    /\ \A i \in S : <<i, i>> \notin R
    /\ \A i, j \in S : i # j => <<i, j>> \in R \/ <<j, i>> \in R
    /\ \A i, j, k \in S : <<i, j>> \in R /\ <<j, k>> \in R => <<i, k>> \in R

Ahead(R, S, i) == {j \in S : <<j, i>> \in R}
Rank(R, S, i) == Cardinality(Ahead(R, S, i))

\* A rank is below the size of the set, and the order of ranks is the order.
LEMMA RankOrder ==
    ASSUME NEW S, IsFiniteSet(S), NEW R, StrictOrder(R, S)
    PROVE  /\ \A i \in S : Rank(R, S, i) \in 0..(Cardinality(S) - 1)
           /\ \A i, j \in S : <<i, j>> \in R => Rank(R, S, i) < Rank(R, S, j)
           /\ \A i, j \in S : Rank(R, S, i) = Rank(R, S, j) => i = j
PROOF
  <1>0. Cardinality(S) \in Nat
    BY FS_CardinalityType
  <1>1. ASSUME NEW i \in S
        PROVE  IsFiniteSet(Ahead(R, S, i)) /\ Rank(R, S, i) \in Nat /\ Rank(R, S, i) < Cardinality(S)
    <2>1. Ahead(R, S, i) \in SUBSET S /\ i \notin Ahead(R, S, i)
      BY DEF Ahead, StrictOrder
    <2>2. IsFiniteSet(Ahead(R, S, i)) /\ Rank(R, S, i) <= Cardinality(S)
          /\ (Cardinality(S) = Rank(R, S, i) => S = Ahead(R, S, i))
      BY <2>1, FS_Subset DEF Rank
    <2>3. Rank(R, S, i) \in Nat
      BY <2>2, FS_CardinalityType DEF Rank
    <2>4. QED
      BY <1>0, <2>1, <2>2, <2>3
  <1>2. ASSUME NEW i \in S, NEW j \in S, <<i, j>> \in R
        PROVE  Rank(R, S, i) < Rank(R, S, j)
    <2>1. Ahead(R, S, i) \in SUBSET Ahead(R, S, j)
      BY <1>2 DEF Ahead, StrictOrder
    <2>2. i \in Ahead(R, S, j) /\ i \notin Ahead(R, S, i)
      BY <1>2 DEF Ahead, StrictOrder
    <2>3. /\ Rank(R, S, i) <= Rank(R, S, j)
          /\ Rank(R, S, j) = Rank(R, S, i) => Ahead(R, S, j) = Ahead(R, S, i)
      BY <1>1, <2>1, FS_Subset DEF Rank
    <2>4. QED
      BY <1>1, <2>2, <2>3
  <1>3. ASSUME NEW i \in S, NEW j \in S, Rank(R, S, i) = Rank(R, S, j)
        PROVE  i = j
    <2>1. SUFFICES ASSUME i # j PROVE FALSE
      OBVIOUS
    <2>2. <<i, j>> \in R \/ <<j, i>> \in R
      BY <2>1 DEF StrictOrder
    <2>3. QED
      BY <1>1, <1>2, <1>3, <2>2
  <1>4. QED
    BY <1>0, <1>1, <1>2, <1>3

\* Every rank below the size of the set is somebody's.
LEMMA RankTaken ==
    ASSUME NEW S, IsFiniteSet(S), NEW R, StrictOrder(R, S),
           NEW p \in 0..(Cardinality(S) - 1)
    PROVE  \E i \in S : Rank(R, S, i) = p
PROOF
  <1> DEFINE ranks == 0..(Cardinality(S) - 1)
  <1> DEFINE f == [i \in S |-> Rank(R, S, i)]
  <1>0. Cardinality(S) \in Nat
    BY FS_CardinalityType
  <1>1. IsFiniteSet(ranks) /\ Cardinality(ranks) = Cardinality(S)
    BY <1>0, FS_Interval
  <1>2. f \in [S -> ranks] /\ \A i, j \in S : f[i] = f[j] => i = j
    BY RankOrder
  <1>3. f \in Injection(S, ranks)
    BY <1>2 DEF Injection, IsInjective
  <1>4. f \in Surjection(S, ranks)
    BY <1>1, <1>3, FS_Injection
  <1>5. \A q \in ranks : \E i \in S : f[i] = q
    BY <1>4 DEF Surjection
  <1>6. QED
    BY <1>5

Shorter(k, n) == IF k < n THEN k ELSE n

\* hits lists n elements, the one with p - 1 ahead of it at place p if there is one.
ListsByRank(R, S, n, hits) ==
    /\ hits = [p \in 1..n |-> hits[p]]
    /\ \A p \in 1..n : (\E i \in S : Rank(R, S, i) = p - 1) =>
                            hits[p] \in S /\ Rank(R, S, hits[p]) = p - 1

\* The sequence of the first n by rank lists each once and in order, and whoever is not
\* in it comes after everyone in it.
LEMMA RankedFacts ==
    ASSUME NEW S, IsFiniteSet(S), NEW R, StrictOrder(R, S),
           NEW k \in Nat, NEW n, n = Shorter(k, Cardinality(S)),
           NEW hits, ListsByRank(R, S, n, hits)
    PROVE  /\ Len(hits) = n /\ DOMAIN hits = 1..n
           /\ \A p \in 1..n : hits[p] \in S
           /\ \A p, q \in 1..n : p < q => <<hits[p], hits[q]>> \in R
           /\ \A i \in S : \/ \E p \in 1..n : i = hits[p]
                           \/ \A p \in 1..n : <<hits[p], i>> \in R
PROOF
  <1> DEFINE N == Cardinality(S)
  <1>1. N \in Nat /\ n \in Nat /\ n <= N
    <2>1. N \in Nat
      BY FS_CardinalityType
    <2>2. QED
      BY <2>1 DEF Shorter
  <1>2. /\ \A i \in S : Rank(R, S, i) \in 0..(N - 1)
        /\ \A i, j \in S : <<i, j>> \in R => Rank(R, S, i) < Rank(R, S, j)
        /\ \A i, j \in S : Rank(R, S, i) = Rank(R, S, j) => i = j
    BY RankOrder
  <1>3. ASSUME NEW p \in 1..n
        PROVE  hits[p] \in S /\ Rank(R, S, hits[p]) = p - 1
    <2>1. p - 1 \in 0..(N - 1)
      BY <1>1
    <2>2. \E i \in S : Rank(R, S, i) = p - 1
      BY <2>1, RankTaken
    <2>3. QED
      BY <2>2 DEF ListsByRank
  <1> HIDE DEF N
  <1>4. DOMAIN hits = 1..n /\ Len(hits) = n
    <2>1. DOMAIN hits = 1..n /\ hits = [p \in 1..n |-> hits[p]]
      BY DEF ListsByRank
    <2>2. hits \in [1..n -> S]
      BY <1>3, <2>1
    <2>3. hits \in Seq(S)
      BY <1>1, <2>2
    <2>4. QED
      BY <1>1, <2>1, <2>3
  <1>5. ASSUME NEW i \in S, NEW j \in S, Rank(R, S, i) < Rank(R, S, j)
        PROVE  <<i, j>> \in R
    <2>1. Rank(R, S, i) \in Int /\ Rank(R, S, j) \in Int
      BY <1>2
    <2>2. i # j /\ ~ (<<j, i>> \in R)
      BY <1>2, <1>5, <2>1
    <2>3. QED
      BY <2>2 DEF StrictOrder
  <1>6. ASSUME NEW p \in 1..n, NEW q \in 1..n, p < q
        PROVE  <<hits[p], hits[q]>> \in R
    BY <1>3, <1>5, <1>6
  <1>7. ASSUME NEW i \in S, ~ \E p \in 1..n : i = hits[p], NEW q \in 1..n
        PROVE  <<hits[q], i>> \in R
    <2>1. Rank(R, S, i) \in 0..(N - 1)
      BY <1>2
    <2>2. ~ (Rank(R, S, i) < n)
      <3>1. SUFFICES ASSUME Rank(R, S, i) < n PROVE FALSE
        OBVIOUS
      <3> DEFINE p == Rank(R, S, i) + 1
      <3>2. p \in 1..n /\ p - 1 = Rank(R, S, i)
        BY <1>1, <2>1, <3>1
      <3> HIDE DEF p
      <3>3. hits[p] \in S /\ Rank(R, S, hits[p]) = Rank(R, S, i)
        BY <1>3, <3>2
      <3>4. hits[p] = i
        BY <1>2, <3>3
      <3>5. QED
        BY <1>7, <3>2, <3>4
    <2>3. Rank(R, S, hits[q]) < Rank(R, S, i)
      BY <1>1, <1>3, <2>1, <2>2
    <2>4. QED
      BY <1>3, <1>5, <2>3
  <1>8. QED
    BY <1>3, <1>4, <1>6, <1>7

(***************************************************************************)
(* Totals.  The total of a function into the naturals is a number of       *)
(* pairs, so what it adds up to does not depend on an order.               *)
(***************************************************************************)
Column(f, x) == {x} \X (1..f[x])
Pairs(f) == UNION {Column(f, x) : x \in DOMAIN f}
Total(f) == Cardinality(Pairs(f))

LEMMA ColumnFacts ==
    ASSUME NEW f, NEW x, f[x] \in Nat
    PROVE  /\ IsFiniteSet(Column(f, x)) /\ Cardinality(Column(f, x)) = f[x]
           /\ \A p : p \in Column(f, x) <=> p = <<x, p[2]>> /\ p[2] \in 1..f[x]
PROOF
  <1> DEFINE n == f[x]
  <1>1. IsFiniteSet({x}) /\ Cardinality({x}) = 1
    BY FS_Singleton
  <1>2. n \in Nat
    BY DEF n
  <1> HIDE DEF n
  <1>3. IsFiniteSet(1..n) /\ Cardinality(1..n) = n
    BY <1>2, FS_Interval
  <1>4. IsFiniteSet({x} \X (1..n)) /\ Cardinality({x} \X (1..n)) = 1 * n
    <2> DEFINE A == {x}
    <2> DEFINE B == 1..n
    <2>1. IsFiniteSet(A) /\ IsFiniteSet(B) /\ Cardinality(A) = 1 /\ Cardinality(B) = n
      BY <1>1, <1>3
    <2> HIDE DEF A, B
    <2>2. IsFiniteSet(A \X B) /\ Cardinality(A \X B) = Cardinality(A) * Cardinality(B)
      BY <2>1, FS_Product
    <2>3. IsFiniteSet(A \X B) /\ Cardinality(A \X B) = 1 * n
      BY <2>1, <2>2
    <2>4. QED
      BY <2>3 DEF A, B
  <1>5. \A p : p \in {x} \X (1..n) <=> p = <<x, p[2]>> /\ p[2] \in 1..n
    OBVIOUS
  <1>6. QED
    BY <1>2, <1>4, <1>5 DEF Column, n

\* A pair belongs to one element of the domain.
LEMMA PairsMembers ==
    ASSUME NEW f, \A x \in DOMAIN f : f[x] \in Nat, NEW p
    PROVE  p \in Pairs(f) <=> /\ p = <<p[1], p[2]>>
                              /\ p[1] \in DOMAIN f
                              /\ p[2] \in 1..f[p[1]]
PROOF
  <1>1. ASSUME p \in Pairs(f)
        PROVE  p = <<p[1], p[2]>> /\ p[1] \in DOMAIN f /\ p[2] \in 1..f[p[1]]
    <2>1. PICK x \in DOMAIN f : p \in Column(f, x)
      BY <1>1 DEF Pairs
    <2>2. p = <<x, p[2]>> /\ p[2] \in 1..f[x]
      BY <2>1, ColumnFacts
    <2>3. p[1] = x
      BY <2>2
    <2>4. QED
      BY <2>2, <2>3
  <1>2. ASSUME p = <<p[1], p[2]>>, p[1] \in DOMAIN f, p[2] \in 1..f[p[1]]
        PROVE  p \in Pairs(f)
    <2>1. p \in Column(f, p[1])
      BY <1>2, ColumnFacts
    <2>2. QED
      BY <1>2, <2>1 DEF Pairs
  <1>3. QED
    BY <1>1, <1>2

LEMMA TotalType ==
    ASSUME NEW D, IsFiniteSet(D), NEW f \in [D -> Nat]
    PROVE  IsFiniteSet(Pairs(f)) /\ Total(f) \in Nat
PROOF
  <1> DEFINE columns == {Column(f, x) : x \in D}
  <1> DEFINE g == [x \in D |-> Column(f, x)]
  <1>1. g \in Surjection(D, columns)
    BY DEF Surjection
  <1>2. IsFiniteSet(columns)
    BY <1>1, FS_Surjection
  <1>3. \A c \in columns : IsFiniteSet(c)
    BY ColumnFacts
  <1>4. Pairs(f) = UNION columns
    BY DEF Pairs
  <1> HIDE DEF columns
  <1>5. IsFiniteSet(Pairs(f))
    BY <1>2, <1>3, <1>4, FS_UNION
  <1>6. QED
    BY <1>5, FS_CardinalityType DEF Total

\* g is f with one element more.
Adds(g, f, D, x) ==
    /\ x \notin D
    /\ f \in [D -> Nat]
    /\ g \in [D \cup {x} -> Nat]
    /\ \A d \in D : g[d] = f[d]

\* One element more adds its value.
LEMMA TotalWith ==
    ASSUME NEW D, IsFiniteSet(D), NEW f, NEW x, NEW g, Adds(g, f, D, x)
    PROVE  Total(g) = Total(f) + g[x]
PROOF
  <1>0. x \notin D /\ f \in [D -> Nat] /\ g \in [D \cup {x} -> Nat] /\ \A d \in D : g[d] = f[d]
    BY DEF Adds
  <1>1. IsFiniteSet(Pairs(f)) /\ Total(f) \in Nat
    BY <1>0, TotalType
  <1>2. IsFiniteSet(Column(g, x)) /\ Cardinality(Column(g, x)) = g[x]
        /\ \A p : p \in Column(g, x) <=> p = <<x, p[2]>> /\ p[2] \in 1..g[x]
    BY <1>0, ColumnFacts
  <1>3. \A p : p \in Pairs(f) <=> p = <<p[1], p[2]>> /\ p[1] \in D /\ p[2] \in 1..f[p[1]]
    BY <1>0, PairsMembers
  <1>4. \A p : p \in Pairs(g) <=> p = <<p[1], p[2]>> /\ p[1] \in D \cup {x} /\ p[2] \in 1..g[p[1]]
    BY <1>0, PairsMembers
  <1>5. ASSUME NEW p PROVE p = <<x, p[2]>> <=> p = <<p[1], p[2]>> /\ p[1] = x
    <2>1. ASSUME p = <<x, p[2]>> PROVE p[1] = x
      BY <2>1
    <2>2. QED
      BY <2>1
  <1>6. Pairs(g) = Pairs(f) \cup Column(g, x)
    BY <1>0, <1>2, <1>3, <1>4, <1>5
  <1>7. Pairs(f) \cap Column(g, x) = {}
    BY <1>0, <1>2, <1>3, <1>5
  <1>8. Cardinality(Pairs(f) \cup Column(g, x))
            = Cardinality(Pairs(f)) + Cardinality(Column(g, x)) - Cardinality({})
    BY <1>1, <1>2, <1>7, FS_Union
  <1>9. Cardinality({}) = 0
    BY FS_EmptySet
  <1>10. g[x] \in Nat
    BY <1>0
  <1>11. QED
    BY <1>1, <1>2, <1>6, <1>8, <1>9, <1>10 DEF Total

LEMMA TotalEmpty ==
    ASSUME NEW f, DOMAIN f = {}
    PROVE  Total(f) = 0
BY FS_EmptySet DEF Total, Pairs

\* A total is at most what it would be with the greatest value everywhere.
LEMMA TotalBound ==
    ASSUME NEW D, IsFiniteSet(D), NEW f \in [D -> Nat], NEW m \in Nat, \A x \in D : f[x] <= m
    PROVE  Total(f) <= Cardinality(D) * m
PROOF
  <1>1. IsFiniteSet(1..m) /\ Cardinality(1..m) = m
    BY FS_Interval
  <1>2. IsFiniteSet(D \X (1..m)) /\ Cardinality(D \X (1..m)) = Cardinality(D) * m
    BY <1>1, FS_Product
  <1>3. \A p : p \in Pairs(f) => p = <<p[1], p[2]>> /\ p[1] \in D /\ p[2] \in 1..f[p[1]]
    BY PairsMembers
  <1>4. \A p : p \in Pairs(f) => p \in D \X (1..m)
    <2> SUFFICES ASSUME NEW p \in Pairs(f) PROVE p \in D \X (1..m)
      OBVIOUS
    <2>1. p = <<p[1], p[2]>> /\ p[1] \in D /\ p[2] \in 1..f[p[1]]
      BY <1>3
    <2>2. p[2] \in 1..m
      BY <2>1
    <2>3. QED
      BY <2>1, <2>2
  <1>5. QED
    BY <1>2, <1>4, FS_Subset DEF Total

\* No value is greater than the total.
LEMMA TotalOver ==
    ASSUME NEW D, IsFiniteSet(D), NEW f \in [D -> Nat], NEW x \in D
    PROVE  f[x] <= Total(f)
PROOF
  <1>1. IsFiniteSet(Pairs(f)) /\ Total(f) \in Nat
    BY TotalType
  <1>2. Column(f, x) \in SUBSET Pairs(f)
    BY DEF Pairs
  <1>3. Cardinality(Column(f, x)) = f[x]
    BY ColumnFacts
  <1>4. QED
    BY <1>1, <1>2, <1>3, FS_Subset DEF Total

\* The sizes of the parts of a set add up to its size.
LEMMA TotalOfParts ==
    ASSUME NEW P, IsFiniteSet(P), NEW g,
           NEW D, \A i \in P : g[i] \in D,
           NEW f \in [D -> Nat], \A t \in D : f[t] = Cardinality({i \in P : g[i] = t})
    PROVE  Total(f) = Cardinality(P)
PROOF
  <1> DEFINE Part(t) == {i \in P : g[i] = t}
  <1> DEFINE h == [t \in D |-> CHOOSE b : b \in Bijection(1..f[t], Part(t))]
  <1>1. ASSUME NEW t \in D
        PROVE  h[t] \in Bijection(1..f[t], Part(t))
    <2>1. Part(t) \in SUBSET P /\ f[t] = Cardinality(Part(t))
      OBVIOUS
    <2>2. ExistsBijection(1..f[t], Part(t))
      BY <2>1, FS_Subset, FS_CardinalityType
    <2>3. \E b : b \in Bijection(1..f[t], Part(t))
      BY <2>2 DEF ExistsBijection
    <2>4. QED
      BY <2>3
  <1> HIDE DEF h
  <1>2. ASSUME NEW t \in D
        PROVE  /\ \A j \in 1..f[t] : h[t][j] \in P /\ g[h[t][j]] = t
               /\ \A j, m \in 1..f[t] : h[t][j] = h[t][m] => j = m
               /\ \A i \in P : g[i] = t => \E j \in 1..f[t] : h[t][j] = i
    BY <1>1 DEF Bijection, Injection, Surjection, IsInjective
  <1>3. \A p : p \in Pairs(f) <=> p = <<p[1], p[2]>> /\ p[1] \in D /\ p[2] \in 1..f[p[1]]
    BY PairsMembers
  <1> DEFINE F == [p \in Pairs(f) |-> h[p[1]][p[2]]]
  <1>4. ASSUME NEW p \in Pairs(f) PROVE F[p] \in P /\ g[F[p]] = p[1]
    BY <1>2, <1>3
  <1>5. ASSUME NEW p \in Pairs(f), NEW q \in Pairs(f), F[p] = F[q] PROVE p = q
    <2>1. p[1] = q[1]
      BY <1>4, <1>5
    <2>2. /\ p[1] \in D /\ p[2] \in 1..f[p[1]] /\ q[2] \in 1..f[p[1]]
          /\ h[p[1]][p[2]] = h[p[1]][q[2]]
      BY <1>3, <1>5, <2>1
    <2>3. p[2] = q[2]
      BY <1>2, <2>2
    <2>4. p = <<p[1], p[2]>> /\ q = <<q[1], q[2]>>
      BY <1>3
    <2>5. QED
      BY <2>1, <2>3, <2>4
  <1>6. ASSUME NEW i \in P PROVE \E p \in Pairs(f) : F[p] = i
    <2> DEFINE t == g[i]
    <2>1. PICK j \in 1..f[t] : h[t][j] = i
      BY <1>2
    <2> DEFINE p == <<t, j>>
    <2>2. p = <<p[1], p[2]>> /\ p[1] = t /\ p[2] = j /\ t \in D
      OBVIOUS
    <2> HIDE DEF p
    <2>3. p \in Pairs(f)
      BY <1>3, <2>1, <2>2
    <2>4. F[p] = i
      BY <2>1, <2>2, <2>3
    <2>5. QED
      BY <2>3, <2>4
  <1>7. F \in [Pairs(f) -> P]
    BY <1>4
  <1> HIDE DEF F
  <1>8. F \in Bijection(Pairs(f), P)
    BY <1>5, <1>6, <1>7 DEF Bijection, Injection, Surjection, IsInjective
  <1>9. D # {} \/ P = {}
    OBVIOUS
  <1>10. IsFiniteSet(Pairs(f))
    BY <1>8, FS_Injection DEF Bijection
  <1>11. QED
    BY <1>8, <1>10, FS_Bijection DEF ExistsBijection, Total

(***************************************************************************)
(* Adding up along any listing of the domain gives the total.              *)
(***************************************************************************)
AddsUp(f, order, N, u) ==
    u = [n \in 0..N |-> IF n = 0 THEN 0 ELSE u[n - 1] + f[order[n]]]

Steps(f, order, N, u) == u[0] = 0 /\ \A n \in 1..N : u[n] = u[n - 1] + f[order[n]]

LEMMA AddsUpSteps ==
    ASSUME NEW f, NEW order, NEW N \in Nat, NEW u, AddsUp(f, order, N, u)
    PROVE  Steps(f, order, N, u)
PROOF
  <1>1. u = [n \in 0..N |-> IF n = 0 THEN 0 ELSE u[n - 1] + f[order[n]]]
    BY DEF AddsUp
  <1>2. \A n \in 0..N : u[n] = IF n = 0 THEN 0 ELSE u[n - 1] + f[order[n]]
    BY <1>1
  <1>3. QED
    BY <1>2 DEF Steps

LEMMA AddsUpOnce ==
    ASSUME NEW f, NEW order, NEW N \in Nat,
           NEW u, AddsUp(f, order, N, u), NEW w, AddsUp(f, order, N, w)
    PROVE  u[N] = w[N]
PROOF
  <1> DEFINE S == {n \in 0..N : u[n] # w[n]}
  <1>0. Steps(f, order, N, u) /\ Steps(f, order, N, w)
    BY AddsUpSteps
  <1>1. /\ u[0] = 0 /\ \A n \in 1..N : u[n] = u[n - 1] + f[order[n]]
        /\ w[0] = 0 /\ \A n \in 1..N : w[n] = w[n - 1] + f[order[n]]
    BY <1>0 DEF Steps
  <1>2. S \in SUBSET Nat /\ 0 \notin S
    BY <1>1
  <1>3. ASSUME NEW n \in Nat, n + 1 \in S PROVE n \in S
    <2>1. n + 1 \in 1..N /\ n \in 0..N /\ (n + 1) - 1 = n /\ u[n + 1] # w[n + 1]
      BY <1>3
    <2>2. u[n + 1] = u[n] + f[order[n + 1]] /\ w[n + 1] = w[n] + f[order[n + 1]]
      BY <1>1, <2>1
    <2>3. QED
      BY <2>1, <2>2
  <1> HIDE DEF S
  <1>4. S = {}
    BY <1>2, <1>3, NoException
  <1>5. QED
    BY <1>4 DEF S

LEMMA AddsUpToTotal ==
    ASSUME NEW D, IsFiniteSet(D), NEW f \in [D -> Nat], NEW N, N = Cardinality(D),
           NEW order \in Injection(1..N, D)
    PROVE  \E u : AddsUp(f, order, N, u) /\ u[N] = Total(f)
PROOF
  <1> DEFINE Front(n) == {order[m] : m \in 1..n}
  <1> DEFINE Part(n) == [x \in Front(n) |-> f[x]]
  <1> DEFINE w == [n \in 0..N |-> Total(Part(n))]
  <1>1. N \in Nat /\ order \in [1..N -> D] /\ \A m, n \in 1..N : order[m] = order[n] => m = n
    BY FS_CardinalityType DEF Injection, IsInjective
  <1>2. ASSUME NEW n \in 0..N
        PROVE  Front(n) \in SUBSET D /\ IsFiniteSet(Front(n)) /\ Part(n) \in [Front(n) -> Nat]
    <2>1. Front(n) \in SUBSET D
      BY <1>1
    <2> HIDE DEF Front
    <2>2. QED
      BY <2>1, FS_Subset
  <1>3. ASSUME NEW n \in 1..N PROVE Total(Part(n)) = Total(Part(n - 1)) + f[order[n]]
    <2> DEFINE x == order[n]
    <2> DEFINE E == Front(n - 1)
    <2> DEFINE p == Part(n - 1)
    <2> DEFINE q == Part(n)
    <2>1. n - 1 \in 0..N /\ n \in 0..N
      BY <1>1
    <2>2. x \notin E
      BY <1>1
    <2>3. Front(n) = E \cup {x}
      <3>1. 1..n = (1..(n - 1)) \cup {n}
        BY <1>1
      <3>2. QED
        BY <3>1
    <2>4. IsFiniteSet(E) /\ p \in [E -> Nat] /\ q \in [Front(n) -> Nat]
      BY <1>2, <2>1
    <2>5. (\A d \in E : q[d] = p[d]) /\ q[x] = f[x]
      BY <2>3
    <2>6. q \in [E \cup {x} -> Nat]
      BY <2>3, <2>4
    <2>7. IsFiniteSet(E) /\ p \in [E -> Nat] /\ x \notin E /\ \A d \in E : q[d] = p[d]
      BY <2>2, <2>4, <2>5
    <2> HIDE DEF x, E, p, q, Front, Part
    <2>8. Adds(q, p, E, x)
      BY <2>6, <2>7 DEF Adds
    <2>9. Total(q) = Total(p) + q[x]
      BY <2>7, <2>8, TotalWith
    <2>10. QED
      BY <2>5, <2>9 DEF p, q, x
  <1>4. Total(Part(0)) = 0
    <2>1. DOMAIN Part(0) = {}
      OBVIOUS
    <2> HIDE DEF Part
    <2>2. QED
      BY <2>1, TotalEmpty
  <1>5. Part(N) = f
    <2>1. IsFiniteSet(1..N) /\ Cardinality(1..N) = N
      BY <1>1, FS_Interval
    <2>2. order \in Surjection(1..N, D)
      BY <2>1, FS_Injection
    <2>3. Front(N) = D
      BY <1>1, <2>2 DEF Surjection
    <2>4. f = [x \in D |-> f[x]]
      OBVIOUS
    <2> HIDE DEF Front
    <2>5. QED
      BY <2>3, <2>4
  <1> HIDE DEF Part
  <1>6. AddsUp(f, order, N, w)
    <2>1. w[0] = 0
      BY <1>1, <1>4
    <2>2. ASSUME NEW n \in 1..N PROVE w[n] = w[n - 1] + f[order[n]]
      <3>1. n \in 0..N /\ n - 1 \in 0..N
        BY <1>1
      <3>2. QED
        BY <1>3, <3>1
    <2>3. ASSUME NEW n \in 0..N
          PROVE  Total(Part(n)) = IF n = 0 THEN 0 ELSE w[n - 1] + f[order[n]]
      <3>1. CASE n = 0
        BY <1>4, <3>1
      <3>2. CASE n # 0
        <4>1. n \in 1..N
          BY <1>1, <3>2
        <4>2. QED
          BY <2>2, <3>2, <4>1
      <3>3. QED
        BY <3>1, <3>2
    <2>4. [n \in 0..N |-> Total(Part(n))]
              = [n \in 0..N |-> IF n = 0 THEN 0 ELSE w[n - 1] + f[order[n]]]
      BY <2>3
    <2>5. QED
      BY <2>4 DEF AddsUp
  <1>7. w[N] = Total(f)
    <2>1. N \in 0..N
      BY <1>1
    <2>2. w[N] = Total(Part(N))
      BY <2>1
    <2>3. QED
      BY <1>5, <2>2
  <1>8. QED
    BY <1>6, <1>7

(***************************************************************************)
(* Powers of two, as the numbers of subsets.                               *)
(***************************************************************************)
LEMMA PowerType ==
    ASSUME NEW n \in Nat
    PROVE  2^n \in Nat /\ 2^n >= 1
PROOF
  <1> DEFINE S == 1..n
  <1>1. IsFiniteSet(S) /\ Cardinality(S) = n
    BY FS_Interval
  <1> HIDE DEF S
  <1>2. IsFiniteSet(SUBSET S) /\ Cardinality(SUBSET S) = 2^n
    BY <1>1, FS_SUBSET
  <1>3. {} \in SUBSET S
    OBVIOUS
  <1>4. Cardinality(SUBSET S) \in Nat /\ Cardinality(SUBSET S) # 0
    BY <1>2, <1>3, FS_CardinalityType, FS_EmptySet
  <1>5. QED
    BY <1>2, <1>4

LEMMA PowerDoubles ==
    ASSUME NEW n \in Nat
    PROVE  2^(n + 1) = 2 * 2^n
PROOF
  <1> DEFINE S == 1..n
  <1> DEFINE x == n + 1
  <1> DEFINE A == SUBSET S
  <1> DEFINE B == {s \cup {x} : s \in A}
  <1> DEFINE f == [s \in A |-> s \cup {x}]
  <1>1. /\ IsFiniteSet(S) /\ Cardinality(S) = n
        /\ IsFiniteSet(S \cup {x}) /\ Cardinality(S \cup {x}) = n + 1
        /\ x \notin S
    <2>1. IsFiniteSet(S) /\ Cardinality(S) = n /\ x \notin S
      BY FS_Interval
    <2> HIDE DEF S
    <2>2. QED
      BY <2>1, FS_AddElement
  <1> HIDE DEF S, x
  <1>2. /\ IsFiniteSet(A) /\ Cardinality(A) = 2^n
        /\ IsFiniteSet(SUBSET (S \cup {x})) /\ Cardinality(SUBSET (S \cup {x})) = 2^(n + 1)
    BY <1>1, FS_SUBSET
  <1>3. f \in Bijection(A, B)
    <2>1. f \in [A -> B] /\ \A b \in B : \E s \in A : f[s] = b
      OBVIOUS
    <2>2. \A s, t \in A : f[s] = f[t] => s = t
      BY <1>1
    <2>3. QED
      BY <2>1, <2>2 DEF Bijection, Injection, Surjection, IsInjective
  <1>4. IsFiniteSet(B) /\ Cardinality(B) = Cardinality(A)
    <2>1. ExistsBijection(A, B)
      BY <1>3 DEF ExistsBijection
    <2>2. f \in Surjection(A, B)
      BY <1>3 DEF Bijection
    <2> HIDE DEF A, B, f
    <2>3. IsFiniteSet(B)
      BY <1>2, <2>2, FS_Surjection
    <2>4. QED
      BY <1>2, <2>1, <2>3, FS_Bijection
  <1>5. SUBSET (S \cup {x}) = A \cup B
    <2>1. ASSUME NEW s \in SUBSET (S \cup {x}) PROVE s \in A \cup B
      <3>1. CASE x \in s
        <4>1. s \ {x} \in A /\ s = (s \ {x}) \cup {x}
          BY <3>1
        <4>2. QED
          BY <4>1
      <3>2. CASE x \notin s
        BY <3>2
      <3>3. QED
        BY <3>1, <3>2
    <2>2. A \subseteq SUBSET (S \cup {x}) /\ B \subseteq SUBSET (S \cup {x})
      OBVIOUS
    <2>3. QED
      BY <2>1, <2>2
  <1>6. A \cap B = {}
    BY <1>1
  <1> HIDE DEF A, B
  <1>7. Cardinality(A \cup B) = Cardinality(A) + Cardinality(B) - Cardinality({})
    BY <1>2, <1>4, <1>6, FS_Union
  <1>8. 2^n \in Nat /\ Cardinality({}) = 0
    BY PowerType, FS_EmptySet
  <1> DEFINE u == 2^n
  <1> DEFINE w == 2^(n + 1)
  <1>9. Cardinality(A) = u /\ Cardinality(B) = u /\ u \in Nat
    BY <1>2, <1>4, <1>8
  <1>10. w = Cardinality(A \cup B)
    BY <1>2, <1>5
  <1> HIDE DEF u, w
  <1>11. w = 2 * u
    BY <1>7, <1>8, <1>9, <1>10
  <1>12. QED
    BY <1>11 DEF u, w

LEMMA PowerOfSum ==
    ASSUME NEW a \in Nat, NEW b \in Nat
    PROVE  2^(a + b) = 2^a * 2^b
PROOF
  <1> DEFINE S == {n \in Nat : 2^(a + n) # 2^a * 2^n}
  <1>0. 2^a \in Nat
    BY PowerType
  <1>1. 0 \notin S
    <2>1. 2^0 = 1 /\ a + 0 = a
      OBVIOUS
    <2>2. QED
      BY <1>0, <2>1
  <1>2. ASSUME NEW n \in Nat, n + 1 \in S PROVE n \in S
    <2>1. SUFFICES ASSUME 2^(a + n) = 2^a * 2^n PROVE FALSE
      OBVIOUS
    <2> DEFINE u == 2^a
    <2> DEFINE w == 2^n
    <2>2. u \in Nat /\ w \in Nat
      BY PowerType
    <2>3. a + n \in Nat /\ a + (n + 1) = (a + n) + 1
      OBVIOUS
    <2>4. 2^((a + n) + 1) = 2 * 2^(a + n)
      BY <2>3, PowerDoubles
    <2>5. 2^(n + 1) = 2 * w
      BY PowerDoubles
    <2>6. 2^(a + (n + 1)) # u * 2^(n + 1)
      BY <1>2
    <2>7. 2 * (u * w) = u * (2 * w)
      BY <2>2
    <2>8. QED
      BY <2>1, <2>3, <2>4, <2>5, <2>6, <2>7
  <1> HIDE DEF S
  <1>3. S = {}
    <2>1. S \in SUBSET Nat
      BY DEF S
    <2>2. QED
      BY <1>1, <1>2, <2>1, NoException
  <1>4. QED
    BY <1>3 DEF S

LEMMA PowerOrder ==
    ASSUME NEW a \in Nat, NEW b \in Nat, a < b
    PROVE  2^b >= 2 * 2^a
PROOF
  <1> DEFINE c == b - a - 1
  <1>1. c \in Nat /\ b = (a + c) + 1 /\ a + c \in Nat
    OBVIOUS
  <1> HIDE DEF c
  <1>2. 2^b = 2 * 2^(a + c)
    BY <1>1, PowerDoubles
  <1>3. 2^(a + c) = 2^a * 2^c
    BY <1>1, PowerOfSum
  <1> DEFINE u == 2^a
  <1> DEFINE w == 2^c
  <1>4. u \in Nat /\ w \in Nat /\ w >= 1
    BY <1>1, PowerType
  <1> HIDE DEF u, w
  <1>5. u * w >= u /\ u * w \in Nat
    BY <1>4
  <1>6. QED
    BY <1>2, <1>3, <1>4, <1>5 DEF u, w

(***************************************************************************)
(* Products and quotients.                                                 *)
(***************************************************************************)
LEMMA TimesOrder ==
    ASSUME NEW a \in Nat, NEW b \in Nat, NEW s \in Nat, NEW t \in Nat, a <= b, s <= t
    PROVE  a * s \in Nat /\ b * t \in Nat /\ a * s <= b * t
PROOF
  <1>1. a * s \in Nat /\ a * t \in Nat /\ b * t \in Nat
    OBVIOUS
  <1>2. a * s <= a * t
    <2> DEFINE c == t - s
    <2>1. c \in Nat /\ t = s + c
      OBVIOUS
    <2> HIDE DEF c
    <2>2. a * (s + c) = a * s + a * c /\ a * c \in Nat
      BY <2>1
    <2>3. QED
      BY <1>1, <2>1, <2>2
  <1>3. a * t <= b * t
    <2> DEFINE c == b - a
    <2>1. c \in Nat /\ b = a + c
      OBVIOUS
    <2> HIDE DEF c
    <2>2. (a + c) * t = a * t + c * t /\ c * t \in Nat
      BY <2>1
    <2>3. QED
      BY <1>1, <2>1, <2>2
  <1>4. QED
    BY <1>1, <1>2, <1>3

LEMMA DivMod ==
    ASSUME NEW n \in Nat, NEW d \in Nat, d > 0
    PROVE  /\ n \div d \in Nat /\ n % d \in Nat /\ n % d < d
           /\ n = d * (n \div d) + (n % d)
PROOF
  <1>1. n \div d \in Int /\ n % d \in 0..(d - 1)
    OBVIOUS
  <1>2. n = d * (n \div d) + (n % d)
    OBVIOUS
  <1>3. n \div d >= 0
    OBVIOUS
  <1>4. QED
    BY <1>1, <1>2, <1>3

\* More over less has no lesser quotient.
LEMMA QuotientOrder ==
    ASSUME NEW n \in Nat, NEW m \in Nat, NEW d \in Nat, NEW c \in Nat,
           n <= m, c <= d, c > 0
    PROVE  n \div d <= m \div c
PROOF
  <1> DEFINE q == n \div d
  <1> DEFINE u == m \div c
  <1>1. q \in Nat /\ u \in Nat /\ n >= d * q /\ m < c * u + c
    BY DivMod
  <1> HIDE DEF q, u
  <1> SUFFICES ASSUME q > u PROVE FALSE
    BY <1>1 DEF q, u
  <1>2. c * (u + 1) <= d * q
    BY <1>1, TimesOrder
  <1>3. c * (u + 1) = c * u + c
    BY <1>1
  <1>4. c * u \in Nat /\ d * q \in Nat
    BY <1>1
  <1>5. QED
    BY <1>1, <1>2, <1>3, <1>4
=============================================================================
