--------------------------- MODULE HnswGraphProofs ---------------------------
(***************************************************************************)
(* Proofs about HnswGraph, for every set of members and vectors, every     *)
(* degree, beam, number of levels and each of the distances.               *)
(*                                                                         *)
(* Invariance is the inductive invariant: links stored at both ends within *)
(* their limits, a backbone that is one ring, the canonical entry point,   *)
(* and what the call under way holds.  The four theorems after it are what *)
(* follows: LinksAlwaysReciprocal, EveryTurnCounts, EveryAnswerIsExact and *)
(* GraphsReopen.                                                           *)
(*                                                                         *)
(* That the ring is connected is said of sets instead of paths: a set of   *)
(* members that holds the backbone links of its members is empty or holds  *)
(* everyone.  A search that ends has visited such a set, and the rounds of *)
(* the decoder's walk end in one.                                          *)
(***************************************************************************)
EXTENDS HnswGraph, Counting

(***************************************************************************)
(* Distances, and the closest of a set.                                    *)
(***************************************************************************)
LEMMA FloatType ==
    ASSUME NEW x \in Int
    PROVE  /\ Size(x) \in Nat /\ Number(x) \in Int
           /\ \A negative \in BOOLEAN, size \in Nat : Float(negative, size) \in Int
PROOF
  BY DEF Size, Number, Float

LEMMA DistanceType ==
    ASSUME NEW v \in Int, NEW w \in Int, distance \in VectorDistance
    PROVE  Distance(v, w) \in Int
PROOF
  <1>1. CASE distance = "L2"
    <2> DEFINE n == Number(v)
               m == Number(w)
    <2>1. n \in Int /\ m \in Int
      BY FloatType
    <2> HIDE DEF n, m
    <2>2. (n - m) * (n - m) \in Int
      BY <2>1
    <2>3. QED
      BY <1>1, <2>2 DEF Distance, n, m
  <1>2. CASE distance = "InnerProduct"
    <2> DEFINE n == Size(v)
               m == Size(w)
    <2>1. n \in Nat /\ m \in Nat
      BY FloatType
    <2> HIDE DEF n, m
    <2>2. n * m \in Nat
      BY <2>1
    <2>3. (Negative(v) = Negative(w)) \in BOOLEAN
      OBVIOUS
    <2>4. Float(Negative(v) = Negative(w), n * m) \in Int
      BY <2>2, <2>3, FloatType
    <2>5. QED
      BY <1>2, <2>4 DEF Distance, n, m
  <1>3. CASE distance = "Cosine"
    BY <1>3 DEF Distance
  <1>4. QED
    BY <1>1, <1>2, <1>3 DEF VectorDistance

CloserPairs(ns, v, S) == {p \in S \X S : Closer(ns, v, p[1], p[2])}

LEMMA CloserIsOrder ==
    ASSUME NEW ns, NEW v \in Int, NEW S \in SUBSET Ids, distance \in VectorDistance,
           \A i \in S : ns[i].vector \in Int
    PROVE  StrictOrder(CloserPairs(ns, v, S), S)
PROOF
  <1> DEFINE d(i) == Distance(v, ns[i].vector)
  <1>1. \A i \in S : d(i) \in Int /\ i \in Int
    BY DistanceType, HnswAssumption
  <1>2. \A i, j \in S : <<i, j>> \in CloserPairs(ns, v, S) <=>
            d(i) < d(j) \/ (d(i) = d(j) /\ i < j)
    BY DEF CloserPairs, Closer
  <1> HIDE DEF d
  <1>3. QED
    BY <1>1, <1>2 DEF StrictOrder

LEMMA ClosestByRank ==
    ASSUME NEW ns, NEW v, NEW S, NEW n
    PROVE  Closest(ns, v, S, n) = {i \in S : Rank(CloserPairs(ns, v, S), S, i) < n}
PROOF
  <1>1. ASSUME NEW i \in S
        PROVE  Ahead(CloserPairs(ns, v, S), S, i) = {j \in S : Closer(ns, v, j, i)}
    BY DEF Ahead, CloserPairs
  <1>2. QED
    BY <1>1 DEF Closest, Rank

\* The first n of a set are at most n, all of it when it has no more, and some when it
\* has any (compare_ids_by_distance leaves no ties).
LEMMA ClosestFacts ==
    ASSUME NEW ns, NEW v \in Int, NEW S \in SUBSET Ids, distance \in VectorDistance,
           \A i \in S : ns[i].vector \in Int, NEW n \in Nat
    PROVE  /\ IsFiniteSet(S)
           /\ Closest(ns, v, S, n) \subseteq S
           /\ Cardinality(Closest(ns, v, S, n)) <= n
           /\ Cardinality(S) <= n => Closest(ns, v, S, n) = S
           /\ S # {} /\ n > 0 => Closest(ns, v, S, n) # {}
PROOF
  <1> DEFINE R == CloserPairs(ns, v, S)
  <1> DEFINE C == Closest(ns, v, S, n)
  <1>1. IsFiniteSet(S) /\ StrictOrder(R, S) /\ Cardinality(S) \in Nat
    BY CloserIsOrder, HnswAssumption, FS_Subset, FS_CardinalityType
  <1>2. C = {i \in S : Rank(R, S, i) < n}
    BY ClosestByRank
  <1> HIDE DEF R, C
  <1>3. /\ \A i \in S : Rank(R, S, i) \in 0..(Cardinality(S) - 1)
        /\ \A i, j \in S : Rank(R, S, i) = Rank(R, S, j) => i = j
    BY <1>1, RankOrder
  <1>4. Cardinality(C) <= n
    <2> DEFINE f == [i \in C |-> Rank(R, S, i)]
    <2>1. f \in [C -> 0..(n - 1)] /\ \A i, j \in C : f[i] = f[j] => i = j
      BY <1>1, <1>2, <1>3
    <2>2. f \in Injection(C, 0..(n - 1))
      BY <2>1 DEF Injection, IsInjective
    <2>3. IsFiniteSet(0..(n - 1)) /\ Cardinality(0..(n - 1)) = n
      BY FS_Interval
    <2>4. QED
      BY <2>2, <2>3, FS_Injection
  <1>5. Cardinality(S) <= n => C = S
    BY <1>1, <1>2, <1>3
  <1>6. ASSUME S # {}, n > 0 PROVE C # {}
    <2>1. 0 \in 0..(Cardinality(S) - 1)
      BY <1>1, <1>6, FS_EmptySet
    <2>2. PICK i \in S : Rank(R, S, i) = 0
      BY <1>1, <2>1, RankTaken
    <2>3. QED
      BY <1>2, <1>6, <2>2
  <1>7. QED
    BY <1>1, <1>2, <1>4, <1>5, <1>6 DEF C

(***************************************************************************)
(* The backbone as a function from each member to its neighbours on it: a  *)
(* ring.  It is one cycle through every member when it is symmetric, every *)
(* member has its two neighbours (or as many as there are other members),  *)
(* and only the whole of it is closed: nothing is said of paths.           *)
(***************************************************************************)
Symmetric(B) ==
    \A i \in DOMAIN B : \A j \in B[i] : j # i /\ j \in DOMAIN B /\ i \in B[j]

RingDegree(B, i) ==
    \/ DOMAIN B = {i} /\ B[i] = {}
    \/ \E a \in DOMAIN B : a # i /\ DOMAIN B = {i, a} /\ B[i] = {a}
    \/ \E a, b \in DOMAIN B : a # i /\ b # i /\ a # b /\ B[i] = {a, b}

Connected(B) ==
    \A S \in SUBSET DOMAIN B :
        S # {} /\ (\A i \in S : B[i] \subseteq S) => S = DOMAIN B

Ring(B) == Symmetric(B) /\ (\A i \in DOMAIN B : RingDegree(B, i)) /\ Connected(B)

LEMMA PairCardinality ==
    ASSUME NEW S, NEW a, NEW b, a # b, S = {a, b}
    PROVE  Cardinality(S) = 2
PROOF
  <1>1. IsFiniteSet({a}) /\ Cardinality({a}) = 1
    BY FS_Singleton
  <1>2. Cardinality({a} \cup {b}) = 2
    BY <1>1, FS_AddElement
  <1>3. S = {a} \cup {b}
    OBVIOUS
  <1>4. QED
    BY <1>2, <1>3

\* Leaving out a member closes the ring over it (remove_node): the two it was between
\* become neighbours, unless they are all that is left and already are.
LEMMA RingWithout ==
    ASSUME NEW B, Ring(B), NEW id \in DOMAIN B, NEW C,
           DOMAIN C = DOMAIN B \ {id},
           \A i \in DOMAIN C :
                C[i] = (B[i] \ {id}) \cup
                       (IF i \in B[id] /\ Cardinality(B[id]) = 2 THEN B[id] \ {i} ELSE {})
    PROVE  Ring(C)
PROOF
  <1> DEFINE D == DOMAIN B
  <1>a. /\ \A i \in D : \A j \in B[i] : j # i /\ j \in D /\ i \in B[j]
        /\ \A S \in SUBSET D : S # {} /\ (\A i \in S : B[i] \subseteq S) => S = D
        /\ \A i \in D :
            \/ D = {i} /\ B[i] = {}
            \/ \E a \in D : a # i /\ D = {i, a} /\ B[i] = {a}
            \/ \E a, b \in D : a # i /\ b # i /\ a # b /\ B[i] = {a, b}
    BY DEF Ring, Symmetric, RingDegree, Connected
  <1>1. CASE D = {id} /\ B[id] = {}
    <2>1. DOMAIN C = {}
      BY <1>1
    <2>2. QED
      BY <2>1 DEF Ring, Symmetric, RingDegree, Connected
  <1>2. ASSUME NEW a \in D, a # id, D = {id, a}, B[id] = {a}
        PROVE  Ring(C)
    <2>1. DOMAIN C = {a} /\ B[a] \ {id} = {}
      BY <1>a, <1>2
    <2>2. Cardinality(B[id]) = 1
      BY <1>2, FS_Singleton
    <2>3. C[a] = {}
      BY <2>1, <2>2
    <2>4. QED
      BY <2>1, <2>3 DEF Ring, Symmetric, RingDegree, Connected
  <1>3. ASSUME NEW a \in D, NEW b \in D, a # id, b # id, a # b, B[id] = {a, b}
        PROVE  Ring(C)
    <2>1. Cardinality(B[id]) = 2
      BY <1>3, PairCardinality
    <2>0. /\ \A x, y : D # {x, y}
          /\ \A x : D # {x}
      BY <1>3
    <2>9. ASSUME NEW i \in D
          PROVE  \E x, y \in D : x # i /\ y # i /\ x # y /\ B[i] = {x, y}
      <3>1. D # {i} /\ \A x : D # {i, x}
        BY <2>0
      <3>2. \/ D = {i} /\ B[i] = {}
            \/ \E x \in D : x # i /\ D = {i, x} /\ B[i] = {x}
            \/ \E x, y \in D : x # i /\ y # i /\ x # y /\ B[i] = {x, y}
        BY <1>a
      <3>3. QED
        BY <3>1, <3>2
    <2>2. /\ C[a] = (B[a] \ {id}) \cup {b}
          /\ C[b] = (B[b] \ {id}) \cup {a}
          /\ \A i \in DOMAIN C \ {a, b} : C[i] = B[i] /\ id \notin B[i]
      <3>1. /\ B[id] \ {a} = {b}
            /\ B[id] \ {b} = {a}
            /\ a \in DOMAIN C /\ b \in DOMAIN C
        BY <1>3
      <3>2. C[a] = (B[a] \ {id}) \cup {b} /\ C[b] = (B[b] \ {id}) \cup {a}
        BY <1>3, <2>1, <3>1
      <3>3. ASSUME NEW i \in DOMAIN C \ {a, b} PROVE C[i] = B[i] /\ id \notin B[i]
        <4>1. i \notin B[id] /\ i \in D
          BY <1>3
        <4>2. id \notin B[i]
          BY <1>a, <4>1
        <4>3. C[i] = (B[i] \ {id}) \cup {}
          BY <4>1
        <4>4. QED
          BY <4>2, <4>3
      <3>4. QED
        BY <3>2, <3>3
    <2>3. Symmetric(C)
      BY <1>a, <1>3, <2>2 DEF Symmetric
    <2>4. Connected(C)
      <3>1. SUFFICES ASSUME NEW S \in SUBSET DOMAIN C, S # {}, \A i \in S : C[i] \subseteq S
                     PROVE  S = DOMAIN C
        BY DEF Connected
      <3>2. CASE a \in S \/ b \in S
        <4>1. a \in S /\ b \in S
          BY <2>2, <3>1, <3>2
        <4>2. \A i \in S \cup {id} : B[i] \subseteq S \cup {id}
          BY <1>3, <2>2, <3>1, <4>1
        <4>3. S \cup {id} = D
          <5>1. S \cup {id} \in SUBSET D /\ S \cup {id} # {}
            BY <3>1
          <5>2. QED
            BY <1>a, <4>2, <5>1
        <4>4. QED
          BY <4>3, <3>1
      <3>3. CASE a \notin S /\ b \notin S
        <4>1. S \in SUBSET D /\ \A i \in S : B[i] \subseteq S
          BY <2>2, <3>1, <3>3
        <4>2. S = D
          BY <1>a, <3>1, <4>1
        <4>3. QED
          BY <4>2
      <3>4. QED
        BY <3>2, <3>3
    <2>5. PICK c \in D : c # a /\ c # id /\ B[a] = {id, c}
      <3>1. PICK x \in D, y \in D : x # a /\ y # a /\ x # y /\ B[a] = {x, y}
        BY <2>9
      <3>2. id \in B[a]
        BY <1>a, <1>3
      <3>3. QED
        BY <3>1, <3>2
    <2>6. PICK d \in D : d # b /\ d # id /\ B[b] = {id, d}
      <3>1. PICK x \in D, y \in D : x # b /\ y # b /\ x # y /\ B[b] = {x, y}
        BY <2>9
      <3>2. id \in B[b]
        BY <1>a, <1>3
      <3>3. QED
        BY <3>1, <3>2
    <2>7. \A i \in DOMAIN C : RingDegree(C, i)
      <3>1. CASE c = b
        <4>1. d = a
          BY <1>a, <1>3, <2>5, <2>6, <3>1
        <4>2. \A i \in {id, a, b} : B[i] \subseteq {id, a, b}
          BY <1>3, <2>5, <2>6, <3>1, <4>1
        <4>3. {id, a, b} = D
          BY <1>a, <1>3, <4>2
        <4>4. DOMAIN C = {a, b} /\ C[a] = {b} /\ C[b] = {a}
          BY <1>3, <2>2, <2>5, <2>6, <3>1, <4>1, <4>3
        <4>5. QED
          BY <1>3, <4>4 DEF RingDegree
      <3>2. CASE c # b
        <4>1. d # a
          BY <1>a, <1>3, <2>5, <2>6, <3>2
        <4>2. C[a] = {c, b} /\ C[b] = {d, a}
          BY <2>2, <2>5, <2>6
        <4>3. RingDegree(C, a) /\ RingDegree(C, b)
          BY <1>3, <2>5, <2>6, <3>2, <4>1, <4>2 DEF RingDegree
        <4>4. ASSUME NEW i \in DOMAIN C \ {a, b} PROVE RingDegree(C, i)
          <5>1. PICK x \in D, y \in D : x # i /\ y # i /\ x # y /\ B[i] = {x, y}
            BY <2>9
          <5>2. C[i] = {x, y} /\ x # id /\ y # id
            BY <2>2, <5>1
          <5>3. QED
            BY <5>1, <5>2 DEF RingDegree
        <4>5. QED
          BY <4>3, <4>4
      <3>3. QED
        BY <3>1, <3>2
    <2>8. QED
      BY <2>3, <2>4, <2>7 DEF Ring
  <1>4. QED
    BY <1>a, <1>1, <1>2, <1>3

LEMMA RingOfOne ==
    ASSUME NEW C, NEW a, DOMAIN C = {a}, C[a] = {}
    PROVE  Ring(C)
PROOF
  BY DEF Ring, Symmetric, RingDegree, Connected

LEMMA RingOfTwo ==
    ASSUME NEW C, NEW a, NEW b, a # b, DOMAIN C = {a, b}, C[a] = {b}, C[b] = {a}
    PROVE  Ring(C)
PROOF
  <1>1. Symmetric(C) /\ \A i \in DOMAIN C : RingDegree(C, i)
    BY DEF Symmetric, RingDegree
  <1>2. Connected(C)
    BY DEF Connected
  <1>3. QED
    BY <1>1, <1>2 DEF Ring

LEMMA RingOfThree ==
    ASSUME NEW C, NEW a, NEW b, NEW c, a # b, b # c, a # c, DOMAIN C = {a, b, c},
           C[a] = {b, c}, C[b] = {a, c}, C[c] = {a, b}
    PROVE  Ring(C)
PROOF
  <1>1. Symmetric(C)
    BY DEF Symmetric
  <1>2. RingDegree(C, a) /\ RingDegree(C, b) /\ RingDegree(C, c)
    BY DEF RingDegree
  <1>3. Connected(C)
    BY DEF Connected
  <1>4. QED
    BY <1>1, <1>2, <1>3 DEF Ring

\* Splicing a member in between two neighbours of the ring (splice_backbone).
LEMMA RingBetween ==
    ASSUME NEW B, Ring(B), NEW id, id \notin DOMAIN B,
           NEW anchor \in DOMAIN B, NEW s \in B[anchor], NEW t \in B[anchor], s # t,
           NEW C, DOMAIN C = DOMAIN B \cup {id},
           C[id] = {anchor, s},
           C[anchor] = (B[anchor] \ {s}) \cup {id},
           C[s] = (B[s] \ {anchor}) \cup {id},
           \A i \in DOMAIN B \ {anchor, s} : C[i] = B[i]
    PROVE  Ring(C)
PROOF
  <1> DEFINE D == DOMAIN B
  <1>1. /\ \A i \in D : \A j \in B[i] : j # i /\ j \in D /\ i \in B[j]
        /\ \A S \in SUBSET D : S # {} /\ (\A i \in S : B[i] \subseteq S) => S = D
        /\ \A i \in D :
            \/ D = {i} /\ B[i] = {}
            \/ \E a \in D : a # i /\ D = {i, a} /\ B[i] = {a}
            \/ \E a, b \in D : a # i /\ b # i /\ a # b /\ B[i] = {a, b}
    BY DEF Ring, Symmetric, RingDegree, Connected
  <1>2. /\ s \in D /\ t \in D /\ s # anchor /\ t # anchor /\ anchor \in B[s] /\ anchor \in B[t]
        /\ id \notin D
    BY <1>1
  <1>3. (\A x : D # {x}) /\ (\A x, y : D # {x, y})
    BY <1>2
  <1>4. ASSUME NEW i \in D
        PROVE  \E x, y \in D : x # i /\ y # i /\ x # y /\ B[i] = {x, y}
    <2>1. D # {i} /\ \A x : D # {i, x}
      BY <1>3
    <2>2. \/ D = {i} /\ B[i] = {}
          \/ \E x \in D : x # i /\ D = {i, x} /\ B[i] = {x}
          \/ \E x, y \in D : x # i /\ y # i /\ x # y /\ B[i] = {x, y}
      BY <1>1
    <2>3. QED
      BY <2>1, <2>2
  <1>5. B[anchor] = {s, t}
    BY <1>4
  <1>6. PICK u \in D : u # s /\ u # anchor /\ B[s] = {anchor, u}
    <2>1. PICK x \in D, y \in D : x # s /\ y # s /\ x # y /\ B[s] = {x, y}
      BY <1>2, <1>4
    <2>2. QED
      BY <1>2, <2>1
  <1>7. C[anchor] = {t, id} /\ C[s] = {u, id}
    BY <1>5, <1>6
  <1>8. Symmetric(C)
    <2>1. SUFFICES ASSUME NEW i \in DOMAIN C, NEW j \in C[i]
                   PROVE  j # i /\ j \in DOMAIN C /\ i \in C[j]
      BY DEF Symmetric
    <2>2. CASE i = id
      BY <1>2, <1>7, <2>2
    <2>3. CASE i = anchor
      <3>1. j = t \/ j = id
        BY <1>7, <2>3
      <3>2. C[t] = B[t]
        BY <1>2
      <3>3. QED
        BY <1>2, <2>3, <3>1, <3>2
    <2>4. CASE i = s
      <3>1. j = u \/ j = id
        BY <1>7, <2>4
      <3>2. C[u] = B[u] /\ s \in B[u]
        BY <1>1, <1>2, <1>6
      <3>3. QED
        BY <1>2, <1>6, <2>4, <3>1, <3>2
    <2>5. CASE i \in D \ {anchor, s}
      <3>1. C[i] = B[i] /\ j \in D /\ j # i /\ i \in B[j]
        BY <1>1, <2>5
      <3>2. i \in C[j]
        BY <1>5, <1>6, <1>7, <2>5, <3>1
      <3>3. QED
        BY <3>1, <3>2
    <2>6. QED
      BY <2>2, <2>3, <2>4, <2>5
  <1>9. \A i \in DOMAIN C : RingDegree(C, i)
    <2>1. RingDegree(C, id) /\ RingDegree(C, anchor) /\ RingDegree(C, s)
      BY <1>2, <1>6, <1>7 DEF RingDegree
    <2>2. ASSUME NEW i \in D \ {anchor, s} PROVE RingDegree(C, i)
      <3>1. PICK x \in D, y \in D : x # i /\ y # i /\ x # y /\ B[i] = {x, y}
        BY <1>4
      <3>2. QED
        BY <3>1 DEF RingDegree
    <2>3. QED
      BY <2>1, <2>2
  <1>10. Connected(C)
    <2>1. SUFFICES ASSUME NEW S \in SUBSET DOMAIN C, S # {}, \A i \in S : C[i] \subseteq S
                   PROVE  S = DOMAIN C
      BY DEF Connected
    <2>2. CASE id \in S
      <3>1. anchor \in S /\ s \in S
        BY <2>1, <2>2
      <3>2. ASSUME NEW i \in S \ {id} PROVE B[i] \subseteq S \ {id}
        <4>1. CASE i = anchor
          BY <1>2, <1>5, <1>7, <2>1, <3>1, <4>1
        <4>2. CASE i = s
          BY <1>2, <1>6, <1>7, <2>1, <3>1, <4>2
        <4>3. CASE i \notin {anchor, s}
          <5>1. C[i] = B[i] /\ id \notin B[i]
            BY <1>1, <3>2, <4>3
          <5>2. QED
            BY <2>1, <5>1
        <4>4. QED
          BY <4>1, <4>2, <4>3
      <3>3. S \ {id} \in SUBSET D /\ S \ {id} # {}
        BY <1>2, <3>1
      <3>4. S \ {id} = D
        BY <1>1, <3>2, <3>3
      <3>5. QED
        BY <2>2, <3>4
    <2>3. CASE id \notin S
      <3>1. anchor \notin S /\ s \notin S
        BY <1>7, <2>1, <2>3
      <3>2. S \in SUBSET D /\ \A i \in S : B[i] \subseteq S
        BY <2>1, <2>3, <3>1
      <3>3. S = D
        BY <1>1, <2>1, <3>2
      <3>4. QED
        BY <3>1, <3>3
    <2>4. QED
      BY <2>2, <2>3
  <1>11. QED
    BY <1>8, <1>9, <1>10 DEF Ring

(***************************************************************************)
(* The graph: what is kept of it in every state, by parts.                 *)
(***************************************************************************)
NodesOK(ns) ==
    /\ ns = [i \in DOMAIN ns |-> ns[i]]
    /\ DOMAIN ns \subseteq Ids
    /\ \A i \in DOMAIN ns :
        /\ ns[i] \in Node
        /\ DOMAIN ns[i].neighbours = 0..ns[i].level

\* Links between live nodes tall enough, stored at both ends.
LinksOK(ns) ==
    \A i \in DOMAIN ns : \A l \in 0..ns[i].level : \A j \in ns[i].neighbours[l] :
        /\ j # i
        /\ j \in DOMAIN ns
        /\ l <= ns[j].level
        /\ i \in ns[j].neighbours[l]

DegreesOK(ns) ==
    \A i \in DOMAIN ns : \A l \in 0..ns[i].level :
        Cardinality(ns[i].neighbours[l]) <= degree_limit(l)

Backbone(ns) == [i \in DOMAIN ns |-> ns[i].backbone]

GraphOK(ns) == NodesOK(ns) /\ LinksOK(ns) /\ DegreesOK(ns) /\ Ring(Backbone(ns))

\* Nothing but links differs.
SameButLinks(ns, ms) ==
    /\ DOMAIN ms = DOMAIN ns
    /\ \A i \in DOMAIN ns :
        /\ ms[i].vector = ns[i].vector
        /\ ms[i].level = ns[i].level
        /\ ms[i].backbone = ns[i].backbone

LEMMA NodeFacts ==
    ASSUME NEW n \in Node, DOMAIN n.neighbours = 0..n.level
    PROVE  /\ n.vector \in Vectors /\ n.vector \in Int
           /\ n.level \in 0..TopLevel /\ n.level \in Nat
           /\ n.backbone \subseteq Ids
           /\ n.neighbours \in [0..n.level -> SUBSET Ids]
           /\ n = [vector |-> n.vector, level |-> n.level,
                   neighbours |-> n.neighbours, backbone |-> n.backbone]
PROOF
  <1>1. n.neighbours \in UNION {[0..l -> SUBSET Ids] : l \in 0..TopLevel}
    BY DEF Node
  <1>2. PICK l \in 0..TopLevel : n.neighbours \in [0..l -> SUBSET Ids]
    BY <1>1
  <1>3. n.neighbours \in [0..n.level -> SUBSET Ids]
    BY <1>2
  <1>4. QED
    BY <1>3, HnswAssumption DEF Node

LEMMA NodeMade ==
    ASSUME NEW v \in Vectors, NEW level \in 0..TopLevel,
           NEW links \in [0..level -> SUBSET Ids], NEW around \in SUBSET Ids
    PROVE  [vector |-> v, level |-> level, neighbours |-> links, backbone |-> around] \in Node
PROOF
  <1>1. links \in UNION {[0..l -> SUBSET Ids] : l \in 0..TopLevel}
    OBVIOUS
  <1>2. QED
    BY <1>1 DEF Node

\* A node with other links at one layer.
WithLinks(n, l, links) == [n EXCEPT !.neighbours[l] = links]

LEMMA NodeRelinked ==
    ASSUME NEW n \in Node, DOMAIN n.neighbours = 0..n.level,
           NEW l \in 0..n.level, NEW links \in SUBSET Ids
    PROVE  /\ WithLinks(n, l, links) \in Node
           /\ WithLinks(n, l, links).vector = n.vector
           /\ WithLinks(n, l, links).level = n.level
           /\ WithLinks(n, l, links).backbone = n.backbone
           /\ DOMAIN WithLinks(n, l, links).neighbours = 0..n.level
           /\ WithLinks(n, l, links).neighbours[l] = links
           /\ \A k \in 0..n.level \ {l} :
                WithLinks(n, l, links).neighbours[k] = n.neighbours[k]
PROOF
  <1> DEFINE ls == [n.neighbours EXCEPT ![l] = links]
  <1> DEFINE m == [vector |-> n.vector, level |-> n.level,
                   neighbours |-> ls, backbone |-> n.backbone]
  <1>1. /\ n.vector \in Vectors /\ n.level \in 0..TopLevel /\ n.backbone \in SUBSET Ids
        /\ n.neighbours \in [0..n.level -> SUBSET Ids]
        /\ n = [vector |-> n.vector, level |-> n.level,
                neighbours |-> n.neighbours, backbone |-> n.backbone]
    BY NodeFacts
  <1>2. /\ ls \in [0..n.level -> SUBSET Ids]
        /\ ls[l] = links
        /\ \A k \in 0..n.level \ {l} : ls[k] = n.neighbours[k]
    BY <1>1
  <1>3. WithLinks(n, l, links) = m
    <2>1. WithLinks(n, l, links) = [n EXCEPT !.neighbours = ls]
      BY DEF WithLinks
    <2> HIDE DEF ls
    <2>2. DOMAIN n = {"vector", "level", "neighbours", "backbone"}
      BY <1>1
    <2>3. QED
      BY <2>1, <2>2
  <1> HIDE DEF ls
  <1>4. m \in Node
    <2> DEFINE v == n.vector
    <2> DEFINE level == n.level
    <2> DEFINE around == n.backbone
    <2>1. /\ v \in Vectors /\ level \in 0..TopLevel /\ around \in SUBSET Ids
          /\ ls \in [0..level -> SUBSET Ids]
      BY <1>1, <1>2
    <2> HIDE DEF v, level, around
    <2>2. [vector |-> v, level |-> level, neighbours |-> ls, backbone |-> around] \in Node
      BY <2>1, NodeMade
    <2>3. QED
      BY <2>2 DEF v, level, around
  <1>5. QED
    BY <1>2, <1>3, <1>4

LEMMA JoinedFacts ==
    ASSUME NEW ns, NodesOK(ns), NEW a \in DOMAIN ns, NEW b \in DOMAIN ns, a # b,
           NEW l \in 0..ns[a].level, l \in 0..ns[b].level,
           NEW ms, ms = Joined(ns, a, b, l)
    PROVE  /\ NodesOK(ms)
           /\ SameButLinks(ns, ms)
           /\ ms[a].neighbours[l] = ns[a].neighbours[l] \cup {b}
           /\ ms[b].neighbours[l] = ns[b].neighbours[l] \cup {a}
           /\ \A i \in DOMAIN ns : \A k \in 0..ns[i].level :
                k # l \/ i \notin {a, b} => ms[i].neighbours[k] = ns[i].neighbours[k]
PROOF
  <1>1. /\ DOMAIN ns \subseteq Ids
        /\ \A i \in DOMAIN ns : ns[i] \in Node /\ DOMAIN ns[i].neighbours = 0..ns[i].level
    BY DEF NodesOK
  <1>2. /\ ms = [i \in DOMAIN ns |-> ms[i]]
        /\ DOMAIN ms = DOMAIN ns
        /\ ms[a] = WithLinks(ns[a], l, ns[a].neighbours[l] \cup {b})
        /\ ms[b] = WithLinks(ns[b], l, ns[b].neighbours[l] \cup {a})
        /\ \A i \in DOMAIN ns \ {a, b} : ms[i] = ns[i]
    BY DEF Joined, WithLinks
  <1>3. /\ ns[a].neighbours[l] \cup {b} \in SUBSET Ids
        /\ ns[b].neighbours[l] \cup {a} \in SUBSET Ids
    BY <1>1, NodeFacts
  <1>4. /\ ms[a] \in Node
        /\ ms[a].vector = ns[a].vector /\ ms[a].level = ns[a].level
        /\ ms[a].backbone = ns[a].backbone
        /\ DOMAIN ms[a].neighbours = 0..ms[a].level
        /\ ms[a].neighbours[l] = ns[a].neighbours[l] \cup {b}
        /\ \A k \in 0..ns[a].level \ {l} : ms[a].neighbours[k] = ns[a].neighbours[k]
    BY <1>1, <1>2, <1>3, NodeRelinked
  <1>5. /\ ms[b] \in Node
        /\ ms[b].vector = ns[b].vector /\ ms[b].level = ns[b].level
        /\ ms[b].backbone = ns[b].backbone
        /\ DOMAIN ms[b].neighbours = 0..ms[b].level
        /\ ms[b].neighbours[l] = ns[b].neighbours[l] \cup {a}
        /\ \A k \in 0..ns[b].level \ {l} : ms[b].neighbours[k] = ns[b].neighbours[k]
    BY <1>1, <1>2, <1>3, NodeRelinked
  <1>6. NodesOK(ms)
    BY <1>1, <1>2, <1>4, <1>5 DEF NodesOK
  <1>7. SameButLinks(ns, ms)
    BY <1>2, <1>4, <1>5 DEF SameButLinks
  <1>8. ASSUME NEW i \in DOMAIN ns, NEW k \in 0..ns[i].level, k # l \/ i \notin {a, b}
        PROVE  ms[i].neighbours[k] = ns[i].neighbours[k]
    BY <1>2, <1>4, <1>5, <1>8
  <1>9. QED
    BY <1>4, <1>5, <1>6, <1>7, <1>8

LEMMA DegreeLimit ==
    ASSUME NEW l
    PROVE  degree_limit(l) \in Nat \ {0}
PROOF
  BY HnswAssumption DEF degree_limit

\* prune drops links at both ends and leaves the node no more than the limit.
LEMMA PruneFacts ==
    ASSUME NEW ns, NodesOK(ns), LinksOK(ns), distance \in VectorDistance,
           NEW id \in DOMAIN ns, NEW l \in 0..ns[id].level,
           NEW ms, ms = Prune(ns, id, l)
    PROVE  /\ NodesOK(ms)
           /\ LinksOK(ms)
           /\ SameButLinks(ns, ms)
           /\ \A i \in DOMAIN ns : \A k \in 0..ns[i].level :
                ms[i].neighbours[k] \subseteq ns[i].neighbours[k]
           /\ Cardinality(ms[id].neighbours[l]) <= degree_limit(l)
PROOF
  <1> DEFINE links == ns[id].neighbours[l]
  <1> DEFINE retained == Closest(ns, ns[id].vector, links, degree_limit(l))
  <1> DEFINE removed == links \ retained
  <1>1. /\ ns = [i \in DOMAIN ns |-> ns[i]]
        /\ DOMAIN ns \subseteq Ids
        /\ \A i \in DOMAIN ns :
            /\ ns[i] \in Node
            /\ DOMAIN ns[i].neighbours = 0..ns[i].level
            /\ ns[i].vector \in Int /\ ns[i].level \in Nat
            /\ ns[i].neighbours \in [0..ns[i].level -> SUBSET Ids]
    BY NodeFacts DEF NodesOK
  <1>2. /\ links \in SUBSET Ids /\ ns[id].vector \in Int
        /\ \A i \in links : i \in DOMAIN ns /\ i # id /\ l \in 0..ns[i].level
                            /\ id \in ns[i].neighbours[l]
    BY <1>1 DEF LinksOK
  <1>3. /\ retained \subseteq links
        /\ Cardinality(retained) <= degree_limit(l)
    <2>1. \A i \in links : ns[i].vector \in Int
      BY <1>1, <1>2
    <2>2. degree_limit(l) \in Nat
      BY DegreeLimit
    <2> HIDE DEF links
    <2>3. QED
      BY <1>2, <2>1, <2>2, ClosestFacts
  <1>4. /\ DOMAIN ms = DOMAIN ns
        /\ ms = [i \in DOMAIN ms |-> ms[i]]
        /\ ms[id] = WithLinks(ns[id], l, retained)
        /\ \A i \in removed : ms[i] = WithLinks(ns[i], l, ns[i].neighbours[l] \ {id})
        /\ \A i \in DOMAIN ns : i # id /\ i \notin removed => ms[i] = ns[i]
    BY <1>2 DEF Prune, WithLinks
  <1> HIDE DEF links, retained, removed
  <1>5. /\ ms[id] \in Node
        /\ ms[id].vector = ns[id].vector /\ ms[id].level = ns[id].level
        /\ ms[id].backbone = ns[id].backbone
        /\ DOMAIN ms[id].neighbours = 0..ns[id].level
        /\ ms[id].neighbours[l] = retained
        /\ \A k \in 0..ns[id].level \ {l} : ms[id].neighbours[k] = ns[id].neighbours[k]
    BY <1>1, <1>2, <1>3, <1>4, NodeRelinked
  <1>6. ASSUME NEW i \in removed
        PROVE  /\ ms[i] \in Node
               /\ ms[i].vector = ns[i].vector /\ ms[i].level = ns[i].level
               /\ ms[i].backbone = ns[i].backbone
               /\ DOMAIN ms[i].neighbours = 0..ns[i].level
               /\ ms[i].neighbours[l] = ns[i].neighbours[l] \ {id}
               /\ \A k \in 0..ns[i].level \ {l} : ms[i].neighbours[k] = ns[i].neighbours[k]
    <2>1. /\ i \in DOMAIN ns /\ i # id /\ l \in 0..ns[i].level
          /\ ns[i] \in Node /\ DOMAIN ns[i].neighbours = 0..ns[i].level
          /\ ns[i].neighbours[l] \ {id} \in SUBSET Ids
      BY <1>1, <1>2 DEF removed
    <2>2. ms[i] = WithLinks(ns[i], l, ns[i].neighbours[l] \ {id})
      BY <1>4
    <2>3. QED
      BY <2>1, <2>2, NodeRelinked
  <1>7. removed \subseteq DOMAIN ns /\ id \notin removed /\ removed = links \ retained
    BY <1>2 DEF removed
  <1>8. NodesOK(ms) /\ SameButLinks(ns, ms)
    <2>1. ASSUME NEW i \in DOMAIN ns
          PROVE  /\ ms[i] \in Node /\ DOMAIN ms[i].neighbours = 0..ms[i].level
                 /\ ms[i].vector = ns[i].vector /\ ms[i].level = ns[i].level
                 /\ ms[i].backbone = ns[i].backbone
      BY <1>1, <1>4, <1>5, <1>6
    <2>2. QED
      BY <1>1, <1>4, <2>1 DEF NodesOK, SameButLinks
  \* What is linked: all that was, but for the pairs of id and what it drops.
  <1>9. ASSUME NEW i \in DOMAIN ns, NEW k \in 0..ns[i].level, NEW j
        PROVE  j \in ms[i].neighbours[k] <=>
                /\ j \in ns[i].neighbours[k]
                /\ ~ (k = l /\ i = id /\ j \in removed)
                /\ ~ (k = l /\ i \in removed /\ j = id)
    <2>1. CASE i = id
      BY <1>3, <1>5, <1>7, <2>1 DEF links
    <2>2. CASE i \in removed
      BY <1>6, <1>7, <2>2
    <2>3. CASE i # id /\ i \notin removed
      BY <1>4, <2>3
    <2>4. QED
      BY <2>1, <2>2, <2>3
  <1>10. LinksOK(ms)
    <2>1. SUFFICES ASSUME NEW i \in DOMAIN ms, NEW k \in 0..ms[i].level,
                          NEW j \in ms[i].neighbours[k]
                   PROVE  j # i /\ j \in DOMAIN ms /\ k <= ms[j].level
                          /\ i \in ms[j].neighbours[k]
      BY DEF LinksOK
    <2>2. i \in DOMAIN ns /\ k \in 0..ns[i].level /\ j \in ns[i].neighbours[k]
      BY <1>8, <1>9, <2>1 DEF SameButLinks
    <2>3. j # i /\ j \in DOMAIN ns /\ k <= ns[j].level /\ i \in ns[j].neighbours[k]
      BY <2>2 DEF LinksOK
    <2>4. k \in 0..ns[j].level
      BY <1>1, <2>2, <2>3
    <2>5. i \in ms[j].neighbours[k]
      BY <1>9, <2>1, <2>2, <2>3, <2>4
    <2>6. QED
      BY <1>8, <2>3, <2>5 DEF SameButLinks
  <1>11. QED
    BY <1>3, <1>5, <1>8, <1>9, <1>10

\* link: both ends get the link, then each is pruned.
LEMMA LinkFacts ==
    ASSUME NEW ns, GraphOK(ns), distance \in VectorDistance,
           NEW a \in DOMAIN ns, NEW b \in DOMAIN ns,
           NEW l \in 0..ns[a].level, l \in 0..ns[b].level,
           NEW ms, ms = Link(ns, a, b, l)
    PROVE  GraphOK(ms) /\ SameButLinks(ns, ms)
PROOF
  <1>0. CASE a = b
    BY <1>0 DEF Link, SameButLinks
  <1>1. CASE a # b
    <2> DEFINE js == Joined(ns, a, b, l)
    <2> DEFINE ps == Prune(js, a, l)
    <2>0. ms = Prune(ps, b, l)
      BY <1>1 DEF Link
    <2>1. NodesOK(ns) /\ LinksOK(ns) /\ DegreesOK(ns)
      BY DEF GraphOK
    <2>2. /\ NodesOK(js) /\ SameButLinks(ns, js)
          /\ js[a].neighbours[l] = ns[a].neighbours[l] \cup {b}
          /\ js[b].neighbours[l] = ns[b].neighbours[l] \cup {a}
          /\ \A i \in DOMAIN ns : \A k \in 0..ns[i].level :
                k # l \/ i \notin {a, b} => js[i].neighbours[k] = ns[i].neighbours[k]
      BY <1>1, <2>1, JoinedFacts
    <2> HIDE DEF js
    <2>3. ASSUME NEW i \in DOMAIN ns, NEW k \in 0..ns[i].level, NEW j
          PROVE  j \in js[i].neighbours[k] <=>
                    \/ j \in ns[i].neighbours[k]
                    \/ k = l /\ ((i = a /\ j = b) \/ (i = b /\ j = a))
      BY <1>1, <2>2
    <2>4. LinksOK(js)
      <3>1. SUFFICES ASSUME NEW i \in DOMAIN js, NEW k \in 0..js[i].level,
                            NEW j \in js[i].neighbours[k]
                     PROVE  j # i /\ j \in DOMAIN js /\ k <= js[j].level
                            /\ i \in js[j].neighbours[k]
        BY DEF LinksOK
      <3>2. i \in DOMAIN ns /\ k \in 0..ns[i].level /\ ns[a].level \in Nat /\ ns[b].level \in Nat
        BY <2>1, <2>2, <3>1, NodeFacts DEF SameButLinks, NodesOK
      <3>3. CASE j \in ns[i].neighbours[k]
        <4>1. j # i /\ j \in DOMAIN ns /\ k <= ns[j].level /\ i \in ns[j].neighbours[k]
          BY <2>1, <3>2, <3>3 DEF LinksOK
        <4>2. k \in 0..ns[j].level
          BY <2>1, <3>2, <4>1, NodeFacts DEF NodesOK
        <4>3. QED
          BY <2>2, <2>3, <4>1, <4>2 DEF SameButLinks
      <3>4. CASE k = l /\ ((i = a /\ j = b) \/ (i = b /\ j = a))
        <4>1. j \in DOMAIN ns /\ k \in 0..ns[j].level /\ i \in js[j].neighbours[k] /\ i # j
          BY <1>1, <2>3, <3>4
        <4>2. k <= ns[j].level
          BY <3>2, <3>4
        <4>3. QED
          BY <2>2, <4>1, <4>2 DEF SameButLinks
      <3>5. QED
        BY <2>3, <3>1, <3>2, <3>3, <3>4
    <2>5. a \in DOMAIN js /\ l \in 0..js[a].level
      BY <2>2 DEF SameButLinks
    <2>6. /\ NodesOK(ps) /\ LinksOK(ps) /\ SameButLinks(js, ps)
          /\ \A i \in DOMAIN js : \A k \in 0..js[i].level :
                ps[i].neighbours[k] \subseteq js[i].neighbours[k]
          /\ Cardinality(ps[a].neighbours[l]) <= degree_limit(l)
      BY <2>2, <2>4, <2>5, PruneFacts
    <2> HIDE DEF ps
    <2>7. b \in DOMAIN ps /\ l \in 0..ps[b].level
      BY <2>2, <2>6 DEF SameButLinks
    <2>8. /\ NodesOK(ms) /\ LinksOK(ms) /\ SameButLinks(ps, ms)
          /\ \A i \in DOMAIN ps : \A k \in 0..ps[i].level :
                ms[i].neighbours[k] \subseteq ps[i].neighbours[k]
          /\ Cardinality(ms[b].neighbours[l]) <= degree_limit(l)
      BY <2>0, <2>6, <2>7, PruneFacts
    <2>9. SameButLinks(ns, ms)
      BY <2>2, <2>6, <2>8 DEF SameButLinks
    <2>10. ASSUME NEW i \in DOMAIN ns, NEW k \in 0..ns[i].level
           PROVE  /\ ps[i].neighbours[k] \subseteq js[i].neighbours[k]
                  /\ ms[i].neighbours[k] \subseteq ps[i].neighbours[k]
                  /\ IsFiniteSet(ns[i].neighbours[k]) /\ IsFiniteSet(ps[i].neighbours[k])
                  /\ Cardinality(ms[i].neighbours[k]) <= Cardinality(ps[i].neighbours[k])
      <3>1. /\ ps[i].neighbours[k] \subseteq js[i].neighbours[k]
            /\ ms[i].neighbours[k] \subseteq ps[i].neighbours[k]
        BY <2>2, <2>6, <2>8 DEF SameButLinks
      <3>2. ns[i].neighbours[k] \in SUBSET Ids
        BY <2>1, NodeFacts DEF NodesOK
      <3>3. i \in DOMAIN ps /\ k \in 0..ps[i].level
        BY <2>2, <2>6 DEF SameButLinks
      <3>4. ps[i].neighbours[k] \in SUBSET Ids
        BY <2>6, <3>3, NodeFacts DEF NodesOK
      <3>5. IsFiniteSet(ns[i].neighbours[k]) /\ IsFiniteSet(ps[i].neighbours[k])
        BY <3>2, <3>4, FS_Subset, HnswAssumption
      <3>6. QED
        BY <3>1, <3>5, FS_Subset
    <2>11. DegreesOK(ms)
      <3>1. SUFFICES ASSUME NEW i \in DOMAIN ns, NEW k \in 0..ns[i].level
                     PROVE  Cardinality(ms[i].neighbours[k]) <= degree_limit(k)
        BY <2>9 DEF DegreesOK, SameButLinks
      <3>2. /\ Cardinality(ns[i].neighbours[k]) \in Nat
            /\ Cardinality(ps[i].neighbours[k]) \in Nat
            /\ Cardinality(ms[i].neighbours[k]) \in Nat
            /\ degree_limit(k) \in Nat
        BY <2>10, FS_CardinalityType, FS_Subset, DegreeLimit
      <3>3. CASE k = l /\ i = a
        BY <2>6, <2>10, <3>2, <3>3
      <3>4. CASE k = l /\ i = b
        BY <2>8, <3>4
      <3>5. CASE k # l \/ i \notin {a, b}
        <4>1. ps[i].neighbours[k] \subseteq ns[i].neighbours[k]
          BY <2>2, <2>10, <3>5
        <4>2. Cardinality(ps[i].neighbours[k]) <= Cardinality(ns[i].neighbours[k])
          BY <2>10, <4>1, FS_Subset
        <4>3. Cardinality(ns[i].neighbours[k]) <= degree_limit(k)
          BY <2>1 DEF DegreesOK
        <4>4. QED
          BY <2>10, <3>2, <4>2, <4>3
      <3>6. QED
        BY <3>3, <3>4, <3>5
    <2>12. Backbone(ms) = Backbone(ns)
      BY <2>9 DEF Backbone, SameButLinks
    <2>13. QED
      BY <2>8, <2>9, <2>11, <2>12 DEF GraphOK
  <1>2. QED
    BY <1>0, <1>1

\* Nothing but the backbone differs.
SameButBackbone(ns, ms) ==
    /\ DOMAIN ms = DOMAIN ns
    /\ \A i \in DOMAIN ns :
        /\ ms[i].vector = ns[i].vector
        /\ ms[i].level = ns[i].level
        /\ ms[i].neighbours = ns[i].neighbours

WithBackbone(n, around) == [n EXCEPT !.backbone = around]

LEMMA NodeRewired ==
    ASSUME NEW n \in Node, NEW around \in SUBSET Ids
    PROVE  /\ WithBackbone(n, around) \in Node
           /\ WithBackbone(n, around).vector = n.vector
           /\ WithBackbone(n, around).level = n.level
           /\ WithBackbone(n, around).neighbours = n.neighbours
           /\ WithBackbone(n, around).backbone = around
PROOF
  BY DEF WithBackbone, Node

LEMMA ConnectFacts ==
    ASSUME NEW ns, NodesOK(ns), NEW a \in DOMAIN ns, NEW b \in DOMAIN ns, a # b,
           NEW ms, ms = Connect(ns, a, b)
    PROVE  /\ NodesOK(ms)
           /\ SameButBackbone(ns, ms)
           /\ ms[a].backbone = ns[a].backbone \cup {b}
           /\ ms[b].backbone = ns[b].backbone \cup {a}
           /\ \A i \in DOMAIN ns \ {a, b} : ms[i].backbone = ns[i].backbone
PROOF
  <1>1. /\ DOMAIN ns \subseteq Ids
        /\ \A i \in DOMAIN ns : /\ ns[i] \in Node /\ DOMAIN ns[i].neighbours = 0..ns[i].level
                                /\ ns[i].backbone \subseteq Ids
    BY NodeFacts DEF NodesOK
  <1>2. /\ ms = [i \in DOMAIN ms |-> ms[i]]
        /\ DOMAIN ms = DOMAIN ns
        /\ ms[a] = WithBackbone(ns[a], ns[a].backbone \cup {b})
        /\ ms[b] = WithBackbone(ns[b], ns[b].backbone \cup {a})
        /\ \A i \in DOMAIN ns \ {a, b} : ms[i] = ns[i]
    BY DEF Connect, WithBackbone
  <1>3. /\ ns[a].backbone \cup {b} \in SUBSET Ids
        /\ ns[b].backbone \cup {a} \in SUBSET Ids
    BY <1>1
  <1>4. /\ ms[a] \in Node /\ ms[a].vector = ns[a].vector /\ ms[a].level = ns[a].level
        /\ ms[a].neighbours = ns[a].neighbours
        /\ ms[a].backbone = ns[a].backbone \cup {b}
    BY <1>1, <1>2, <1>3, NodeRewired
  <1>5. /\ ms[b] \in Node /\ ms[b].vector = ns[b].vector /\ ms[b].level = ns[b].level
        /\ ms[b].neighbours = ns[b].neighbours
        /\ ms[b].backbone = ns[b].backbone \cup {a}
    BY <1>1, <1>2, <1>3, NodeRewired
  <1>6. NodesOK(ms) /\ SameButBackbone(ns, ms)
    BY <1>1, <1>2, <1>4, <1>5 DEF NodesOK, SameButBackbone
  <1>7. QED
    BY <1>2, <1>4, <1>5, <1>6

LEMMA DisconnectFacts ==
    ASSUME NEW ns, NodesOK(ns), NEW a \in DOMAIN ns, NEW b \in DOMAIN ns, a # b,
           NEW ms, ms = Disconnect(ns, a, b)
    PROVE  /\ NodesOK(ms)
           /\ SameButBackbone(ns, ms)
           /\ ms[a].backbone = ns[a].backbone \ {b}
           /\ ms[b].backbone = ns[b].backbone \ {a}
           /\ \A i \in DOMAIN ns \ {a, b} : ms[i].backbone = ns[i].backbone
PROOF
  <1>1. /\ DOMAIN ns \subseteq Ids
        /\ \A i \in DOMAIN ns : /\ ns[i] \in Node /\ DOMAIN ns[i].neighbours = 0..ns[i].level
                                /\ ns[i].backbone \subseteq Ids
    BY NodeFacts DEF NodesOK
  <1>2. /\ ms = [i \in DOMAIN ms |-> ms[i]]
        /\ DOMAIN ms = DOMAIN ns
        /\ ms[a] = WithBackbone(ns[a], ns[a].backbone \ {b})
        /\ ms[b] = WithBackbone(ns[b], ns[b].backbone \ {a})
        /\ \A i \in DOMAIN ns \ {a, b} : ms[i] = ns[i]
    BY DEF Disconnect, WithBackbone
  <1>3. /\ ns[a].backbone \ {b} \in SUBSET Ids
        /\ ns[b].backbone \ {a} \in SUBSET Ids
    BY <1>1
  <1>4. /\ ms[a] \in Node /\ ms[a].vector = ns[a].vector /\ ms[a].level = ns[a].level
        /\ ms[a].neighbours = ns[a].neighbours
        /\ ms[a].backbone = ns[a].backbone \ {b}
    BY <1>1, <1>2, <1>3, NodeRewired
  <1>5. /\ ms[b] \in Node /\ ms[b].vector = ns[b].vector /\ ms[b].level = ns[b].level
        /\ ms[b].neighbours = ns[b].neighbours
        /\ ms[b].backbone = ns[b].backbone \ {a}
    BY <1>1, <1>2, <1>3, NodeRewired
  <1>6. NodesOK(ms) /\ SameButBackbone(ns, ms)
    BY <1>1, <1>2, <1>4, <1>5 DEF NodesOK, SameButBackbone
  <1>7. QED
    BY <1>2, <1>4, <1>5, <1>6

\* Links do not care for the backbone.
LEMMA LinksUnderBackbone ==
    ASSUME NEW ns, NEW ms, SameButBackbone(ns, ms)
    PROVE  /\ LinksOK(ns) => LinksOK(ms)
           /\ DegreesOK(ns) => DegreesOK(ms)
PROOF
  BY DEF SameButBackbone, LinksOK, DegreesOK

\* The least of a finite nonempty set of identities.
LEMMA LeastFacts ==
    ASSUME NEW S \in SUBSET Ids, S # {}
    PROVE  Least(S) \in S /\ \A j \in S : Least(S) <= j
PROOF
  <1> DEFINE R == {p \in S \X S : p[1] < p[2]}
  <1>0. \A i \in S : i \in Int
    BY HnswAssumption
  <1>1. \A i, j \in S : <<i, j>> \in R <=> i < j
    OBVIOUS
  <1> HIDE DEF R
  <1>2. StrictOrder(R, S)
    BY <1>0, <1>1 DEF StrictOrder
  <1>3. IsFiniteSet(S) /\ Cardinality(S) \in Nat /\ Cardinality(S) # 0
    BY HnswAssumption, FS_Subset, FS_CardinalityType, FS_EmptySet
  <1>4. PICK i \in S : Rank(R, S, i) = 0
    BY <1>2, <1>3, RankTaken
  <1>5. ASSUME NEW j \in S PROVE i <= j
    <2>1. IsFiniteSet(Ahead(R, S, i))
      BY <1>3, FS_Subset DEF Ahead
    <2>2. Ahead(R, S, i) = {}
      BY <1>4, <2>1, FS_EmptySet DEF Rank
    <2>3. ~ (j < i)
      BY <1>1, <2>2 DEF Ahead
    <2>4. QED
      BY <1>0, <2>3
  <1>6. QED
    BY <1>5 DEF Least

\* remove_node: the graph without a node is one.
LEMMA WithoutFacts ==
    ASSUME NEW ns, GraphOK(ns), NEW id \in DOMAIN ns, NEW ms, ms = Without(ns, id)
    PROVE  /\ GraphOK(ms)
           /\ DOMAIN ms = DOMAIN ns \ {id}
           /\ \A i \in DOMAIN ms : ms[i].vector = ns[i].vector /\ ms[i].level = ns[i].level
PROOF
  <1> DEFINE around == ns[id].backbone
  <1> DEFINE Bypass(i) == IF i \in around /\ Cardinality(around) = 2 THEN around \ {i} ELSE {}
  <1> DEFINE unlinked(i) == [l \in DOMAIN ns[i].neighbours |-> ns[i].neighbours[l] \ {id}]
  <1> DEFINE spanned(i) == (ns[i].backbone \ {id}) \cup Bypass(i)
  <1>1. NodesOK(ns) /\ LinksOK(ns) /\ DegreesOK(ns) /\ Ring(Backbone(ns))
    BY DEF GraphOK
  <1>2. /\ DOMAIN ns \subseteq Ids
        /\ \A i \in DOMAIN ns :
            /\ ns[i].vector \in Vectors /\ ns[i].level \in 0..TopLevel /\ ns[i].level \in Nat
            /\ ns[i].neighbours \in [0..ns[i].level -> SUBSET Ids]
            /\ ns[i].backbone \in SUBSET Ids
            /\ DOMAIN ns[i] = {"vector", "level", "neighbours", "backbone"}
    <2>1. \A i \in DOMAIN ns :
            ns[i] = [vector |-> ns[i].vector, level |-> ns[i].level,
                     neighbours |-> ns[i].neighbours, backbone |-> ns[i].backbone]
      BY <1>1, NodeFacts DEF NodesOK
    <2>2. \A i \in DOMAIN ns : DOMAIN ns[i] = {"vector", "level", "neighbours", "backbone"}
      BY <2>1
    <2>3. QED
      BY <1>1, <2>2, NodeFacts DEF NodesOK
  <1>3. /\ DOMAIN ms = DOMAIN ns \ {id}
        /\ ms = [i \in DOMAIN ms |-> ms[i]]
        /\ \A i \in DOMAIN ms :
            ms[i] = [ns[i] EXCEPT !.neighbours = unlinked(i), !.backbone = spanned(i)]
    BY DEF Without
  <1>4. \A i \in DOMAIN ms :
            /\ unlinked(i) \in [0..ns[i].level -> SUBSET Ids]
            /\ spanned(i) \in SUBSET Ids
            /\ \A l \in 0..ns[i].level : unlinked(i)[l] = ns[i].neighbours[l] \ {id}
    <2>1. around \in SUBSET Ids
      BY <1>2
    <2> SUFFICES ASSUME NEW i \in DOMAIN ms
                 PROVE  /\ unlinked(i) \in [0..ns[i].level -> SUBSET Ids]
                        /\ spanned(i) \in SUBSET Ids
                        /\ \A l \in 0..ns[i].level : unlinked(i)[l] = ns[i].neighbours[l] \ {id}
      OBVIOUS
    <2>2. i \in DOMAIN ns
      BY <1>3
    <2>3. ns[i].neighbours \in [0..ns[i].level -> SUBSET Ids] /\ ns[i].backbone \in SUBSET Ids
      BY <1>2, <2>2
    <2> HIDE DEF around
    <2>4. spanned(i) \in SUBSET Ids
      BY <2>1, <2>3
    <2>5. /\ unlinked(i) \in [0..ns[i].level -> SUBSET Ids]
          /\ \A l \in 0..ns[i].level : unlinked(i)[l] = ns[i].neighbours[l] \ {id}
      BY <2>3
    <2>6. QED
      BY <2>4, <2>5
  <1> HIDE DEF unlinked, spanned
  <1>5. ASSUME NEW i \in DOMAIN ms
        PROVE  /\ ms[i] \in Node
               /\ ms[i].vector = ns[i].vector /\ ms[i].level = ns[i].level
               /\ ms[i].neighbours = unlinked(i) /\ ms[i].backbone = spanned(i)
    <2>1. i \in DOMAIN ns
      BY <1>3
    <2>2. ms[i] = [vector |-> ns[i].vector, level |-> ns[i].level,
                   neighbours |-> unlinked(i), backbone |-> spanned(i)]
      BY <1>2, <1>3, <2>1
    <2> DEFINE v == ns[i].vector
    <2> DEFINE level == ns[i].level
    <2> DEFINE links == unlinked(i)
    <2> DEFINE bs == spanned(i)
    <2>3. /\ v \in Vectors /\ level \in 0..TopLevel /\ links \in [0..level -> SUBSET Ids]
          /\ bs \in SUBSET Ids
      BY <1>2, <1>4, <2>1
    <2> HIDE DEF v, level, links, bs
    <2>4. [vector |-> v, level |-> level, neighbours |-> links, backbone |-> bs] \in Node
      BY <2>3, NodeMade
    <2>5. QED
      BY <2>2, <2>4 DEF v, level, links, bs
  <1>6. ASSUME NEW i \in DOMAIN ms
        PROVE  /\ DOMAIN ms[i].neighbours = 0..ms[i].level
               /\ \A l \in 0..ns[i].level : ms[i].neighbours[l] = ns[i].neighbours[l] \ {id}
    BY <1>4, <1>5
  <1>7. NodesOK(ms)
    BY <1>2, <1>3, <1>5, <1>6 DEF NodesOK
  <1>8. LinksOK(ms)
    <2>1. SUFFICES ASSUME NEW i \in DOMAIN ms, NEW k \in 0..ms[i].level,
                          NEW j \in ms[i].neighbours[k]
                   PROVE  j # i /\ j \in DOMAIN ms /\ k <= ms[j].level
                          /\ i \in ms[j].neighbours[k]
      BY DEF LinksOK
    <2>0. i \in DOMAIN ns /\ i # id /\ k \in 0..ns[i].level
      BY <1>3, <1>5
    <2>2. /\ i \in DOMAIN ns /\ i # id /\ k \in 0..ns[i].level
          /\ j \in ns[i].neighbours[k] /\ j # id
      BY <1>6, <2>0
    <2>3. j # i /\ j \in DOMAIN ns /\ k <= ns[j].level /\ i \in ns[j].neighbours[k]
      BY <1>1, <2>2 DEF LinksOK
    <2>4. j \in DOMAIN ms /\ k \in 0..ns[j].level
      <3>1. ns[i].level \in Nat /\ ns[j].level \in Nat
        BY <1>2, <2>2, <2>3
      <3>2. k \in 0..ns[j].level
        BY <2>2, <2>3, <3>1
      <3>3. j \in DOMAIN ms
        BY <1>3, <2>2, <2>3
      <3>4. QED
        BY <3>2, <3>3
    <2>5. QED
      BY <1>5, <1>6, <2>2, <2>3, <2>4
  <1>9. DegreesOK(ms)
    <2>1. SUFFICES ASSUME NEW i \in DOMAIN ms, NEW k \in 0..ms[i].level
                   PROVE  Cardinality(ms[i].neighbours[k]) <= degree_limit(k)
      BY DEF DegreesOK
    <2>2. i \in DOMAIN ns /\ k \in 0..ns[i].level
          /\ ms[i].neighbours[k] = ns[i].neighbours[k] \ {id}
      BY <1>3, <1>5, <1>6, <2>1
    <2>3. ns[i].neighbours[k] \in SUBSET Ids
      BY <1>2, <2>2
    <2>4. IsFiniteSet(ns[i].neighbours[k])
      BY <2>3, FS_Subset, HnswAssumption
    <2>5. Cardinality(ms[i].neighbours[k]) <= Cardinality(ns[i].neighbours[k])
          /\ Cardinality(ms[i].neighbours[k]) \in Nat /\ Cardinality(ns[i].neighbours[k]) \in Nat
      BY <2>2, <2>4, FS_Subset, FS_CardinalityType
    <2>6. Cardinality(ns[i].neighbours[k]) <= degree_limit(k) /\ degree_limit(k) \in Nat
      BY <1>1, <2>2, DegreeLimit DEF DegreesOK
    <2>7. QED
      BY <2>5, <2>6
  <1>10. Ring(Backbone(ms))
    <2> DEFINE B == Backbone(ns)
    <2> DEFINE C == Backbone(ms)
    <2>1. Ring(B) /\ id \in DOMAIN B /\ DOMAIN C = DOMAIN B \ {id}
      BY <1>1, <1>3 DEF Backbone
    <2>2. \A i \in DOMAIN C :
            C[i] = (B[i] \ {id}) \cup
                   (IF i \in B[id] /\ Cardinality(B[id]) = 2 THEN B[id] \ {i} ELSE {})
      BY <1>3, <1>5 DEF Backbone, spanned
    <2> HIDE DEF B, C
    <2>3. Ring(C)
      BY <2>1, <2>2, RingWithout
    <2>4. QED
      BY <2>3 DEF C
  <1>11. QED
    BY <1>3, <1>5, <1>7, <1>8, <1>9, <1>10 DEF GraphOK

\* splice_backbone: a node outside the ring, spliced in at a member of it.
LEMMA SpliceFacts ==
    ASSUME NEW gs, NodesOK(gs), NEW id \in DOMAIN gs, gs[id].backbone = {},
           NEW B, Ring(B), id \notin DOMAIN B, DOMAIN gs = DOMAIN B \cup {id},
           \A i \in DOMAIN B : gs[i].backbone = B[i],
           NEW anchor \in DOMAIN B,
           NEW ms, ms = Splice(gs, id, anchor)
    PROVE  NodesOK(ms) /\ SameButBackbone(gs, ms) /\ Ring(Backbone(ms))
PROOF
  <1> DEFINE around == gs[anchor].backbone
  <1> DEFINE s == Least(around)
  <1>1. anchor \in DOMAIN gs /\ anchor # id /\ around = B[anchor]
    OBVIOUS
  <1>2. /\ \A i \in DOMAIN B : \A j \in B[i] : j # i /\ j \in DOMAIN B /\ i \in B[j]
        /\ \/ DOMAIN B = {anchor} /\ B[anchor] = {}
           \/ \E a \in DOMAIN B : a # anchor /\ DOMAIN B = {anchor, a} /\ B[anchor] = {a}
           \/ \E a, b \in DOMAIN B : a # anchor /\ b # anchor /\ a # b /\ B[anchor] = {a, b}
    BY DEF Ring, Symmetric, RingDegree
  <1>3. around \in SUBSET Ids
    BY <1>1, <1>2 DEF NodesOK
  <1>4. around # {} => s \in around
    <2> HIDE DEF around
    <2>1. QED
      BY <1>3, LeastFacts
  <1>5. /\ around = {} => ms = Connect(gs, id, anchor)
        /\ around # {} /\ Cardinality(around) = 1 => ms = Connect(Connect(gs, anchor, id), id, s)
        /\ around # {} /\ Cardinality(around) # 1 =>
                ms = Connect(Connect(Disconnect(gs, anchor, s), anchor, id), id, s)
    BY FS_EmptySet DEF Splice
  <1> HIDE DEF s, around
  <1>6. ASSUME DOMAIN B = {anchor}, B[anchor] = {}
        PROVE  NodesOK(ms) /\ SameButBackbone(gs, ms) /\ Ring(Backbone(ms))
    <2>0. around = {}
      BY <1>1, <1>6
    <2>1. ms = Connect(gs, id, anchor)
      BY <1>5, <2>0
    <2>2. /\ NodesOK(ms) /\ SameButBackbone(gs, ms)
          /\ ms[id].backbone = gs[id].backbone \cup {anchor}
          /\ ms[anchor].backbone = gs[anchor].backbone \cup {id}
      BY <1>1, <2>1, ConnectFacts
    <2>3. gs[id].backbone = {} /\ gs[anchor].backbone = {} /\ DOMAIN ms = {anchor, id}
      BY <1>6, <2>2 DEF SameButBackbone
    <2>4. /\ DOMAIN Backbone(ms) = {anchor, id}
          /\ Backbone(ms)[anchor] = {id} /\ Backbone(ms)[id] = {anchor}
      BY <2>2, <2>3 DEF Backbone
    <2>5. Ring(Backbone(ms))
      BY <1>1, <2>4, RingOfTwo
    <2>6. QED
      BY <2>2, <2>5
  <1>7. ASSUME NEW a \in DOMAIN B, a # anchor, DOMAIN B = {anchor, a}, B[anchor] = {a}
        PROVE  NodesOK(ms) /\ SameButBackbone(gs, ms) /\ Ring(Backbone(ms))
    <2> DEFINE js == Connect(gs, anchor, id)
    <2>1. around # {} /\ Cardinality(around) = 1 /\ s = a
      BY <1>1, <1>4, <1>7, FS_Singleton
    <2>2. ms = Connect(js, id, a)
      BY <1>5, <2>1
    <2>3. /\ NodesOK(js) /\ SameButBackbone(gs, js)
          /\ js[anchor].backbone = gs[anchor].backbone \cup {id}
          /\ js[id].backbone = gs[id].backbone \cup {anchor}
          /\ \A i \in DOMAIN gs \ {anchor, id} : js[i].backbone = gs[i].backbone
      BY <1>1, ConnectFacts
    <2> HIDE DEF js
    <2>4. DOMAIN js = {anchor, a, id} /\ a # id
      BY <1>7, <2>3 DEF SameButBackbone
    <2>5. /\ NodesOK(ms) /\ SameButBackbone(js, ms)
          /\ ms[id].backbone = js[id].backbone \cup {a}
          /\ ms[a].backbone = js[a].backbone \cup {id}
          /\ \A i \in DOMAIN js \ {id, a} : ms[i].backbone = js[i].backbone
      <3>1. id \in DOMAIN js /\ a \in DOMAIN js /\ id # a /\ NodesOK(js)
        BY <2>3, <2>4
      <3>2. QED
        BY <2>2, <3>1, ConnectFacts
    <2>6. SameButBackbone(gs, ms)
      BY <2>3, <2>5 DEF SameButBackbone
    <2>7. B[a] = {anchor}
      BY <1>2, <1>7
    <2>8. js[anchor].backbone = {a, id} /\ js[id].backbone = {anchor} /\ js[a].backbone = {anchor}
      BY <1>1, <1>7, <2>3, <2>4, <2>7
    <2>9. /\ ms[id].backbone = {anchor, a}
          /\ ms[a].backbone = {anchor, id}
          /\ ms[anchor].backbone = {a, id}
      BY <1>1, <1>7, <2>4, <2>5, <2>8
    <2>10. /\ DOMAIN Backbone(ms) = {anchor, a, id}
           /\ Backbone(ms)[anchor] = {a, id}
           /\ Backbone(ms)[a] = {anchor, id}
           /\ Backbone(ms)[id] = {anchor, a}
      BY <2>4, <2>5, <2>9 DEF Backbone, SameButBackbone
    <2>11. Ring(Backbone(ms))
      BY <1>1, <1>7, <2>4, <2>10, RingOfThree
    <2>12. QED
      BY <2>5, <2>6, <2>11
  <1>8. ASSUME NEW a \in DOMAIN B, NEW b \in DOMAIN B, a # anchor, b # anchor, a # b,
               B[anchor] = {a, b}
        PROVE  NodesOK(ms) /\ SameButBackbone(gs, ms) /\ Ring(Backbone(ms))
    <2> DEFINE ds == Disconnect(gs, anchor, s)
    <2> DEFINE js == Connect(ds, anchor, id)
    <2>1. around # {} /\ s \in {a, b} /\ s \in B[anchor]
      BY <1>1, <1>4, <1>8
    <2>2. PICK t \in B[anchor] : t # s
      BY <1>8
    <2>3. Cardinality(around) # 1
      BY <1>1, <1>8, PairCardinality
    <2>4. ms = Connect(js, id, s)
      BY <1>5, <2>1, <2>3
    <2>5. s \in DOMAIN B /\ s \in DOMAIN gs /\ s # anchor /\ s # id
      BY <1>8, <2>1
    <2>6. /\ NodesOK(ds) /\ SameButBackbone(gs, ds)
          /\ ds[anchor].backbone = gs[anchor].backbone \ {s}
          /\ ds[s].backbone = gs[s].backbone \ {anchor}
          /\ \A i \in DOMAIN gs \ {anchor, s} : ds[i].backbone = gs[i].backbone
      BY <1>1, <2>5, DisconnectFacts
    <2> HIDE DEF ds
    <2>7. anchor \in DOMAIN ds /\ id \in DOMAIN ds /\ DOMAIN ds = DOMAIN gs
      BY <1>1, <2>6 DEF SameButBackbone
    <2>8. /\ NodesOK(js) /\ SameButBackbone(ds, js)
          /\ js[anchor].backbone = ds[anchor].backbone \cup {id}
          /\ js[id].backbone = ds[id].backbone \cup {anchor}
          /\ \A i \in DOMAIN ds \ {anchor, id} : js[i].backbone = ds[i].backbone
      BY <1>1, <2>6, <2>7, ConnectFacts
    <2> HIDE DEF js
    <2>9. id \in DOMAIN js /\ s \in DOMAIN js /\ DOMAIN js = DOMAIN gs
      BY <2>5, <2>7, <2>8 DEF SameButBackbone
    <2>10. /\ NodesOK(ms) /\ SameButBackbone(js, ms)
           /\ ms[id].backbone = js[id].backbone \cup {s}
           /\ ms[s].backbone = js[s].backbone \cup {id}
           /\ \A i \in DOMAIN js \ {id, s} : ms[i].backbone = js[i].backbone
      <3>1. id \in DOMAIN js /\ s \in DOMAIN js /\ id # s /\ NodesOK(js)
        BY <2>5, <2>8, <2>9
      <3>2. QED
        BY <2>4, <3>1, ConnectFacts
    <2>11. SameButBackbone(gs, ms)
      BY <2>6, <2>8, <2>10 DEF SameButBackbone
    <2>12. ms[id].backbone = {anchor, s}
      BY <1>1, <2>5, <2>6, <2>7, <2>8, <2>9, <2>10
    <2>13. ms[anchor].backbone = (B[anchor] \ {s}) \cup {id}
      BY <1>1, <2>5, <2>6, <2>7, <2>8, <2>9, <2>10
    <2>14. ms[s].backbone = (B[s] \ {anchor}) \cup {id}
      BY <1>1, <2>5, <2>6, <2>7, <2>8, <2>9, <2>10
    <2>15. \A i \in DOMAIN B \ {anchor, s} : ms[i].backbone = B[i]
      BY <1>1, <2>5, <2>6, <2>7, <2>8, <2>9, <2>10
    <2> DEFINE C == Backbone(ms)
    <2>16. DOMAIN ms = DOMAIN B \cup {id}
      BY <2>11 DEF SameButBackbone
    <2>17. DOMAIN C = DOMAIN B \cup {id} /\ \A i \in DOMAIN B \cup {id} : C[i] = ms[i].backbone
      BY <2>16 DEF Backbone
    <2> HIDE DEF C
    <2>18. /\ C[id] = {anchor, s}
           /\ C[anchor] = (B[anchor] \ {s}) \cup {id}
           /\ C[s] = (B[s] \ {anchor}) \cup {id}
           /\ \A i \in DOMAIN B \ {anchor, s} : C[i] = B[i]
      BY <2>5, <2>12, <2>13, <2>14, <2>15, <2>17
    <2>19. Ring(C)
      <3>1. DOMAIN C = DOMAIN B \cup {id} /\ s \in B[anchor] /\ t \in B[anchor] /\ s # t
        BY <2>1, <2>2, <2>17
      <3>2. QED
        BY <2>18, <3>1, RingBetween
    <2>20. QED
      BY <2>10, <2>11, <2>19 DEF C
  <1>9. QED
    BY <1>2, <1>6, <1>7, <1>8

\* The graph insert makes of its new node, before it is linked.
LEMMA GrownFacts ==
    ASSUME NEW ns, GraphOK(ns),
           NEW id \in Ids \ DOMAIN ns, NEW v \in Vectors, NEW level \in 0..TopLevel,
           NEW gs,
           DOMAIN gs = DOMAIN ns \cup {id}, gs = [i \in DOMAIN gs |-> gs[i]],
           gs[id] = NewNode(v, level), \A i \in DOMAIN ns : gs[i] = ns[i]
    PROVE  /\ NodesOK(gs) /\ LinksOK(gs) /\ DegreesOK(gs)
           /\ gs[id].vector = v /\ gs[id].level = level /\ gs[id].backbone = {}
PROOF
  <1>0. NodesOK(ns) /\ LinksOK(ns) /\ DegreesOK(ns)
    BY DEF GraphOK
  <1>1. /\ NewNode(v, level) \in Node
        /\ NewNode(v, level).vector = v /\ NewNode(v, level).level = level
        /\ DOMAIN NewNode(v, level).neighbours = 0..level
        /\ \A l \in 0..level : NewNode(v, level).neighbours[l] = {}
        /\ NewNode(v, level).backbone = {}
    <2> DEFINE links == [l \in 0..level |-> {}]
    <2>1. links \in [0..level -> SUBSET Ids] /\ {} \in SUBSET Ids
      OBVIOUS
    <2>2. NewNode(v, level) = [vector |-> v, level |-> level, neighbours |-> links, backbone |-> {}]
      BY DEF NewNode
    <2>3. DOMAIN links = 0..level /\ \A l \in 0..level : links[l] = {}
      OBVIOUS
    <2> HIDE DEF links
    <2>4. QED
      BY <2>1, <2>2, <2>3, NodeMade
  <1>2. /\ DOMAIN gs = DOMAIN ns \cup {id}
        /\ gs[id] = NewNode(v, level)
        /\ \A i \in DOMAIN ns : gs[i] = ns[i] /\ i # id
        /\ gs = [i \in DOMAIN gs |-> gs[i]]
    OBVIOUS
  <1>3. NodesOK(gs)
    BY <1>0, <1>1, <1>2 DEF NodesOK
  <1>4. LinksOK(gs)
    <2>1. SUFFICES ASSUME NEW i \in DOMAIN gs, NEW k \in 0..gs[i].level,
                          NEW j \in gs[i].neighbours[k]
                   PROVE  j # i /\ j \in DOMAIN gs /\ k <= gs[j].level
                          /\ i \in gs[j].neighbours[k]
      BY DEF LinksOK
    <2>2. i \in DOMAIN ns
      <3>1. i # id
        <4>1. gs[id].level = level /\ \A l \in 0..level : gs[id].neighbours[l] = {}
          BY <1>1, <1>2
        <4>2. QED
          BY <2>1, <4>1
      <3>2. QED
        BY <1>2, <3>1
    <2>3. gs[i] = ns[i]
      BY <1>2, <2>2
    <2>4. j # i /\ j \in DOMAIN ns /\ k <= ns[j].level /\ i \in ns[j].neighbours[k]
      BY <1>0, <2>2, <2>3 DEF LinksOK
    <2>5. gs[j] = ns[j] /\ j \in DOMAIN gs
      BY <1>2, <2>4
    <2>6. QED
      BY <2>4, <2>5
  <1>5. DegreesOK(gs)
    <2>1. SUFFICES ASSUME NEW i \in DOMAIN gs, NEW k \in 0..gs[i].level
                   PROVE  Cardinality(gs[i].neighbours[k]) <= degree_limit(k)
      BY DEF DegreesOK
    <2>2. CASE i = id
      <3>1. gs[i].neighbours[k] = {}
        BY <1>1, <1>2, <2>2
      <3>2. Cardinality(gs[i].neighbours[k]) = 0
        BY <3>1, FS_EmptySet
      <3>3. QED
        BY <3>2, DegreeLimit
    <2>3. CASE i \in DOMAIN ns
      <3>1. gs[i] = ns[i]
        BY <1>2, <2>3
      <3>2. QED
        BY <1>0, <2>3, <3>1 DEF DegreesOK
    <2>4. QED
      BY <1>2, <2>2, <2>3
  <1>6. QED
    BY <1>1, <1>2, <1>3, <1>4, <1>5

(***************************************************************************)
(* The entry point.                                                        *)
(***************************************************************************)
EntryOf(ns, S, e, m) ==
    \/ S = {} /\ e = None /\ m = 0
    \/ /\ e \in S
       /\ ns[e].level = m
       /\ \A i \in S : ns[i].level < m \/ (ns[i].level = m /\ e <= i)

LEMMA EntrySelected ==
    ASSUME NEW ns, NodesOK(ns)
    PROVE  /\ EntryOf(ns, DOMAIN ns, SelectEntry(ns), HighestLevel(ns))
           /\ \A e, m : EntryOf(ns, DOMAIN ns, e, m) => e = SelectEntry(ns) /\ m = HighestLevel(ns)
PROOF
  <1>1. CASE DOMAIN ns = {}
    BY <1>1 DEF EntryOf, SelectEntry, HighestLevel
  <1>2. CASE DOMAIN ns # {}
    <2> DEFINE D == DOMAIN ns
    <2> DEFINE L(i) == ns[i].level
    <2> DEFINE R == {p \in D \X D : L(p[1]) > L(p[2]) \/ (L(p[1]) = L(p[2]) /\ p[1] < p[2])}
    <2> DEFINE top == HighestLevel(ns)
    <2> DEFINE tops == {i \in D : L(i) = top}
    <2>1. D \in SUBSET Ids /\ \A i \in D : i \in Int /\ L(i) \in 0..TopLevel /\ L(i) \in Nat
      BY NodeFacts, HnswAssumption DEF NodesOK
    <2>2. \A i, j \in D : <<i, j>> \in R <=> L(i) > L(j) \/ (L(i) = L(j) /\ i < j)
      OBVIOUS
    <2>3. top = CHOOSE l \in 0..TopLevel : (\E i \in D : L(i) = l) /\ (\A i \in D : L(i) <= l)
      BY <1>2 DEF HighestLevel
    <2>4. SelectEntry(ns) = Least(tops)
      BY <1>2 DEF SelectEntry
    <2> HIDE DEF D, L, R, top
    <2>5. IsFiniteSet(D) /\ Cardinality(D) \in Nat /\ Cardinality(D) # 0
      BY <1>2, <2>1, HnswAssumption, FS_Subset, FS_CardinalityType, FS_EmptySet DEF D
    <2>6. StrictOrder(R, D)
      BY <2>1, <2>2 DEF StrictOrder
    <2>7. PICK h \in D : Rank(R, D, h) = 0
      BY <2>5, <2>6, RankTaken
    <2>8. ASSUME NEW i \in D PROVE L(i) <= L(h)
      <3>1. IsFiniteSet(Ahead(R, D, h))
        BY <2>5, FS_Subset DEF Ahead
      <3>2. Ahead(R, D, h) = {}
        BY <2>7, <3>1, FS_EmptySet DEF Rank
      <3>3. ~ (L(i) > L(h))
        BY <2>2, <3>2 DEF Ahead
      <3>4. QED
        BY <2>1, <3>3
    <2>9. top \in 0..TopLevel /\ (\E i \in D : L(i) = top) /\ (\A i \in D : L(i) <= top)
      <3>1. \E l \in 0..TopLevel : (\E i \in D : L(i) = l) /\ (\A i \in D : L(i) <= l)
        BY <2>1, <2>8
      <3>2. QED
        BY <2>3, <3>1
    <2>10. tops # {} /\ tops \in SUBSET Ids
      BY <2>1, <2>9
    <2>11. Least(tops) \in tops /\ \A j \in tops : Least(tops) <= j
      BY <2>10, LeastFacts
    <2>12. EntryOf(ns, D, SelectEntry(ns), top)
      <3>1. /\ SelectEntry(ns) \in D /\ L(SelectEntry(ns)) = top
            /\ \A i \in D : L(i) < top \/ (L(i) = top /\ SelectEntry(ns) <= i)
        BY <2>1, <2>4, <2>9, <2>11
      <3>2. QED
        BY <3>1 DEF EntryOf, L
    <2>13. ASSUME NEW e, NEW m, EntryOf(ns, D, e, m)
           PROVE  e = SelectEntry(ns) /\ m = top
      <3>1. /\ e \in D /\ L(e) = m
            /\ \A i \in D : L(i) < m \/ (L(i) = m /\ e <= i)
        BY <1>2, <2>13 DEF EntryOf, L, D
      <3>2. m = top
        BY <2>1, <2>9, <3>1
      <3>3. e \in tops /\ e <= Least(tops) /\ Least(tops) <= e
        BY <2>1, <2>11, <3>1, <3>2
      <3>4. e \in Int /\ Least(tops) \in Int
        BY <2>1, <2>11, <3>3
      <3>5. QED
        BY <2>4, <3>2, <3>3, <3>4
    <2>14. QED
      BY <2>12, <2>13 DEF D, top
  <1>3. QED
    BY <1>1, <1>2

(***************************************************************************)
(* The inductive invariant: the graph between any two turns of a loop, the *)
(* entry point over the members that had it to choose from, and the locals *)
(* of the call under way, which must still name nodes the graph holds.     *)
(***************************************************************************)
Traversing == pc \in {"greedy", "search", "link"}

\* An insert considers its node as the entry when it ends.
Settled == IF Traversing /\ call.op = "insert" THEN DOMAIN nodes \ {call.id} ELSE DOMAIN nodes

Live(l) == {i \in DOMAIN nodes : l <= nodes[i].level}

CallType ==
    [op : {"insert", "remove", "query", None}, id : Ids \cup {None},
     vector : Vectors \cup Queries \cup {None}, level : 0..TopLevel, k : Nat,
     at : Ids \cup {None}, layer : 0..TopLevel, steps : Nat,
     search : [frontier : SUBSET Ids, visited : SUBSET Ids, results : SUBSET Ids],
     todo : SUBSET (Ids \X Ids \X (0..TopLevel))]

\* Before the graph grows: the node to insert is not in it.
ChangeOK ==
    pc \in {"relink", "add"} =>
        /\ call.op \in {"insert", "remove"}
        /\ call.id \in Ids \ DOMAIN nodes
        /\ call.op = "insert" => call.vector \in Vectors
        /\ pc = "add" => call.op = "insert"

\* The links still to make are between live nodes tall enough for them.
TodoOK ==
    pc \in {"relink", "link"} =>
        \A t \in call.todo : t[1] \in Live(t[3]) /\ t[2] \in Live(t[3])

WalkOK ==
    Traversing =>
        /\ call.op \in {"insert", "query"}
        /\ call.vector \in Vectors \cup Queries
        /\ call.at \in Live(call.layer)
        /\ pc = "greedy" => call.steps < Budget

InsertOK ==
    Traversing /\ call.op = "insert" =>
        /\ call.id \in DOMAIN nodes
        /\ DOMAIN nodes # {call.id}
        /\ call.level = nodes[call.id].level
        /\ pc \in {"search", "link"} => call.layer <= call.level

\* A query walks above the base and searches there.
QueryOK ==
    Traversing /\ call.op = "query" =>
        /\ call.k > 0
        /\ pc = "search" => call.layer = 0
        /\ pc = "greedy" => call.layer > 0
        /\ pc # "link"

\* What a search has visited it has looked around, and it drops none of its results.
SearchOK ==
    pc = "search" =>
        LET s == call.search
        IN  /\ s.frontier \subseteq Live(call.layer)
            /\ s.visited \subseteq Live(call.layer)
            /\ s.frontier \cap s.visited = {}
            /\ s.frontier \cup s.visited # {}
            /\ s.results = s.visited
            /\ Cardinality(s.visited) <= Budget
            /\ \A i \in s.visited : Around(i, call.layer) \subseteq s.frontier \cup s.visited

CallOK ==
    /\ pc \in {"idle", "relink", "add", "greedy", "search", "link"}
    /\ call \in CallType
    /\ pc = "idle" => call = Idle
    /\ answer # NoAnswer => pc = "idle"
    /\ ChangeOK
    /\ TodoOK
    /\ WalkOK
    /\ InsertOK
    /\ QueryOK
    /\ SearchOK

IInv ==
    /\ distance \in VectorDistance
    /\ GraphOK(nodes)
    /\ EntryOf(nodes, Settled, entry_point, max_level)
    /\ CallOK

LEMMA EmptyGraph ==
    ASSUME NEW ns, ns = [i \in {} |-> None]
    PROVE  GraphOK(ns)
PROOF
  <1>1. DOMAIN ns = {} /\ ns = [i \in DOMAIN ns |-> ns[i]]
    OBVIOUS
  <1>2. DOMAIN Backbone(ns) = {}
    BY <1>1 DEF Backbone
  <1>3. Ring(Backbone(ns))
    BY <1>2 DEF Ring, Symmetric, Connected
  <1>4. QED
    BY <1>1, <1>3 DEF GraphOK, NodesOK, LinksOK, DegreesOK

LEMMA IdleType == Idle \in CallType /\ DOMAIN Idle = {"op", "id", "vector", "level", "k",
    "at", "layer", "steps", "search", "todo"}
PROOF
  <1>1. 0 \in 0..TopLevel
    BY HnswAssumption
  <1>2. NoSearch \in [frontier : SUBSET Ids, visited : SUBSET Ids, results : SUBSET Ids]
    BY DEF NoSearch
  <1>3. QED
    BY <1>1, <1>2 DEF Idle, CallType

LEMMA InitIInv == Init => IInv
PROOF
  <1> SUFFICES ASSUME Init PROVE IInv
    OBVIOUS
  <1>1. GraphOK(nodes)
    BY EmptyGraph DEF Init
  <1>2. EntryOf(nodes, Settled, entry_point, max_level)
    BY DEF Init, EntryOf, Settled, Traversing
  <1>3. CallOK
    BY IdleType DEF Init, CallOK, ChangeOK, TodoOK, WalkOK, InsertOK, QueryOK, SearchOK, Traversing
  <1>4. QED
    BY <1>1, <1>2, <1>3 DEF Init, IInv

(***************************************************************************)
(* What the actions need of it.                                            *)
(***************************************************************************)
LEMMA GraphFacts ==
    ASSUME GraphOK(nodes)
    PROVE  /\ DOMAIN nodes \subseteq Ids /\ IsFiniteSet(DOMAIN nodes)
           /\ \A i \in DOMAIN nodes : /\ nodes[i].vector \in Vectors /\ nodes[i].vector \in Int
                                      /\ nodes[i].level \in 0..TopLevel /\ nodes[i].level \in Nat
                                      /\ i # None /\ i \in Int
           /\ \A l : Live(l) \subseteq DOMAIN nodes /\ Live(l) \subseteq Ids
           /\ Live(0) = DOMAIN nodes
PROOF
  <1>1. DOMAIN nodes \subseteq Ids /\ \A i \in DOMAIN nodes :
            /\ nodes[i].vector \in Vectors /\ nodes[i].vector \in Int
            /\ nodes[i].level \in 0..TopLevel /\ nodes[i].level \in Nat
    BY NodeFacts DEF GraphOK, NodesOK
  <1>2. IsFiniteSet(DOMAIN nodes) /\ \A i \in DOMAIN nodes : i # None /\ i \in Int
    BY <1>1, FS_Subset, HnswAssumption
  <1>3. \A l : Live(l) \subseteq DOMAIN nodes /\ Live(l) \subseteq Ids
    BY <1>1 DEF Live
  <1>4. Live(0) = DOMAIN nodes
    <2>1. \A i \in DOMAIN nodes : 0 <= nodes[i].level
      BY <1>1
    <2>2. QED
      BY <2>1 DEF Live
  <1>5. QED
    BY <1>1, <1>2, <1>3, <1>4

LEMMA AroundLive ==
    ASSUME GraphOK(nodes), NEW l \in 0..TopLevel, NEW i \in Live(l)
    PROVE  Around(i, l) \subseteq Live(l)
PROOF
  <1>1. i \in DOMAIN nodes /\ l \in 0..nodes[i].level
    BY GraphFacts DEF Live
  <1>2. nodes[i].neighbours[l] \subseteq Live(l)
    BY <1>1 DEF GraphOK, LinksOK, Live
  <1>3. nodes[i].backbone \subseteq DOMAIN nodes
    <2>1. Symmetric(Backbone(nodes))
      BY DEF GraphOK, Ring
    <2>2. QED
      BY <1>1, <2>1 DEF Symmetric, Backbone
  <1>4. QED
    BY <1>2, <1>3, GraphFacts DEF Around

LEMMA BudgetType ==
    ASSUME call \in CallType
    PROVE  /\ Budget \in Nat \ {0}
           /\ call.op = "query" => call.k <= Budget /\ 8 * m_neighbours <= Budget
PROOF
  <1>1. call.k \in Nat
    BY DEF CallType
  <1>2. QED
    BY <1>1, HnswAssumption DEF Budget, Max2

(***************************************************************************)
(* Each action keeps the invariant.                                        *)
(***************************************************************************)
\* The parts of the invariant that only a traversal has, when there is none.
LEMMA NotTraversing ==
    ASSUME pc \in {"idle", "relink", "add"}
    PROVE  WalkOK /\ InsertOK /\ QueryOK /\ SearchOK /\ Settled = DOMAIN nodes
PROOF
  BY DEF WalkOK, InsertOK, QueryOK, SearchOK, Settled, Traversing

\* A node goes, and the pairs of its neighbours are all still there.
LEMMA RemoveNodeFacts ==
    ASSUME IInv, pc = "idle", NEW id \in DOMAIN nodes, RemoveNode(id)
    PROVE  /\ GraphOK(nodes')
           /\ DOMAIN nodes' = DOMAIN nodes \ {id}
           /\ EntryOf(nodes', DOMAIN nodes', entry_point', max_level')
           /\ \A t \in Relinks(id) :
                /\ t \in Ids \X Ids \X (0..TopLevel)
                /\ t[1] \in DOMAIN nodes' /\ t[3] <= nodes'[t[1]].level
                /\ t[2] \in DOMAIN nodes' /\ t[3] <= nodes'[t[2]].level
PROOF
  <1>1. GraphOK(nodes) /\ EntryOf(nodes, DOMAIN nodes, entry_point, max_level)
    BY NotTraversing DEF IInv
  <1>2. /\ nodes' = Without(nodes, id)
        /\ \/ max_level' = HighestLevel(nodes') /\ entry_point' = SelectEntry(nodes')
           \/ id # entry_point /\ entry_point' = entry_point /\ max_level' = max_level
              /\ DOMAIN nodes' # {}
    BY DEF RemoveNode
  <1>3. /\ GraphOK(nodes')
        /\ DOMAIN nodes' = DOMAIN nodes \ {id}
        /\ \A i \in DOMAIN nodes' : nodes'[i].level = nodes[i].level
    BY <1>1, <1>2, WithoutFacts
  <1>4. EntryOf(nodes', DOMAIN nodes', entry_point', max_level')
    <2>1. CASE max_level' = HighestLevel(nodes') /\ entry_point' = SelectEntry(nodes')
      BY <1>3, <2>1, EntrySelected DEF GraphOK
    <2>2. CASE id # entry_point /\ entry_point' = entry_point /\ max_level' = max_level
               /\ DOMAIN nodes' # {}
      BY <1>1, <1>3, <2>2 DEF EntryOf
    <2>3. QED
      BY <1>2, <2>1, <2>2
  <1>5. ASSUME NEW t \in Relinks(id)
        PROVE  /\ t \in Ids \X Ids \X (0..TopLevel)
               /\ t[1] \in DOMAIN nodes' /\ t[3] <= nodes'[t[1]].level
               /\ t[2] \in DOMAIN nodes' /\ t[3] <= nodes'[t[2]].level
    <2>1. /\ t \in Ids \X Ids \X (0..TopLevel) /\ t[3] \in 0..TopLevel
          /\ t[3] <= nodes[id].level
          /\ t[1] \in nodes[id].neighbours[t[3]] /\ t[2] \in nodes[id].neighbours[t[3]]
      BY DEF Relinks
    <2>2. t[3] \in 0..nodes[id].level
      BY <1>1, <2>1, GraphFacts
    <2>3. \A j \in nodes[id].neighbours[t[3]] :
            j # id /\ j \in DOMAIN nodes /\ t[3] <= nodes[j].level
      BY <1>1, <2>2 DEF GraphOK, LinksOK
    <2>4. QED
      BY <1>3, <2>1, <2>3
  <1>6. QED
    BY <1>3, <1>4, <1>5

LEMMA RemoveKeeps ==
    ASSUME IInv, NEW id \in Ids, Remove(id)
    PROVE  IInv'
PROOF
  <1>1. /\ pc = "idle" /\ id \in DOMAIN nodes /\ RemoveNode(id)
        /\ pc' = "relink" /\ answer' = NoAnswer /\ distance' = distance
        /\ call' = [Started("remove") EXCEPT !.id = id, !.todo = Relinks(id)]
    BY DEF Remove
  <1>2. /\ GraphOK(nodes')
        /\ DOMAIN nodes' = DOMAIN nodes \ {id}
        /\ EntryOf(nodes', DOMAIN nodes', entry_point', max_level')
        /\ \A t \in Relinks(id) :
                /\ t \in Ids \X Ids \X (0..TopLevel)
                /\ t[1] \in DOMAIN nodes' /\ t[3] <= nodes'[t[1]].level
                /\ t[2] \in DOMAIN nodes' /\ t[3] <= nodes'[t[2]].level
    BY <1>1, RemoveNodeFacts
  <1>3. call' \in CallType /\ call'.op = "remove" /\ call'.id = id /\ call'.todo = Relinks(id)
    <2>1. Relinks(id) \in SUBSET (Ids \X Ids \X (0..TopLevel))
      BY <1>2
    <2>2. QED
      BY <1>1, <2>1, IdleType DEF Started, CallType
  <1>4. ChangeOK' /\ TodoOK'
    BY <1>1, <1>2, <1>3 DEF ChangeOK, TodoOK, Live
  <1>5. WalkOK' /\ InsertOK' /\ QueryOK' /\ SearchOK' /\ Settled' = DOMAIN nodes'
    BY <1>1 DEF WalkOK, InsertOK, QueryOK, SearchOK, Settled, Traversing
  <1>6. CallOK'
    BY <1>1, <1>3, <1>4, <1>5 DEF CallOK
  <1>7. QED
    BY <1>1, <1>2, <1>5, <1>6 DEF IInv

LEMMA InsertKeeps ==
    ASSUME IInv, NEW id \in Ids, NEW v \in Vectors, Insert(id, v)
    PROVE  IInv'
PROOF
  <1>1. CASE id \in DOMAIN nodes
    <2>1. /\ pc = "idle" /\ id \in DOMAIN nodes /\ RemoveNode(id)
          /\ pc' = "relink" /\ answer' = NoAnswer /\ distance' = distance
          /\ call' = [Started("insert") EXCEPT !.id = id, !.vector = v, !.todo = Relinks(id)]
      BY <1>1 DEF Insert
    <2>2. /\ GraphOK(nodes')
          /\ DOMAIN nodes' = DOMAIN nodes \ {id}
          /\ EntryOf(nodes', DOMAIN nodes', entry_point', max_level')
          /\ \A t \in Relinks(id) :
                /\ t \in Ids \X Ids \X (0..TopLevel)
                /\ t[1] \in DOMAIN nodes' /\ t[3] <= nodes'[t[1]].level
                /\ t[2] \in DOMAIN nodes' /\ t[3] <= nodes'[t[2]].level
      BY <2>1, RemoveNodeFacts
    <2>3. /\ call' \in CallType /\ call'.op = "insert" /\ call'.id = id
          /\ call'.vector = v /\ call'.todo = Relinks(id)
      <3>1. Relinks(id) \in SUBSET (Ids \X Ids \X (0..TopLevel))
        BY <2>2
      <3>2. QED
        BY <2>1, <3>1, IdleType DEF Started, CallType
    <2>4. ChangeOK' /\ TodoOK'
      BY <2>1, <2>2, <2>3 DEF ChangeOK, TodoOK, Live
    <2>5. WalkOK' /\ InsertOK' /\ QueryOK' /\ SearchOK' /\ Settled' = DOMAIN nodes'
      BY <2>1 DEF WalkOK, InsertOK, QueryOK, SearchOK, Settled, Traversing
    <2>6. CallOK'
      BY <2>1, <2>3, <2>4, <2>5 DEF CallOK
    <2>7. QED
      BY <2>1, <2>2, <2>5, <2>6 DEF IInv
  <1>2. CASE id \notin DOMAIN nodes
    <2>1. /\ pc = "idle" /\ pc' = "add" /\ answer' = NoAnswer
          /\ call' = [Started("insert") EXCEPT !.id = id, !.vector = v]
          /\ UNCHANGED <<distance, nodes, entry_point, max_level>>
      BY <1>2 DEF Insert, graph
    <2>2. call' \in CallType /\ call'.op = "insert" /\ call'.id = id /\ call'.vector = v
      BY <2>1, IdleType DEF Started, CallType
    <2>3. ChangeOK' /\ TodoOK'
      BY <1>2, <2>1, <2>2 DEF ChangeOK, TodoOK
    <2>4. WalkOK' /\ InsertOK' /\ QueryOK' /\ SearchOK' /\ Settled' = DOMAIN nodes'
      BY <2>1 DEF WalkOK, InsertOK, QueryOK, SearchOK, Settled, Traversing
    <2>5. CallOK'
      BY <2>1, <2>2, <2>3, <2>4 DEF CallOK
    <2>6. EntryOf(nodes, DOMAIN nodes, entry_point, max_level)
      BY <2>1, NotTraversing DEF IInv
    <2>7. QED
      BY <2>1, <2>4, <2>5, <2>6 DEF IInv
  <1>3. QED
    BY <1>1, <1>2

LEMMA TodoFinite ==
    ASSUME call \in CallType
    PROVE  IsFiniteSet(call.todo) /\ Cardinality(call.todo) \in Nat
PROOF
  <1> DEFINE Layers == 0..TopLevel
  <1> DEFINE Nested == (Ids \X Ids) \X Layers
  <1> DEFINE Triples == Ids \X Ids \X Layers
  <1> DEFINE f == [p \in Nested |-> <<p[1][1], p[1][2], p[2]>>]
  <1>1. IsFiniteSet(Ids) /\ IsFiniteSet(Layers)
    BY FS_Interval, HnswAssumption
  <1>2. IsFiniteSet(Ids \X Ids)
    BY <1>1, FS_Product
  <1>3. IsFiniteSet(Nested)
    BY <1>1, <1>2, FS_Product
  <1>4. f \in Surjection(Nested, Triples)
    <2>1. f \in [Nested -> Triples]
      OBVIOUS
    <2>2. ASSUME NEW t \in Triples PROVE \E p \in Nested : f[p] = t
      <3>1. <<<<t[1], t[2]>>, t[3]>> \in Nested
        OBVIOUS
      <3>2. f[<<<<t[1], t[2]>>, t[3]>>] = t
        BY <3>1
      <3>3. QED
        BY <3>1, <3>2
    <2>3. QED
      BY <2>1, <2>2 DEF Surjection
  <1>5. IsFiniteSet(Triples)
    <2> HIDE DEF f, Nested, Triples
    <2>1. QED
      BY <1>3, <1>4, FS_Surjection
  <1>6. call.todo \in SUBSET Triples
    BY DEF CallType
  <1>7. QED
    BY <1>5, <1>6, FS_Subset, FS_CardinalityType

LEMMA LinkNextKeeps ==
    ASSUME IInv, LinkNext
    PROVE  IInv' /\ call'.todo \subseteq call.todo /\ Cardinality(call'.todo) < Cardinality(call.todo)
PROOF
  <1>1. PICK t \in call.todo :
            /\ nodes' = Link(nodes, t[1], t[2], t[3])
            /\ call' = [call EXCEPT !.todo = @ \ {t}]
    BY DEF LinkNext
  <1>2. /\ pc \in {"relink", "link"}
        /\ UNCHANGED <<distance, entry_point, max_level, pc, answer>>
    BY DEF LinkNext
  <1>3. /\ distance \in VectorDistance /\ GraphOK(nodes) /\ CallOK
        /\ EntryOf(nodes, Settled, entry_point, max_level)
    BY DEF IInv
  <1>4. /\ call \in CallType /\ ChangeOK /\ TodoOK /\ WalkOK /\ InsertOK /\ QueryOK
        /\ answer = NoAnswer
    BY <1>2, <1>3 DEF CallOK
  <1>5. t \in Ids \X Ids \X (0..TopLevel) /\ t[3] \in 0..TopLevel
    BY <1>4 DEF CallType
  <1>6. /\ t[1] \in DOMAIN nodes /\ t[3] \in 0..nodes[t[1]].level
        /\ t[2] \in DOMAIN nodes /\ t[3] \in 0..nodes[t[2]].level
    <2>1. /\ t[1] \in DOMAIN nodes /\ t[3] <= nodes[t[1]].level
          /\ t[2] \in DOMAIN nodes /\ t[3] <= nodes[t[2]].level
      BY <1>2, <1>4 DEF TodoOK, Live
    <2>2. QED
      BY <1>3, <1>5, <2>1, GraphFacts
  <1>7. GraphOK(nodes') /\ SameButLinks(nodes, nodes')
    BY <1>1, <1>3, <1>6, LinkFacts
  <1>8. /\ DOMAIN nodes' = DOMAIN nodes
        /\ \A i \in DOMAIN nodes : nodes'[i].level = nodes[i].level
    BY <1>7 DEF SameButLinks
  <1>9. /\ call' \in CallType
        /\ call'.op = call.op /\ call'.id = call.id /\ call'.vector = call.vector
        /\ call'.level = call.level /\ call'.k = call.k /\ call'.at = call.at
        /\ call'.layer = call.layer /\ call'.steps = call.steps
        /\ call'.todo = call.todo \ {t}
    BY <1>1, <1>4 DEF CallType
  <1>10. Settled' = Settled /\ Settled \subseteq DOMAIN nodes
    BY <1>2, <1>8, <1>9 DEF Settled, Traversing
  <1>11. EntryOf(nodes', Settled', entry_point', max_level')
    <2>1. EntryOf(nodes', Settled, entry_point, max_level)
      BY <1>3, <1>8, <1>10 DEF EntryOf
    <2>2. QED
      BY <1>2, <1>10, <2>1
  <1>12. \A l : Live(l)' = Live(l)
    BY <1>8 DEF Live
  <1>13. ChangeOK'
    BY <1>2, <1>4, <1>8, <1>9 DEF ChangeOK
  <1>14. TodoOK'
    BY <1>2, <1>4, <1>9, <1>12 DEF TodoOK
  <1>15. WalkOK'
    <2>1. Traversing => /\ call.op \in {"insert", "query"}
                        /\ call.vector \in Vectors \cup Queries
                        /\ call.at \in Live(call.layer)
      BY <1>4 DEF WalkOK
    <2>2. Traversing' => Traversing
      BY <1>2 DEF Traversing
    <2>3. pc' # "greedy"
      BY <1>2
    <2>4. Live(call.layer)' = Live(call.layer)
      BY <1>8, <1>9 DEF Live
    <2>5. QED
      BY <1>9, <2>1, <2>2, <2>3, <2>4 DEF WalkOK
  <1>16. InsertOK' /\ QueryOK'
    BY <1>2, <1>4, <1>8, <1>9 DEF InsertOK, QueryOK, Traversing
  <1>17. SearchOK'
    BY <1>2 DEF SearchOK
  <1>18. CallOK'
    BY <1>2, <1>4, <1>9, <1>13, <1>14, <1>15, <1>16, <1>17 DEF CallOK
  <1>19. IInv'
    BY <1>2, <1>3, <1>7, <1>11, <1>18 DEF IInv
  <1>20. IsFiniteSet(call.todo)
    BY <1>4, TodoFinite
  <1>21. Cardinality(call.todo \ {t}) = Cardinality(call.todo) - 1 /\ Cardinality(call.todo) \in Nat
    BY <1>1, <1>20, FS_RemoveElement, FS_CardinalityType
  <1>22. QED
    BY <1>9, <1>19, <1>21

LEMMA RelinkedKeeps ==
    ASSUME IInv, Relinked
    PROVE  IInv'
PROOF
  <1>1. /\ pc = "relink"
        /\ \/ call.op = "insert" /\ pc' = "add" /\ call' = call
           \/ pc' = "idle" /\ call' = Idle
        /\ UNCHANGED <<distance, nodes, entry_point, max_level, answer>>
    BY DEF Relinked, Return, graph
  <1>2. /\ GraphOK(nodes) /\ distance \in VectorDistance
        /\ EntryOf(nodes, DOMAIN nodes, entry_point, max_level)
        /\ call \in CallType /\ ChangeOK /\ answer = NoAnswer
    BY <1>1, NotTraversing DEF IInv, CallOK
  <1>3. call' \in CallType
    BY <1>1, <1>2, IdleType
  <1>4. WalkOK' /\ InsertOK' /\ QueryOK' /\ SearchOK' /\ TodoOK' /\ Settled' = DOMAIN nodes'
    BY <1>1 DEF WalkOK, InsertOK, QueryOK, SearchOK, TodoOK, Settled, Traversing
  <1>5. ChangeOK'
    BY <1>1, <1>2 DEF ChangeOK
  <1>6. CallOK'
    BY <1>1, <1>2, <1>3, <1>4, <1>5 DEF CallOK
  <1>7. EntryOf(nodes', Settled', entry_point', max_level')
    BY <1>1, <1>2, <1>4
  <1>8. QED
    BY <1>1, <1>2, <1>6, <1>7 DEF IInv

\* The loop a descent comes to next, from a live node tall enough for it.
LEMMA Descended ==
    ASSUME NEW c \in CallType, NEW layer \in 0..TopLevel, NEW floor \in 0..TopLevel,
           Descend(c, layer, floor), answer' = NoAnswer, DOMAIN nodes' \subseteq Ids,
           c.op \in {"insert", "query"}, c.vector \in Vectors \cup Queries,
           c.at \in DOMAIN nodes', layer <= nodes'[c.at].level,
           c.op = "insert" => /\ c.id \in DOMAIN nodes' /\ DOMAIN nodes' # {c.id}
                              /\ c.level = nodes'[c.id].level /\ floor = c.level,
           c.op = "query" => c.k > 0 /\ floor = 0
    PROVE  /\ CallOK'
           /\ pc' \in {"greedy", "search"} /\ call'.op = c.op /\ call'.id = c.id
           /\ call'.layer = layer
PROOF
  <1>1. ASSUME layer > floor, pc' = "greedy", call' = [c EXCEPT !.layer = layer, !.steps = 0]
        PROVE  /\ CallOK'
               /\ pc' \in {"greedy", "search"} /\ call'.op = c.op /\ call'.id = c.id
               /\ call'.layer = layer
    <2>1. /\ call' \in CallType
          /\ call'.op = c.op /\ call'.id = c.id /\ call'.vector = c.vector
          /\ call'.level = c.level /\ call'.k = c.k /\ call'.at = c.at
          /\ call'.layer = layer /\ call'.steps = 0
      BY <1>1 DEF CallType
    <2>2. Budget' \in Nat \ {0}
      <3>1. call'.k \in Nat
        BY <2>1 DEF CallType
      <3>2. QED
        BY <3>1, HnswAssumption DEF Budget, Max2
    <2>3. WalkOK'
      BY <1>1, <2>1, <2>2 DEF WalkOK, Live
    <2>4. InsertOK' /\ QueryOK'
      BY <1>1, <2>1 DEF InsertOK, QueryOK
    <2>5. ChangeOK' /\ TodoOK' /\ SearchOK'
      BY <1>1 DEF ChangeOK, TodoOK, SearchOK
    <2>6. QED
      BY <1>1, <2>1, <2>3, <2>4, <2>5 DEF CallOK
  <1>2. ASSUME layer <= floor, pc' = "search",
               call' = [c EXCEPT !.layer = layer, !.search = SearchFrom(c.at)]
        PROVE  /\ CallOK'
               /\ pc' \in {"greedy", "search"} /\ call'.op = c.op /\ call'.id = c.id
               /\ call'.layer = layer
    <2>1. SearchFrom(c.at) \in [frontier : SUBSET Ids, visited : SUBSET Ids, results : SUBSET Ids]
      BY DEF SearchFrom
    <2>2. /\ call' \in CallType
          /\ call'.op = c.op /\ call'.id = c.id /\ call'.vector = c.vector
          /\ call'.level = c.level /\ call'.k = c.k /\ call'.at = c.at
          /\ call'.layer = layer /\ call'.search = SearchFrom(c.at)
      BY <1>2, <2>1 DEF CallType
    <2>3. WalkOK'
      BY <1>2, <2>2 DEF WalkOK, Live
    <2>4. InsertOK' /\ QueryOK'
      BY <1>2, <2>2 DEF InsertOK, QueryOK
    <2>5. ChangeOK' /\ TodoOK'
      BY <1>2 DEF ChangeOK, TodoOK
    <2>6. SearchOK'
      <3>1. Budget' \in Nat \ {0}
        <4>1. call'.k \in Nat
          BY <2>2 DEF CallType
        <4>2. QED
          BY <4>1, HnswAssumption DEF Budget, Max2
      <3>2. /\ call'.search.frontier = {c.at} /\ call'.search.visited = {}
            /\ call'.search.results = {}
        BY <2>2 DEF SearchFrom
      <3>3. c.at \in Live(call.layer)'
        BY <2>2 DEF Live
      <3>4. Cardinality({}) = 0
        BY FS_EmptySet
      <3>5. QED
        BY <3>1, <3>2, <3>3, <3>4 DEF SearchOK
    <2>7. QED
      BY <1>2, <2>2, <2>3, <2>4, <2>5, <2>6 DEF CallOK
  <1>3. QED
    BY <1>1, <1>2 DEF Descend

LEMMA EntryFacts ==
    ASSUME GraphOK(nodes), NEW S \in SUBSET DOMAIN nodes, NEW e, NEW m, EntryOf(nodes, S, e, m)
    PROVE  /\ m \in 0..TopLevel
           /\ e = None <=> S = {}
           /\ e # None => e \in S /\ nodes[e].level = m
PROOF
  BY GraphFacts, HnswAssumption DEF EntryOf

LEMMA AddNodeKeeps ==
    ASSUME IInv, AddNode
    PROVE  IInv'
PROOF
  <1>1. pc = "add" /\ UNCHANGED <<distance, answer>>
    BY DEF AddNode
  <1>2. /\ GraphOK(nodes) /\ distance \in VectorDistance
        /\ EntryOf(nodes, DOMAIN nodes, entry_point, max_level)
        /\ call \in CallType /\ ChangeOK /\ answer = NoAnswer
    BY <1>1, NotTraversing DEF IInv, CallOK
  <1>3. call.op = "insert" /\ call.id \in Ids \ DOMAIN nodes /\ call.vector \in Vectors
    BY <1>1, <1>2 DEF ChangeOK
  <1> DEFINE id == call.id
  <1> DEFINE gs(level) == [i \in DOMAIN nodes \cup {id} |->
                            IF i = id THEN NewNode(call.vector, level) ELSE nodes[i]]
  <1>4. PICK level \in 0..TopLevel :
            \/ /\ entry_point = None
               /\ nodes' = gs(level)
               /\ entry_point' = id
               /\ max_level' = level
               /\ Return
            \/ /\ entry_point # None
               /\ nodes' = Splice(gs(level), id, entry_point)
               /\ Descend([call EXCEPT !.level = level, !.at = entry_point], max_level, level)
               /\ UNCHANGED <<entry_point, max_level>>
    BY DEF AddNode
  <1> DEFINE grown == gs(level)
  <1>5. /\ DOMAIN grown = DOMAIN nodes \cup {id}
        /\ grown = [i \in DOMAIN grown |-> grown[i]]
        /\ grown[id] = NewNode(call.vector, level)
        /\ \A i \in DOMAIN nodes : grown[i] = nodes[i]
    BY <1>3
  <1>6. /\ \/ /\ entry_point = None
              /\ nodes' = grown
              /\ entry_point' = id
              /\ max_level' = level
              /\ Return
           \/ /\ entry_point # None
              /\ nodes' = Splice(grown, id, entry_point)
              /\ Descend([call EXCEPT !.level = level, !.at = entry_point], max_level, level)
              /\ UNCHANGED <<entry_point, max_level>>
    BY <1>4
  <1> HIDE DEF grown, gs, id
  <1>7. id = call.id /\ id \in Ids \ DOMAIN nodes /\ call.vector \in Vectors
    BY <1>3 DEF id
  <1>8. /\ NodesOK(grown) /\ LinksOK(grown) /\ DegreesOK(grown)
        /\ grown[id].vector = call.vector /\ grown[id].level = level
        /\ grown[id].backbone = {}
    BY <1>2, <1>5, <1>7, GrownFacts
  <1>9. /\ max_level \in 0..TopLevel
        /\ entry_point = None <=> DOMAIN nodes = {}
        /\ entry_point # None => entry_point \in DOMAIN nodes /\ nodes[entry_point].level = max_level
    BY <1>2, EntryFacts
  <1>10. CASE entry_point = None
    <2>1. /\ nodes' = grown /\ entry_point' = id /\ max_level' = level
          /\ pc' = "idle" /\ call' = Idle
      BY <1>6, <1>10 DEF Return
    <2>2. DOMAIN nodes' = {id} /\ nodes'[id].level = level /\ nodes'[id].backbone = {}
      BY <1>5, <1>8, <1>9, <1>10, <2>1
    <2>3. DOMAIN Backbone(nodes') = {id} /\ Backbone(nodes')[id] = {}
      BY <2>2 DEF Backbone
    <2>4. GraphOK(nodes')
      BY <1>8, <2>1, <2>3, RingOfOne DEF GraphOK
    <2>5. level \in Int /\ id \in Int
      <3>1. id \in Ids
        BY <1>7
      <3>2. QED
        BY <3>1, HnswAssumption
    <2>6. EntryOf(nodes', DOMAIN nodes', entry_point', max_level')
      BY <2>1, <2>2, <2>5 DEF EntryOf
    <2>7. CallOK'
      BY <1>1, <1>2, <2>1, IdleType
         DEF CallOK, ChangeOK, TodoOK, WalkOK, InsertOK, QueryOK, SearchOK, Traversing
    <2>8. Settled' = DOMAIN nodes'
      BY <2>1 DEF Settled, Traversing
    <2>9. QED
      BY <1>1, <1>2, <2>4, <2>6, <2>7, <2>8 DEF IInv
  <1>11. CASE entry_point # None
    <2> DEFINE c == [call EXCEPT !.level = level, !.at = entry_point]
    <2>1. /\ nodes' = Splice(grown, id, entry_point)
          /\ Descend(c, max_level, level)
          /\ UNCHANGED <<entry_point, max_level>>
      BY <1>6, <1>11
    <2>2. /\ c \in CallType /\ c.op = "insert" /\ c.id = id /\ c.vector = call.vector
          /\ c.level = level /\ c.at = entry_point
      <3>1. entry_point \in Ids
        BY <1>2, <1>9, <1>11, GraphFacts
      <3>2. QED
        BY <1>2, <1>3, <1>7, <3>1 DEF CallType
    <2> HIDE DEF c
    <2>3. entry_point \in DOMAIN nodes /\ nodes[entry_point].level = max_level
      BY <1>9, <1>11
    <2> DEFINE B == Backbone(nodes)
    <2>4. /\ Ring(B) /\ DOMAIN B = DOMAIN nodes
          /\ \A i \in DOMAIN B : grown[i].backbone = B[i]
      BY <1>2, <1>5 DEF GraphOK, Backbone
    <2> HIDE DEF B
    <2>5. NodesOK(nodes') /\ SameButBackbone(grown, nodes') /\ Ring(Backbone(nodes'))
      <3>1. /\ id \in DOMAIN grown /\ id \notin DOMAIN B /\ DOMAIN grown = DOMAIN B \cup {id}
            /\ entry_point \in DOMAIN B
        BY <1>5, <1>7, <2>3, <2>4
      <3>2. QED
        BY <1>8, <2>1, <2>4, <3>1, SpliceFacts
    <2>6. GraphOK(nodes')
      BY <1>8, <2>5, LinksUnderBackbone DEF GraphOK
    <2>7. /\ DOMAIN nodes' = DOMAIN nodes \cup {id}
          /\ nodes'[id].level = level
          /\ \A i \in DOMAIN nodes : nodes'[i].level = nodes[i].level
      BY <1>5, <1>8, <2>5 DEF SameButBackbone
    <2>8. DOMAIN nodes' \subseteq Ids /\ entry_point \in DOMAIN nodes'
          /\ nodes'[entry_point].level = max_level /\ DOMAIN nodes' # {id}
      BY <1>7, <2>3, <2>5, <2>7 DEF NodesOK
    <2>9. /\ CallOK'
          /\ pc' \in {"greedy", "search"} /\ call'.op = "insert" /\ call'.id = id
      <3>1. max_level <= nodes'[entry_point].level
        BY <1>9, <2>8
      <3>2. answer' = NoAnswer /\ id \in DOMAIN nodes'
        BY <1>1, <1>2, <2>7
      <3>3. QED
        BY <1>7, <1>9, <2>1, <2>2, <2>7, <2>8, <3>1, <3>2, Descended
    <2>10. Settled' = DOMAIN nodes
      BY <1>7, <2>7, <2>9 DEF Settled, Traversing
    <2>11. EntryOf(nodes', DOMAIN nodes, entry_point', max_level')
      BY <1>2, <2>1, <2>7 DEF EntryOf
    <2>12. QED
      BY <1>1, <1>2, <2>6, <2>9, <2>10, <2>11 DEF IInv
  <1>12. QED
    BY <1>10, <1>11

LEMMA QueryKeeps ==
    ASSUME IInv, NEW v \in Queries, NEW k \in Answers, Query(v, k)
    PROVE  IInv'
PROOF
  <1>1. pc = "idle" /\ UNCHANGED <<distance, nodes, entry_point, max_level>>
    BY DEF Query, graph
  <1>2. /\ GraphOK(nodes) /\ distance \in VectorDistance
        /\ EntryOf(nodes, DOMAIN nodes, entry_point, max_level)
        /\ call \in CallType /\ CallOK
    BY <1>1, NotTraversing DEF IInv, CallOK
  <1>3. CASE UNCHANGED <<pc, call>>
    <2>1. Settled' = DOMAIN nodes'
      BY <1>1, <1>3 DEF Settled, Traversing
    <2>2. CallOK'
      BY <1>1, <1>2, <1>3
         DEF CallOK, ChangeOK, TodoOK, WalkOK, InsertOK, QueryOK, SearchOK, Traversing
    <2>3. QED
      BY <1>1, <1>2, <2>1, <2>2 DEF IInv
  <1>4. ASSUME k > 0, entry_point # None, answer' = NoAnswer,
               Descend([Started("query") EXCEPT !.vector = v, !.k = k, !.at = entry_point],
                       max_level, 0)
        PROVE  IInv'
    <2> DEFINE c == [Started("query") EXCEPT !.vector = v, !.k = k, !.at = entry_point]
    <2>1. /\ max_level \in 0..TopLevel
          /\ entry_point \in DOMAIN nodes /\ nodes[entry_point].level = max_level
          /\ DOMAIN nodes \subseteq Ids
      BY <1>2, <1>4, EntryFacts, GraphFacts
    <2>2. /\ c \in CallType /\ c.op = "query" /\ c.vector = v /\ c.k = k /\ c.at = entry_point
      <3>1. v \in Vectors \cup Queries \cup {None} /\ k \in Nat /\ entry_point \in Ids \cup {None}
        BY <2>1, HnswAssumption
      <3>2. QED
        BY <3>1, IdleType DEF Started, CallType
    <2>3. Descend(c, max_level, 0)
      BY <1>4
    <2> HIDE DEF c
    <2>4. 0 \in 0..TopLevel /\ max_level <= nodes'[c.at].level /\ c.at \in DOMAIN nodes'
          /\ DOMAIN nodes' \subseteq Ids
      BY <1>1, <2>1, <2>2, HnswAssumption
    <2>5. /\ CallOK'
          /\ pc' \in {"greedy", "search"} /\ call'.op = "query"
      BY <1>4, <2>1, <2>2, <2>3, <2>4, Descended
    <2>6. Settled' = DOMAIN nodes'
      BY <2>5 DEF Settled
    <2>7. QED
      BY <1>1, <1>2, <2>5, <2>6 DEF IInv
  <1>5. QED
    BY <1>3, <1>4 DEF Query

LEMMA SearchFacts ==
    ASSUME IInv, pc = "search"
    PROVE  /\ call.search \in [frontier : SUBSET Ids, visited : SUBSET Ids, results : SUBSET Ids]
           /\ call.layer \in 0..TopLevel /\ call.vector \in Int
           /\ call.search.frontier \subseteq Live(call.layer)
           /\ call.search.visited \subseteq Live(call.layer)
           /\ call.search.frontier \cap call.search.visited = {}
           /\ call.search.frontier \cup call.search.visited # {}
           /\ call.search.results = call.search.visited
           /\ IsFiniteSet(call.search.visited) /\ Cardinality(call.search.visited) \in Nat
           /\ Cardinality(call.search.visited) <= Budget
           /\ \A i \in call.search.visited :
                Around(i, call.layer) \subseteq call.search.frontier \cup call.search.visited
PROOF
  <1>1. GraphOK(nodes) /\ call \in CallType /\ WalkOK /\ SearchOK
    BY DEF IInv, CallOK
  <1>2. call.vector \in Int
    BY <1>1, HnswAssumption DEF WalkOK, Traversing
  <1>3. call.search \in [frontier : SUBSET Ids, visited : SUBSET Ids, results : SUBSET Ids]
        /\ call.layer \in 0..TopLevel
    BY <1>1 DEF CallType
  <1>4. call.search.visited \in SUBSET Ids
    BY <1>3
  <1>5. IsFiniteSet(call.search.visited) /\ Cardinality(call.search.visited) \in Nat
    BY <1>4, HnswAssumption, FS_Subset, FS_CardinalityType
  <1>6. QED
    BY <1>1, <1>2, <1>3, <1>5 DEF SearchOK

\* A search stops only when it has seen all it can reach, or as much as it may: its
\* results are all of what it visited, so none is dropped for being too far.
LEMMA SearchStops ==
    ASSUME IInv, pc = "search", ~ SearchGoesOn
    PROVE  call.search.frontier = {} \/ Cardinality(call.search.visited) = Budget
PROOF
  <1> SUFFICES ASSUME call.search.frontier # {}, Cardinality(call.search.visited) # Budget
               PROVE  FALSE
    OBVIOUS
  <1>1. distance \in VectorDistance /\ GraphOK(nodes) /\ call \in CallType
    BY DEF IInv, CallOK
  <1>2. Cardinality(call.search.visited) < Budget /\ ~ (Cardinality(call.search.results) >= Budget)
    BY <1>1, SearchFacts, BudgetType
  <1>3. call.search.frontier \in SUBSET Ids /\ \A i \in call.search.frontier : nodes[i].vector \in Int
    BY <1>1, SearchFacts, GraphFacts
  <1>4. Closest(nodes, call.vector, call.search.frontier, 1) # {}
    <2>1. distance \in VectorDistance /\ call.vector \in Int
      BY <1>1, SearchFacts
    <2>2. 1 \in Nat /\ 1 > 0
      OBVIOUS
    <2> DEFINE v == call.vector
    <2> DEFINE S == call.search.frontier
    <2>3. v \in Int /\ S \in SUBSET Ids /\ S # {} /\ \A i \in S : nodes[i].vector \in Int
      BY <1>3, <2>1
    <2> HIDE DEF v, S
    <2>4. Closest(nodes, v, S, 1) # {}
      BY <2>1, <2>2, <2>3, ClosestFacts
    <2>5. QED
      BY <2>4 DEF v, S
  <1>5. PICK next : next \in Closest(nodes, call.vector, call.search.frontier, 1)
    BY <1>4
  <1>6. SearchGoesOn
    BY <1>2, <1>5 DEF SearchGoesOn
  <1>7. QED
    BY <1>6

LEMMA SearchKeeps ==
    ASSUME IInv, Search
    PROVE  /\ IInv'
           /\ pc' = "search" /\ call'.op = call.op /\ call'.k = call.k /\ call'.layer = call.layer
           /\ Cardinality(call.search.visited) < Budget
           /\ Cardinality(call'.search.visited) = Cardinality(call.search.visited) + 1
PROOF
  <1>1. /\ pc = "search" /\ SearchGoesOn
        /\ UNCHANGED <<distance, nodes, entry_point, max_level, pc, answer>>
    BY DEF Search, graph
  <1>2. /\ distance \in VectorDistance /\ GraphOK(nodes)
        /\ EntryOf(nodes, Settled, entry_point, max_level)
        /\ call \in CallType /\ CallOK /\ WalkOK /\ InsertOK /\ QueryOK /\ answer = NoAnswer
    BY <1>1 DEF IInv, CallOK
  <1> DEFINE s == call.search
  <1> DEFINE l == call.layer
  <1>3. /\ s \in [frontier : SUBSET Ids, visited : SUBSET Ids, results : SUBSET Ids]
        /\ l \in 0..TopLevel /\ call.vector \in Int
        /\ s.frontier \subseteq Live(l) /\ s.visited \subseteq Live(l)
        /\ s.frontier \cap s.visited = {}
        /\ s.results = s.visited
        /\ IsFiniteSet(s.visited) /\ Cardinality(s.visited) \in Nat
        /\ \A i \in s.visited : Around(i, l) \subseteq s.frontier \cup s.visited
    BY <1>1, SearchFacts
  <1>4. Cardinality(s.visited) < Budget /\ Budget \in Nat
    BY <1>1, <1>2, BudgetType DEF SearchGoesOn
  <1>5. PICK next \in Closest(nodes, call.vector, s.frontier, 1) :
            call' = [call EXCEPT !.search =
                [frontier |-> ((s.frontier \ {next}) \cup Around(next, l)) \ (s.visited \cup {next}),
                 visited  |-> s.visited \cup {next},
                 results  |-> Closest(nodes, call.vector, s.results \cup {next}, Budget)]]
    BY DEF Search
  <1>6. Live(l) \subseteq Ids /\ \A i \in Live(l) : nodes[i].vector \in Int
    BY <1>2, GraphFacts
  <1>7. next \in s.frontier /\ next \in Live(l) /\ next \notin s.visited
    <2>1. s.frontier \in SUBSET Ids /\ \A i \in s.frontier : nodes[i].vector \in Int
      BY <1>3, <1>6
    <2> DEFINE v == call.vector
    <2> DEFINE S == s.frontier
    <2>2. v \in Int /\ distance \in VectorDistance /\ 1 \in Nat
          /\ S \in SUBSET Ids /\ \A i \in S : nodes[i].vector \in Int
      BY <1>2, <1>3, <2>1
    <2> HIDE DEF v, S
    <2>3. Closest(nodes, v, S, 1) \subseteq S
      BY <2>2, ClosestFacts
    <2>4. QED
      BY <1>3, <2>3 DEF v, S
  <1> DEFINE visited == s.visited \cup {next}
  <1>8. Cardinality(visited) = Cardinality(s.visited) + 1 /\ visited \subseteq Live(l)
    <2> DEFINE V == s.visited
    <2>1. IsFiniteSet(V) /\ next \notin V
      BY <1>3, <1>7
    <2> HIDE DEF V
    <2>2. Cardinality(V \cup {next}) = Cardinality(V) + 1
      BY <2>1, FS_AddElement
    <2>3. visited \subseteq Live(l)
      BY <1>3, <1>7
    <2>4. QED
      BY <2>2, <2>3 DEF V
  <1>9. Closest(nodes, call.vector, visited, Budget) = visited
    <2>1. visited \in SUBSET Ids /\ \A i \in visited : nodes[i].vector \in Int
      BY <1>6, <1>8
    <2>2. Cardinality(visited) <= Budget
      BY <1>3, <1>4, <1>8
    <2> DEFINE v == call.vector
    <2> DEFINE n == Budget
    <2>3. distance \in VectorDistance /\ v \in Int /\ n \in Nat /\ visited \in SUBSET Ids
          /\ (\A i \in visited : nodes[i].vector \in Int) /\ Cardinality(visited) <= n
      BY <1>2, <1>3, <1>4, <2>1, <2>2
    <2> HIDE DEF visited, v, n
    <2>4. Closest(nodes, v, visited, n) = visited
      BY <2>3, ClosestFacts
    <2>5. QED
      BY <2>4 DEF v, n
  <1>10. Around(next, l) \subseteq Live(l)
    BY <1>2, <1>3, <1>7, AroundLive
  <1> DEFINE frontier == ((s.frontier \ {next}) \cup Around(next, l)) \ visited
  <1>11. /\ frontier \subseteq Live(l) /\ visited \subseteq Live(l)
         /\ frontier \cap visited = {} /\ frontier \cup visited # {}
         /\ \A i \in visited : Around(i, l) \subseteq frontier \cup visited
    BY <1>3, <1>7, <1>8, <1>10
  <1>12. call' = [call EXCEPT !.search =
                    [frontier |-> frontier, visited |-> visited, results |-> visited]]
    BY <1>3, <1>5, <1>9
  <1> HIDE DEF s, l, frontier, visited
  <1>13. /\ call' \in CallType
         /\ call'.op = call.op /\ call'.id = call.id /\ call'.vector = call.vector
         /\ call'.level = call.level /\ call'.k = call.k /\ call'.at = call.at
         /\ call'.layer = l
         /\ call'.search.frontier = frontier /\ call'.search.visited = visited
         /\ call'.search.results = visited
    <2>1. [frontier |-> frontier, visited |-> visited, results |-> visited]
            \in [frontier : SUBSET Ids, visited : SUBSET Ids, results : SUBSET Ids]
      BY <1>6, <1>11
    <2>2. QED
      BY <1>2, <1>12, <2>1 DEF CallType, l
  <1>14. Budget' = Budget /\ Live(l)' = Live(l) /\ \A i : Around(i, l)' = Around(i, l)
    BY <1>1, <1>13 DEF Budget, Live, Around, l
  <1>15. SearchOK'
    <2>1. Live(call.layer)' = Live(l) /\ \A i : Around(i, call.layer)' = Around(i, l)
      BY <1>1, <1>13 DEF Live, Around
    <2>2. Cardinality(visited) <= Budget
      BY <1>3, <1>4, <1>8
    <2>3. QED
      BY <1>11, <1>13, <1>14, <2>1, <2>2 DEF SearchOK
  <1>16. WalkOK'
    BY <1>1, <1>2, <1>13 DEF WalkOK, Traversing, Live, l
  <1>17. InsertOK' /\ QueryOK' /\ ChangeOK' /\ TodoOK' /\ Settled' = Settled
    BY <1>1, <1>2, <1>13 DEF InsertOK, QueryOK, ChangeOK, TodoOK, Settled, Traversing, l
  <1>18. CallOK'
    BY <1>1, <1>2, <1>13, <1>15, <1>16, <1>17 DEF CallOK
  <1>19. IInv'
    BY <1>1, <1>2, <1>17, <1>18 DEF IInv
  <1>20. QED
    BY <1>1, <1>4, <1>8, <1>13, <1>19 DEF s, l


\* One turn of a greedy walk goes to a node of the layer, or stays.
LEMMA NextLive ==
    ASSUME IInv, pc = "greedy",
           NEW next \in Closest(nodes, call.vector, {call.at} \cup Around(call.at, call.layer), 1)
    PROVE  next \in Live(call.layer)
PROOF
  <1>1. /\ distance \in VectorDistance /\ GraphOK(nodes)
        /\ call \in CallType /\ WalkOK
    BY DEF IInv, CallOK
  <1>2. call.at \in Live(call.layer) /\ call.layer \in 0..TopLevel /\ call.vector \in Int
    BY <1>1, HnswAssumption DEF WalkOK, Traversing, CallType
  <1> DEFINE v == call.vector
  <1> DEFINE S == {call.at} \cup Around(call.at, call.layer)
  <1>3. S \subseteq Live(call.layer)
    BY <1>1, <1>2, AroundLive
  <1>4. /\ distance \in VectorDistance /\ v \in Int /\ 1 \in Nat
        /\ S \in SUBSET Ids /\ \A i \in S : nodes[i].vector \in Int
    BY <1>1, <1>2, <1>3, GraphFacts
  <1>5. next \in Closest(nodes, v, S, 1)
    OBVIOUS
  <1> HIDE DEF v, S
  <1>6. Closest(nodes, v, S, 1) \subseteq S
    BY <1>4, ClosestFacts
  <1>7. QED
    BY <1>3, <1>5, <1>6

\* consider_new_entry: the entry point is again the one of all members.
LEMMA FinishKeeps ==
    ASSUME IInv, pc = "greedy", call.op = "insert", FinishInsert, UNCHANGED <<distance, answer>>
    PROVE  IInv'
PROOF
  <1>1. /\ \/ /\ IsNewEntry(call.id, call.level)
              /\ entry_point' = call.id
              /\ max_level' = call.level
           \/ /\ ~ IsNewEntry(call.id, call.level)
              /\ UNCHANGED <<entry_point, max_level>>
        /\ pc' = "idle" /\ call' = Idle
        /\ UNCHANGED <<distance, nodes, answer>>
    BY DEF FinishInsert, Return
  <1>2. /\ GraphOK(nodes) /\ distance \in VectorDistance /\ InsertOK /\ answer = NoAnswer
        /\ EntryOf(nodes, DOMAIN nodes \ {call.id}, entry_point, max_level)
    BY DEF IInv, CallOK, Settled, Traversing
  <1>3. /\ call.id \in DOMAIN nodes /\ DOMAIN nodes # {call.id}
        /\ call.level = nodes[call.id].level
    BY <1>2 DEF InsertOK, Traversing
  <1>4. /\ call.id \in Int /\ \A i \in DOMAIN nodes : i # None /\ i \in Int /\ nodes[i].level \in Nat
    BY <1>2, <1>3, GraphFacts
  <1>5. /\ entry_point \in DOMAIN nodes /\ nodes[entry_point].level = max_level
        /\ \A i \in DOMAIN nodes \ {call.id} :
            nodes[i].level < max_level \/ (nodes[i].level = max_level /\ entry_point <= i)
    BY <1>2, <1>3 DEF EntryOf
  <1>6. /\ entry_point' \in DOMAIN nodes /\ nodes[entry_point'].level = max_level'
        /\ \A i \in DOMAIN nodes :
            nodes[i].level < max_level' \/ (nodes[i].level = max_level' /\ entry_point' <= i)
    BY <1>1, <1>3, <1>4, <1>5 DEF IsNewEntry
  <1>7. EntryOf(nodes', Settled', entry_point', max_level')
    BY <1>1, <1>6 DEF EntryOf, Settled, Traversing
  <1>8. CallOK'
    BY <1>1, <1>2, IdleType
       DEF CallOK, ChangeOK, TodoOK, WalkOK, InsertOK, QueryOK, SearchOK, Traversing
  <1>9. QED
    BY <1>1, <1>2, <1>7, <1>8 DEF IInv

LEMMA GreedyKeeps ==
    ASSUME IInv, Greedy
    PROVE  /\ IInv'
           /\ \/ /\ pc' = "greedy" /\ call'.op = call.op /\ call'.k = call.k
                 /\ call'.layer = call.layer /\ call'.steps = call.steps + 1
                 /\ call'.steps < Budget
              \/ pc' \in {"greedy", "search"} /\ call'.layer = call.layer - 1
              \/ pc' = "idle"
PROOF
  <1>1. pc = "greedy" /\ UNCHANGED <<distance, answer>>
    BY DEF Greedy
  <1>2. /\ distance \in VectorDistance /\ GraphOK(nodes)
        /\ EntryOf(nodes, Settled, entry_point, max_level)
        /\ call \in CallType /\ CallOK /\ WalkOK /\ InsertOK /\ QueryOK /\ answer = NoAnswer
    BY <1>1 DEF IInv, CallOK
  <1>3. /\ call.layer \in 0..TopLevel /\ call.level \in 0..TopLevel /\ call.steps \in Nat
        /\ call.op \in {"insert", "query"} /\ call.vector \in Vectors \cup Queries
    BY <1>1, <1>2 DEF CallType, WalkOK, Traversing
  <1>4. PICK next \in Closest(nodes, call.vector, {call.at} \cup Around(call.at, call.layer), 1) :
        \/ /\ next # call.at
           /\ call.steps + 1 < Budget
           /\ call' = [call EXCEPT !.at = next, !.steps = @ + 1]
           /\ UNCHANGED <<pc, graph>>
        \/ /\ next = call.at \/ call.steps + 1 >= Budget
           /\ \/ /\ call.layer > 0
                 /\ Descend([call EXCEPT !.at = next], call.layer - 1,
                            IF call.op = "query" THEN 0 ELSE call.level)
                 /\ UNCHANGED graph
              \/ /\ call.layer = 0
                 /\ FinishInsert
    BY Zenon DEF Greedy
  <1>5. next \in Live(call.layer) /\ next \in Ids
    BY <1>1, <1>2, NextLive, GraphFacts
  <1>6. ASSUME call.steps + 1 < Budget, call' = [call EXCEPT !.at = next, !.steps = @ + 1],
               UNCHANGED <<pc, graph>>
        PROVE  /\ IInv'
               /\ pc' = "greedy" /\ call'.op = call.op /\ call'.k = call.k
               /\ call'.layer = call.layer /\ call'.steps = call.steps + 1
               /\ call'.steps < Budget
    <2>1. /\ call' \in CallType
          /\ call'.op = call.op /\ call'.id = call.id /\ call'.vector = call.vector
          /\ call'.level = call.level /\ call'.k = call.k /\ call'.at = next
          /\ call'.layer = call.layer /\ call'.steps = call.steps + 1
      <3> DEFINE steps == call.steps + 1
      <3>1. steps \in Nat /\ call' = [call EXCEPT !.at = next, !.steps = steps]
        BY <1>2, <1>3, <1>6 DEF CallType
      <3> HIDE DEF steps
      <3>2. /\ call' \in CallType
            /\ call'.op = call.op /\ call'.id = call.id /\ call'.vector = call.vector
            /\ call'.level = call.level /\ call'.k = call.k /\ call'.at = next
            /\ call'.layer = call.layer /\ call'.steps = steps
        BY <1>2, <1>5, <3>1 DEF CallType
      <3>3. QED
        BY <3>2 DEF steps
    <2>2. UNCHANGED <<nodes, entry_point, max_level, pc>>
      BY <1>6 DEF graph
    <2>3. Budget' = Budget /\ Live(call.layer)' = Live(call.layer)
      BY <2>1, <2>2 DEF Budget, Live
    <2>4. WalkOK'
      BY <1>1, <1>3, <1>5, <1>6, <2>1, <2>2, <2>3 DEF WalkOK
    <2>5. InsertOK' /\ QueryOK' /\ Settled' = Settled
      BY <1>1, <1>2, <2>1, <2>2 DEF InsertOK, QueryOK, Settled, Traversing
    <2>6. ChangeOK' /\ TodoOK' /\ SearchOK'
      BY <1>1, <2>2 DEF ChangeOK, TodoOK, SearchOK
    <2>7. CallOK'
      BY <1>1, <1>2, <2>1, <2>2, <2>4, <2>5, <2>6 DEF CallOK
    <2>8. IInv'
      BY <1>1, <1>2, <2>2, <2>5, <2>7 DEF IInv
    <2>9. QED
      BY <1>1, <1>6, <2>1, <2>2, <2>8
  <1>7. ASSUME call.layer > 0,
               Descend([call EXCEPT !.at = next], call.layer - 1,
                       IF call.op = "query" THEN 0 ELSE call.level),
               UNCHANGED graph
        PROVE  IInv' /\ pc' \in {"greedy", "search"} /\ call'.layer = call.layer - 1
    <2> DEFINE c == [call EXCEPT !.at = next]
    <2> DEFINE floor == IF call.op = "query" THEN 0 ELSE call.level
    <2> DEFINE layer == call.layer - 1
    <2>1. /\ c \in CallType /\ c.op = call.op /\ c.id = call.id /\ c.vector = call.vector
          /\ c.level = call.level /\ c.k = call.k /\ c.at = next
      BY <1>2, <1>5 DEF CallType
    <2>2. Descend(c, layer, floor)
      BY <1>7
    <2>3. /\ floor \in 0..TopLevel /\ layer \in 0..TopLevel
          /\ call.op = "query" => floor = 0
          /\ call.op = "insert" => floor = call.level
      BY <1>3, <1>7, HnswAssumption
    <2> HIDE DEF c, floor
    <2>4. UNCHANGED <<nodes, entry_point, max_level>>
      BY <1>7 DEF graph
    <2>5. next \in DOMAIN nodes' /\ layer <= nodes'[next].level /\ DOMAIN nodes' \subseteq Ids
      BY <1>2, <1>3, <1>5, <2>4, GraphFacts DEF Live
    <2> HIDE DEF layer
    <2>6. /\ c.op = "insert" => /\ c.id \in DOMAIN nodes' /\ DOMAIN nodes' # {c.id}
                                /\ c.level = nodes'[c.id].level /\ floor = c.level
          /\ c.op = "query" => c.k > 0 /\ floor = 0
      BY <1>1, <1>2, <2>1, <2>3, <2>4 DEF InsertOK, QueryOK, Traversing
    <2>7. c.op \in {"insert", "query"} /\ c.vector \in Vectors \cup Queries /\ answer' = NoAnswer
      BY <1>1, <1>2, <1>3, <2>1
    <2>8. /\ CallOK'
          /\ pc' \in {"greedy", "search"} /\ call'.op = call.op /\ call'.id = call.id
          /\ call'.layer = layer
      BY <2>1, <2>2, <2>3, <2>5, <2>6, <2>7, Descended
    <2>9. Settled' = Settled
      BY <1>1, <2>4, <2>8 DEF Settled, Traversing
    <2>10. IInv'
      BY <1>1, <1>2, <2>4, <2>8, <2>9 DEF IInv
    <2>11. QED
      BY <2>8, <2>10 DEF layer
  <1>8. ASSUME call.layer = 0, FinishInsert
        PROVE  IInv' /\ pc' = "idle"
    <2>1. call.op = "insert"
      BY <1>1, <1>2, <1>3, <1>8 DEF QueryOK, Traversing
    <2>2. pc' = "idle"
      BY <1>8 DEF FinishInsert, Return
    <2>3. QED
      BY <1>1, <1>8, <2>1, <2>2, FinishKeeps
  <1>9. QED
    BY <1>4, <1>6, <1>7, <1>8


LEMMA CandidatesKeeps ==
    ASSUME IInv, Candidates
    PROVE  IInv' /\ pc' = "link" /\ call'.layer = call.layer
PROOF
  <1>1. /\ pc = "search" /\ ~ SearchGoesOn /\ call.op = "insert" /\ pc' = "link"
        /\ UNCHANGED <<distance, nodes, entry_point, max_level, answer>>
    BY DEF Candidates, graph
  <1>2. /\ distance \in VectorDistance /\ GraphOK(nodes)
        /\ EntryOf(nodes, Settled, entry_point, max_level)
        /\ call \in CallType /\ CallOK /\ WalkOK /\ InsertOK /\ answer = NoAnswer
    BY <1>1 DEF IInv, CallOK
  <1> DEFINE C == Closest(nodes, call.vector, call.search.results, degree_limit(call.layer))
  <1> DEFINE l == call.layer
  <1> DEFINE todo == {<<call.id, c, l>> : c \in C}
  <1>3. call' = [call EXCEPT !.search = NoSearch, !.todo = todo]
    BY <1>1 DEF Candidates
  <1>4. C \subseteq Live(l) /\ l \in 0..TopLevel
    <2>1. /\ l \in 0..TopLevel /\ call.vector \in Int
          /\ call.search.results \subseteq Live(l)
      BY <1>1, SearchFacts
    <2>2. degree_limit(l) \in Nat
      BY HnswAssumption DEF degree_limit
    <2> DEFINE v == call.vector
    <2> DEFINE S == call.search.results
    <2> DEFINE n == degree_limit(call.layer)
    <2>3. /\ v \in Int /\ n \in Nat /\ S \in SUBSET Ids /\ \A i \in S : nodes[i].vector \in Int
      BY <1>2, <2>1, <2>2, GraphFacts
    <2>4. C = Closest(nodes, v, S, n) /\ S \subseteq Live(l)
      BY <2>1
    <2> HIDE DEF v, S, n, C
    <2>5. Closest(nodes, v, S, n) \subseteq S
      BY <1>2, <2>3, ClosestFacts
    <2>6. QED
      BY <2>1, <2>4, <2>5
  <1>5. call.id \in Live(l) /\ call.id \in Ids
    BY <1>1, <1>2, GraphFacts DEF InsertOK, Traversing, Live
  <1> HIDE DEF C, l
  <1>6. /\ todo \in SUBSET (Ids \X Ids \X (0..TopLevel))
        /\ \A t \in todo : t[1] \in Live(t[3]) /\ t[2] \in Live(t[3])
    BY <1>2, <1>4, <1>5, GraphFacts
  <1> HIDE DEF todo
  <1>7. /\ call' \in CallType
        /\ call'.op = call.op /\ call'.id = call.id /\ call'.vector = call.vector
        /\ call'.level = call.level /\ call'.k = call.k /\ call'.at = call.at
        /\ call'.layer = call.layer /\ call'.todo = todo
    BY <1>2, <1>3, <1>6 DEF CallType, NoSearch
  <1>8. \A k : Live(k)' = Live(k)
    BY <1>1 DEF Live
  <1>9. TodoOK'
    BY <1>6, <1>7, <1>8 DEF TodoOK
  <1>10. WalkOK'
    <2>1. Live(call.layer)' = Live(call.layer)
      BY <1>1, <1>7 DEF Live
    <2>2. QED
      BY <1>1, <1>2, <1>7, <2>1 DEF WalkOK, Traversing
  <1>11. InsertOK' /\ Settled' = Settled
    BY <1>1, <1>2, <1>7 DEF InsertOK, Settled, Traversing
  <1>12. QueryOK' /\ ChangeOK' /\ SearchOK'
    BY <1>1, <1>7 DEF QueryOK, ChangeOK, SearchOK
  <1>13. CallOK'
    BY <1>1, <1>2, <1>7, <1>9, <1>10, <1>11, <1>12 DEF CallOK
  <1>14. QED
    BY <1>1, <1>2, <1>7, <1>11, <1>13 DEF IInv

LEMMA LinkedKeeps ==
    ASSUME IInv, Linked
    PROVE  IInv' /\ pc' = "greedy" /\ call'.layer = call.layer
PROOF
  <1>1. /\ pc = "link" /\ pc' = "greedy"
        /\ UNCHANGED <<distance, nodes, entry_point, max_level, answer>>
        /\ call' = [call EXCEPT !.steps = 0]
    BY DEF Linked, graph
  <1>2. /\ distance \in VectorDistance /\ GraphOK(nodes)
        /\ EntryOf(nodes, Settled, entry_point, max_level)
        /\ call \in CallType /\ CallOK /\ WalkOK /\ InsertOK /\ QueryOK /\ answer = NoAnswer
    BY <1>1 DEF IInv, CallOK
  <1>3. /\ call' \in CallType
        /\ call'.op = call.op /\ call'.id = call.id /\ call'.vector = call.vector
        /\ call'.level = call.level /\ call'.k = call.k /\ call'.at = call.at
        /\ call'.layer = call.layer /\ call'.steps = 0
    BY <1>1, <1>2 DEF CallType
  <1>4. Budget' = Budget /\ Budget \in Nat \ {0} /\ Live(call.layer)' = Live(call.layer)
    BY <1>1, <1>2, <1>3, BudgetType DEF Budget, Live
  <1>5. WalkOK'
    BY <1>1, <1>2, <1>3, <1>4 DEF WalkOK, Traversing
  <1>6. InsertOK' /\ QueryOK' /\ Settled' = Settled
    BY <1>1, <1>2, <1>3 DEF InsertOK, QueryOK, Settled, Traversing
  <1>7. TodoOK' /\ ChangeOK' /\ SearchOK'
    BY <1>1 DEF TodoOK, ChangeOK, SearchOK
  <1>8. CallOK'
    BY <1>1, <1>2, <1>3, <1>5, <1>6, <1>7 DEF CallOK
  <1>9. QED
    BY <1>1, <1>2, <1>3, <1>6, <1>8 DEF IInv

LEMMA AnswerKeeps ==
    ASSUME IInv, Answer
    PROVE  IInv'
PROOF
  <1>1. /\ pc = "search" /\ call.op = "query" /\ pc' = "idle" /\ call' = Idle
        /\ UNCHANGED <<distance, nodes, entry_point, max_level>>
    BY DEF Answer, Return, graph
  <1>2. /\ distance \in VectorDistance /\ GraphOK(nodes)
        /\ EntryOf(nodes, DOMAIN nodes, entry_point, max_level)
    BY <1>1 DEF IInv, Settled
  <1>3. CallOK' /\ Settled' = DOMAIN nodes'
    BY <1>1, IdleType
       DEF CallOK, ChangeOK, TodoOK, WalkOK, InsertOK, QueryOK, SearchOK, Settled, Traversing
  <1>4. QED
    BY <1>1, <1>2, <1>3 DEF IInv

LEMMA NextKeeps ==
    ASSUME IInv, [Next]_vars
    PROVE  IInv'
PROOF
  <1>1. CASE \E id \in Ids, v \in Vectors : Insert(id, v)
    BY <1>1, InsertKeeps
  <1>2. CASE \E id \in Ids : Remove(id)
    BY <1>2, RemoveKeeps
  <1>3. CASE \E v \in Queries, k \in Answers : Query(v, k)
    BY <1>3, QueryKeeps
  <1>4. CASE Step
    <2>1. CASE LinkNext
      BY <2>1, LinkNextKeeps
    <2>2. CASE Relinked
      BY <2>2, RelinkedKeeps
    <2>3. CASE AddNode
      BY <2>3, AddNodeKeeps
    <2>4. CASE Greedy
      BY <2>4, GreedyKeeps
    <2>5. CASE Search
      BY <2>5, SearchKeeps
    <2>6. CASE Candidates
      BY <2>6, CandidatesKeeps
    <2>7. CASE Linked
      BY <2>7, LinkedKeeps
    <2>8. CASE Answer
      BY <2>8, AnswerKeeps
    <2>9. QED
      BY <1>4, <2>1, <2>2, <2>3, <2>4, <2>5, <2>6, <2>7, <2>8 DEF Step
  <1>5. CASE UNCHANGED vars
    <2>1. UNCHANGED <<distance, nodes, entry_point, max_level, pc, call, answer>>
      BY <1>5 DEF vars, graph
    <2>2. Settled' = Settled /\ CallOK' = CallOK
      BY <2>1 DEF Settled, Traversing, CallOK, ChangeOK, TodoOK, WalkOK, InsertOK, QueryOK,
                  SearchOK, Live, Budget, Around
    <2>3. QED
      BY <2>1, <2>2 DEF IInv
  <1>6. QED
    BY <1>1, <1>2, <1>3, <1>4, <1>5 DEF Next

(***************************************************************************)
(* The graph, the entry point and what the call under way holds of them    *)
(* are in every state what the inductive invariant says, between any two   *)
(* turns of any loop of insert, remove and query.                          *)
(***************************************************************************)
THEOREM Invariance == Spec => []IInv
PROOF
  <1>1. Init => IInv
    BY InitIInv
  <1>2. IInv /\ [Next]_vars => IInv'
    BY NextKeeps
  <1>3. QED
    BY <1>1, <1>2, PTL DEF Spec

(***************************************************************************)
(* Links join live nodes tall enough for them and stand at both ends, in   *)
(* every state: no loop of the engine indexes a node or a layer that is    *)
(* not there, in the middle of a prune included.                           *)
(***************************************************************************)
THEOREM LinksAlwaysReciprocal == Spec => []LinksReciprocal
PROOF
  <1>1. IInv => LinksReciprocal
    BY DEF IInv, GraphOK, LinksOK, LinksReciprocal
  <1>2. QED
    BY <1>1, Invariance, PTL

\* The index and the call under way are well typed.
LEMMA IInvTypes ==
    ASSUME IInv
    PROVE  TypeOK
PROOF
  <1>1. distance \in VectorDistance /\ GraphOK(nodes) /\ NodesOK(nodes) /\ CallOK /\ call \in CallType
        /\ EntryOf(nodes, Settled, entry_point, max_level)
    BY DEF IInv, GraphOK, CallOK
  <1>2. /\ DOMAIN nodes \subseteq Ids
        /\ \A i \in DOMAIN nodes : nodes[i] \in Node /\ DOMAIN nodes[i].neighbours = 0..nodes[i].level
    BY <1>1 DEF NodesOK
  <1>3. entry_point \in Ids \cup {None} /\ max_level \in 0..TopLevel
    <2>1. Settled \in SUBSET DOMAIN nodes
      BY DEF Settled
    <2>2. QED
      BY <1>1, <1>2, <2>1, EntryFacts
  <1>4. pc \in {"idle", "relink", "add", "greedy", "search", "link"}
    BY <1>1 DEF CallOK
  <1>5. call.op \in {"insert", "remove", "query", None} /\ call.todo \subseteq Ids \X Ids \X (0..TopLevel)
    BY <1>1 DEF CallType
  <1>6. QED
    BY <1>1, <1>2, <1>3, <1>4, <1>5 DEF TypeOK


(***************************************************************************)
(* What a call has left, loop by loop.                                     *)
(***************************************************************************)
\* What p leaves is less than p, at its first difference, and no less than nothing.
Lowers(q, p) == Less(q, p) /\ \A n \in 1..4 : q[n] >= 0

Counts == Nat \X Nat \X Nat \X Nat

RemainingOK ==
    /\ call.layer \in Nat
    /\ Remaining \in Counts
    /\ pc = "relink" => Remaining[1] = 3 /\ Remaining[2] = 0 /\ Remaining[3] = 0
                        /\ Remaining[4] = Cardinality(call.todo)
    /\ pc = "add" => Remaining[1] = 2
    /\ pc \in {"search", "link", "greedy"} => Remaining[1] = 1 /\ Remaining[2] = call.layer
    /\ pc = "search" => /\ Remaining[3] = 3
                        /\ Remaining[4] = Budget - Cardinality(call.search.visited)
    /\ pc = "link" => Remaining[3] = 2 /\ Remaining[4] = Cardinality(call.todo)
    /\ pc = "greedy" => Remaining[3] = 1 /\ Remaining[4] = Budget - call.steps
    /\ pc = "idle" => Remaining[1] = 0

LEMMA RemainingFacts == IInv => RemainingOK
PROOF
  <1> SUFFICES ASSUME IInv PROVE RemainingOK
    OBVIOUS
  <1>1. call \in CallType /\ WalkOK /\ pc \in {"idle", "relink", "add", "greedy", "search", "link"}
    BY DEF IInv, CallOK
  <1>2. call.layer \in Nat /\ call.steps \in Nat
    BY <1>1, HnswAssumption DEF CallType
  <1>3. Cardinality(call.todo) \in Nat /\ Budget \in Nat
    BY <1>1, TodoFinite, BudgetType
  <1>4. ASSUME pc = "search" PROVE Budget - Cardinality(call.search.visited) \in Nat
    BY <1>3, <1>4, SearchFacts
  <1>5. ASSUME pc = "greedy" PROVE Budget - call.steps \in Nat
    BY <1>1, <1>2, <1>3, <1>5 DEF WalkOK, Traversing
  <1>6. /\ pc = "relink" => Remaining = <<3, 0, 0, Cardinality(call.todo)>>
        /\ pc = "add" => Remaining = <<2, 0, 0, 0>>
        /\ pc = "search" => Remaining = <<1, call.layer, 3, Budget - Cardinality(call.search.visited)>>
        /\ pc = "link" => Remaining = <<1, call.layer, 2, Cardinality(call.todo)>>
        /\ pc = "greedy" => Remaining = <<1, call.layer, 1, Budget - call.steps>>
        /\ pc = "idle" => Remaining = <<0, 0, 0, 0>>
    BY DEF Remaining
  <1>7. CASE pc = "relink"
    BY <1>2, <1>3, <1>6, <1>7 DEF RemainingOK, Counts
  <1>8. CASE pc = "add"
    BY <1>2, <1>6, <1>8 DEF RemainingOK, Counts
  <1>9. CASE pc = "search"
    BY <1>2, <1>4, <1>6, <1>9 DEF RemainingOK, Counts
  <1>10. CASE pc = "link"
    BY <1>2, <1>3, <1>6, <1>10 DEF RemainingOK, Counts
  <1>11. CASE pc = "greedy"
    BY <1>2, <1>5, <1>6, <1>11 DEF RemainingOK, Counts
  <1>12. CASE pc = "idle"
    BY <1>2, <1>6, <1>12 DEF RemainingOK, Counts
  <1>13. QED
    BY <1>1, <1>7, <1>8, <1>9, <1>10, <1>11, <1>12

LEMMA RemainingFactsNext == IInv' => RemainingOK'
PROOF
  BY RemainingFacts, PTL

\* Less is the order of the first difference.
LEMMA FirstDifference ==
    ASSUME NEW p \in Counts, NEW q \in Counts,
           \/ q[1] < p[1]
           \/ q[1] = p[1] /\ q[2] < p[2]
           \/ q[1] = p[1] /\ q[2] = p[2] /\ q[3] < p[3]
           \/ q[1] = p[1] /\ q[2] = p[2] /\ q[3] = p[3] /\ q[4] < p[4]
    PROVE  Lowers(q, p)
PROOF
  <1>1. \A n \in 1..4 : q[n] >= 0
    <2>1. q[1] \in Nat /\ q[2] \in Nat /\ q[3] \in Nat /\ q[4] \in Nat
      BY DEF Counts
    <2>2. \A n \in 1..4 : n = 1 \/ n = 2 \/ n = 3 \/ n = 4
      OBVIOUS
    <2>3. QED
      BY <2>1, <2>2
  <1>2. \E n \in 1..4 : q[n] < p[n] /\ \A m \in 1..(n - 1) : q[m] = p[m]
    <2>1. CASE q[1] < p[1]
      <3>1. 1 \in 1..4 /\ \A m \in 1..(1 - 1) : q[m] = p[m]
        OBVIOUS
      <3>2. QED
        BY <2>1, <3>1
    <2>2. CASE q[1] = p[1] /\ q[2] < p[2]
      <3>1. 2 \in 1..4 /\ \A m \in 1..(2 - 1) : m = 1
        OBVIOUS
      <3>2. QED
        BY <2>2, <3>1
    <2>3. CASE q[1] = p[1] /\ q[2] = p[2] /\ q[3] < p[3]
      <3>1. 3 \in 1..4 /\ \A m \in 1..(3 - 1) : m = 1 \/ m = 2
        OBVIOUS
      <3>2. QED
        BY <2>3, <3>1
    <2>4. CASE q[1] = p[1] /\ q[2] = p[2] /\ q[3] = p[3] /\ q[4] < p[4]
      <3>1. 4 \in 1..4 /\ \A m \in 1..(4 - 1) : m = 1 \/ m = 2 \/ m = 3
        OBVIOUS
      <3>2. QED
        BY <2>4, <3>1
    <2>5. QED
      BY <2>1, <2>2, <2>3, <2>4
  <1>3. QED
    BY <1>1, <1>2 DEF Less, Lowers

LEMMA StepCounts ==
    ASSUME IInv, Step
    PROVE  Lowers(Remaining', Remaining)
PROOF
  <1>1. RemainingOK /\ call \in CallType /\ pc \in {"idle", "relink", "add", "greedy", "search", "link"}
    BY RemainingFacts DEF IInv, CallOK
  <1>2. IInv'
    BY NextKeeps DEF Next
  <1>3. RemainingOK'
    BY <1>2, RemainingFactsNext
  <1>4. call.layer \in Nat /\ call'.layer \in Nat /\ Cardinality(call.todo) \in Nat
    BY <1>1, <1>3, TodoFinite DEF RemainingOK
  <1>5. CASE LinkNext
    <2>1. pc \in {"relink", "link"} /\ pc' = pc /\ call'.layer = call.layer
      <3>1. PICK t \in call.todo : call' = [call EXCEPT !.todo = @ \ {t}]
        BY <1>5 DEF LinkNext
      <3>2. call'.layer = call.layer
        BY <1>1, <3>1 DEF CallType
      <3>3. QED
        BY <1>5, <3>2 DEF LinkNext
    <2>2. Cardinality(call'.todo) < Cardinality(call.todo)
      BY <1>5, LinkNextKeeps
    <2>3. CASE pc = "relink"
      BY <1>1, <1>3, <2>1, <2>2, <2>3, FirstDifference DEF RemainingOK
    <2>4. CASE pc = "link"
      BY <1>1, <1>3, <1>4, <2>1, <2>2, <2>4, FirstDifference DEF RemainingOK
    <2>5. QED
      BY <2>1, <2>3, <2>4
  <1>6. CASE Relinked
    <2>1. pc = "relink" /\ (pc' = "add" \/ pc' = "idle")
      BY <1>6 DEF Relinked, Return
    <2>2. QED
      BY <1>1, <1>3, <2>1, FirstDifference DEF RemainingOK
  <1>7. CASE AddNode
    <2>1. pc = "add" /\ pc' \in {"idle", "greedy", "search"}
      BY <1>7 DEF AddNode, Descend, Return
    <2>2. CASE pc' = "idle"
      BY <1>1, <1>3, <2>1, <2>2, FirstDifference DEF RemainingOK
    <2>3. CASE pc' = "greedy"
      BY <1>1, <1>3, <1>4, <2>1, <2>3, FirstDifference DEF RemainingOK
    <2>4. CASE pc' = "search"
      BY <1>1, <1>3, <1>4, <2>1, <2>4, FirstDifference DEF RemainingOK
    <2>5. QED
      BY <2>1, <2>2, <2>3, <2>4
  <1>8. CASE Greedy
    <2>1. pc = "greedy"
      BY <1>8 DEF Greedy
    <2>2. \/ /\ pc' = "greedy" /\ call'.op = call.op /\ call'.k = call.k
             /\ call'.layer = call.layer /\ call'.steps = call.steps + 1
             /\ call'.steps < Budget
          \/ pc' \in {"greedy", "search"} /\ call'.layer = call.layer - 1
          \/ pc' = "idle"
      BY <1>8, GreedyKeeps
    <2>3. ASSUME pc' = "greedy", call'.op = call.op, call'.k = call.k,
                 call'.layer = call.layer, call'.steps = call.steps + 1
          PROVE  Lowers(Remaining', Remaining)
      <3>1. Budget' = Budget /\ Budget \in Nat /\ call.steps \in Nat
        BY <1>1, <2>3, BudgetType DEF Budget, CallType
      <3>2. Budget' - call'.steps < Budget - call.steps
        BY <2>3, <3>1
      <3>3. QED
        BY <1>1, <1>3, <1>4, <2>1, <2>3, <3>2, FirstDifference DEF RemainingOK
    <2>4. ASSUME pc' = "greedy", call'.layer = call.layer - 1
          PROVE  Lowers(Remaining', Remaining)
      BY <1>1, <1>3, <1>4, <2>1, <2>4, FirstDifference DEF RemainingOK
    <2>5. ASSUME pc' = "search", call'.layer = call.layer - 1
          PROVE  Lowers(Remaining', Remaining)
      BY <1>1, <1>3, <1>4, <2>1, <2>5, FirstDifference DEF RemainingOK
    <2>6. ASSUME pc' = "idle"
          PROVE  Lowers(Remaining', Remaining)
      BY <1>1, <1>3, <1>4, <2>1, <2>6, FirstDifference DEF RemainingOK
    <2>7. QED
      BY <2>2, <2>3, <2>4, <2>5, <2>6
  <1>9. CASE Search
    <2>1. pc = "search"
      BY <1>9 DEF Search
    <2>2. /\ pc' = "search" /\ call'.op = call.op /\ call'.k = call.k /\ call'.layer = call.layer
          /\ Cardinality(call'.search.visited) = Cardinality(call.search.visited) + 1
      BY <1>9, SearchKeeps
    <2>3. Budget' = Budget /\ Budget \in Nat /\ Cardinality(call.search.visited) \in Nat
      BY <1>1, <2>1, <2>2, BudgetType, SearchFacts DEF Budget
    <2>4. Budget' - Cardinality(call'.search.visited) < Budget - Cardinality(call.search.visited)
      BY <2>2, <2>3
    <2>5. QED
      BY <1>1, <1>3, <1>4, <2>1, <2>2, <2>4, FirstDifference DEF RemainingOK
  <1>10. CASE Candidates
    <2>1. pc = "search" /\ pc' = "link" /\ call'.layer = call.layer
      BY <1>10, CandidatesKeeps DEF Candidates
    <2>2. QED
      BY <1>1, <1>3, <1>4, <2>1, FirstDifference DEF RemainingOK
  <1>11. CASE Linked
    <2>1. pc = "link" /\ pc' = "greedy" /\ call'.layer = call.layer
      BY <1>11, LinkedKeeps DEF Linked
    <2>2. QED
      BY <1>1, <1>3, <1>4, <2>1, FirstDifference DEF RemainingOK
  <1>12. CASE Answer
    <2>1. pc = "search" /\ pc' = "idle"
      BY <1>12 DEF Answer, Return
    <2>2. QED
      BY <1>1, <1>3, <1>4, <2>1, FirstDifference DEF RemainingOK
  <1>13. QED
    BY <1>5, <1>6, <1>7, <1>8, <1>9, <1>10, <1>11, <1>12 DEF Step

(***************************************************************************)
(* Every turn of every loop leaves less to do, and what is left is never   *)
(* negative: insert, remove and query end, whatever cycles the links and   *)
(* the backbone make.                                                      *)
(***************************************************************************)
THEOREM EveryTurnCounts == Spec => TurnsCount
PROOF
  <1>1. ASSUME IInv, [Next]_vars
        PROVE  [TurnCounts]_vars
    <2>1. CASE Step
      BY <1>1, <2>1, StepCounts DEF Lowers, TurnCounts
    <2>2. CASE pc = "idle"
      BY <2>2 DEF TurnCounts
    <2>3. QED
      BY <1>1, <2>1, <2>2 DEF Next, Insert, Remove, Query
  <1>2. QED
    BY <1>1, Invariance, PTL DEF Spec, TurnsCount


(***************************************************************************)
(* What a query returns.                                                   *)
(***************************************************************************)
LEMMA ScoreType ==
    ASSUME NEW v \in Int, NEW S \in SUBSET Ids, distance \in VectorDistance,
           \A i \in S : nodes[i].vector \in Int
    PROVE  \A i \in S : Score(v, i) \in Int /\ i \in Int
PROOF
  <1> SUFFICES ASSUME NEW i \in S PROVE Score(v, i) \in Int /\ i \in Int
    OBVIOUS
  <1> DEFINE d == Distance(v, nodes[i].vector)
  <1>1. d \in Int /\ i \in Int /\ Resolution \in Nat \ {0}
    BY DistanceType, HnswAssumption
  <1> HIDE DEF d
  <1> DEFINE s == Size(d)
  <1>2. s \in Nat
    BY <1>1, FloatType
  <1> HIDE DEF s
  <1>3. s \div Resolution \in Nat
    BY <1>1, <1>2
  <1>4. Negative(d) \in BOOLEAN
    BY DEF Negative
  <1>5. Float(Negative(d), s \div Resolution) \in Int
    BY <1>1, <1>3, <1>4, FloatType
  <1>6. QED
    BY <1>1, <1>5 DEF Score, d, s

BeforePairs(v, S) == {p \in S \X S : Before(v, p[1], p[2])}

\* No two members are tied: those of one score are in the order of their identities.
LEMMA BeforeIsOrder ==
    ASSUME NEW v \in Int, NEW S \in SUBSET Ids, distance \in VectorDistance,
           \A i \in S : nodes[i].vector \in Int
    PROVE  /\ IsFiniteSet(S) /\ StrictOrder(BeforePairs(v, S), S)
           /\ \A i, j \in S : <<i, j>> \in BeforePairs(v, S) <=> Before(v, i, j)
           /\ \A i \in S : Rank(BeforePairs(v, S), S, i) = Cardinality({j \in S : Before(v, j, i)})
PROOF
  <1>1. \A i \in S : Score(v, i) \in Int /\ i \in Int
    BY ScoreType
  <1>2. \A i, j \in S : <<i, j>> \in BeforePairs(v, S) <=> Before(v, i, j)
    BY DEF BeforePairs
  <1>3. StrictOrder(BeforePairs(v, S), S)
    BY <1>1, <1>2 DEF StrictOrder, Before
  <1>4. ASSUME NEW i \in S
        PROVE  Ahead(BeforePairs(v, S), S, i) = {j \in S : Before(v, j, i)}
    BY <1>2 DEF Ahead
  <1>5. QED
    BY <1>2, <1>3, <1>4, HnswAssumption, FS_Subset DEF Rank

\* The first k of S in that order, each once, and no member left out before one of them.
LEMMA RankedMembers ==
    ASSUME NEW v \in Int, NEW S \in SUBSET Ids, distance \in VectorDistance,
           \A i \in S : nodes[i].vector \in Int, NEW k \in Nat,
           NEW hits, hits = Ranked(v, S, k)
    PROVE  /\ Len(hits) = Shorter(k, Cardinality(S))
           /\ \A p \in DOMAIN hits : hits[p] \in S
           /\ \A p, q \in DOMAIN hits : p < q => Before(v, hits[p], hits[q])
           /\ \A i \in S : \/ \E p \in DOMAIN hits : i = hits[p]
                           \/ \A p \in DOMAIN hits : Before(v, hits[p], i)
PROOF
  <1> DEFINE R == BeforePairs(v, S)
  <1> DEFINE n == Shorter(k, Cardinality(S))
  <1>1. /\ IsFiniteSet(S) /\ StrictOrder(R, S)
        /\ \A i, j \in S : <<i, j>> \in R <=> Before(v, i, j)
        /\ \A i \in S : Rank(R, S, i) = Cardinality({j \in S : Before(v, j, i)})
    BY BeforeIsOrder
  <1>2. hits = [p \in 1..n |-> CHOOSE i \in S : Cardinality({j \in S : Before(v, j, i)}) = p - 1]
    BY DEF Ranked, Shorter
  <1> HIDE DEF R
  <1>3. ASSUME NEW p \in 1..n, \E i \in S : Rank(R, S, i) = p - 1
        PROVE  hits[p] \in S /\ Rank(R, S, hits[p]) = p - 1
    <2>1. \E i \in S : Cardinality({j \in S : Before(v, j, i)}) = p - 1
      BY <1>1, <1>3
    <2>2. hits[p] = CHOOSE i \in S : Cardinality({j \in S : Before(v, j, i)}) = p - 1
      BY <1>2
    <2>3. hits[p] \in S /\ Cardinality({j \in S : Before(v, j, hits[p])}) = p - 1
      BY <2>1, <2>2
    <2>4. QED
      BY <1>1, <2>3
  <1>4. hits = [p \in 1..n |-> hits[p]]
    BY <1>2
  <1> HIDE DEF n
  <1>5. /\ Len(hits) = n /\ DOMAIN hits = 1..n
        /\ \A p \in 1..n : hits[p] \in S
        /\ \A p, q \in 1..n : p < q => <<hits[p], hits[q]>> \in R
        /\ \A i \in S : \/ \E p \in 1..n : i = hits[p]
                        \/ \A p \in 1..n : <<hits[p], i>> \in R
    <2>1. n = Shorter(k, Cardinality(S))
      BY DEF n
    <2>2. ListsByRank(R, S, n, hits)
      BY <1>3, <1>4 DEF ListsByRank
    <2>3. IsFiniteSet(S) /\ StrictOrder(R, S)
      BY <1>1
    <2> HIDE DEF n
    <2>4. QED
      BY <2>1, <2>2, <2>3, RankedFacts
  <1>6. QED
    BY <1>1, <1>5 DEF n


\* A query over a graph no larger than its beam has visited all of it when it stops: what
\* it has visited is closed, and only the whole backbone is.
LEMMA QueryVisitsAll ==
    ASSUME IInv, pc = "search", ~ SearchGoesOn, call.op = "query",
           Cardinality(DOMAIN nodes) <= 8 * m_neighbours
    PROVE  call.search.results = DOMAIN nodes
PROOF
  <1> DEFINE V == call.search.visited
  <1>1. GraphOK(nodes) /\ call \in CallType /\ call.layer = 0
    BY DEF IInv, CallOK, QueryOK, Traversing
  <1>2. /\ V \in SUBSET DOMAIN nodes /\ call.search.results = V
        /\ call.search.frontier \cup V # {}
        /\ \A i \in V : Around(i, 0) \subseteq call.search.frontier \cup V
    BY <1>1, SearchFacts, GraphFacts
  <1>3. call.search.frontier = {} \/ Cardinality(V) = Budget
    BY SearchStops
  <1>4. CASE call.search.frontier = {}
    <2>1. V # {} /\ \A i \in V : nodes[i].backbone \subseteq V
      BY <1>2, <1>4 DEF Around
    <2>2. Connected(Backbone(nodes)) /\ DOMAIN Backbone(nodes) = DOMAIN nodes
          /\ \A i \in DOMAIN nodes : Backbone(nodes)[i] = nodes[i].backbone
      BY <1>1 DEF GraphOK, Ring, Backbone
    <2> HIDE DEF V
    <2>3. V = DOMAIN nodes
      BY <1>2, <2>1, <2>2 DEF Connected
    <2>4. QED
      BY <1>2, <2>3
  <1>5. CASE Cardinality(V) = Budget
    <2>1. IsFiniteSet(DOMAIN nodes) /\ Budget \in Nat /\ 8 * m_neighbours <= Budget
      BY <1>1, GraphFacts, BudgetType
    <2> HIDE DEF V
    <2>2. Cardinality(DOMAIN nodes) \in Nat /\ Cardinality(V) \in Nat
          /\ Cardinality(V) <= Cardinality(DOMAIN nodes)
          /\ (Cardinality(DOMAIN nodes) = Cardinality(V) => DOMAIN nodes = V)
      BY <1>2, <2>1, FS_Subset, FS_CardinalityType
    <2>3. Cardinality(DOMAIN nodes) = Cardinality(V)
      BY <1>5, <2>1, <2>2, HnswAssumption
    <2>4. QED
      BY <1>2, <2>2, <2>3
  <1>6. QED
    BY <1>3, <1>4, <1>5

\* AnswersAreExact of an answer over the graph as it is.
ExactAnswer(a) ==
    LET found == {a.hits[p] : p \in DOMAIN a.hits}
    IN  a # NoAnswer /\ a.k > 0 /\ Cardinality(DOMAIN nodes) <= 8 * m_neighbours =>
        /\ a.failed <=> \E i \in DOMAIN nodes : Size(Score(a.vector, i)) > MaxScore
        /\ ~ a.failed =>
            /\ found \subseteq DOMAIN nodes
            /\ Len(a.hits) = IF a.k < Cardinality(DOMAIN nodes) THEN a.k
                             ELSE Cardinality(DOMAIN nodes)
            /\ \A p, q \in DOMAIN a.hits : p < q => Before(a.vector, a.hits[p], a.hits[q])
            /\ \A i \in DOMAIN nodes \ found, p \in DOMAIN a.hits : Before(a.vector, a.hits[p], i)

LEMMA OutcomeIsExact ==
    ASSUME GraphOK(nodes), distance \in VectorDistance, NEW v \in Int, NEW k \in Nat
    PROVE  ExactAnswer(Outcome(v, DOMAIN nodes, k))
PROOF
  <1> DEFINE S == DOMAIN nodes
  <1> DEFINE a == Outcome(v, S, k)
  <1> DEFINE hits == Ranked(v, S, k)
  <1>1. S \in SUBSET Ids /\ \A i \in S : nodes[i].vector \in Int
    BY GraphFacts
  <1>2. /\ a.vector = v /\ a.k = k
        /\ a.failed <=> \E i \in S : Size(Score(v, i)) > MaxScore
        /\ ~ a.failed => a.hits = hits
    <2>1. \A i \in S : ~ Representable(v, i) <=> Size(Score(v, i)) > MaxScore
      <3> SUFFICES ASSUME NEW i \in S
                   PROVE  ~ Representable(v, i) <=> Size(Score(v, i)) > MaxScore
        OBVIOUS
      <3>1. Size(Score(v, i)) \in Nat /\ MaxScore \in Nat
        BY <1>1, ScoreType, FloatType, HnswAssumption
      <3>2. QED
        BY <3>1 DEF Representable
    <2>2. /\ a.vector = v /\ a.k = k
          /\ a.failed <=> \E i \in S : ~ Representable(v, i)
          /\ ~ a.failed => a.hits = hits
      BY DEF Outcome
    <2>3. QED
      BY <2>1, <2>2
  <1>3. /\ Len(hits) = Shorter(k, Cardinality(S))
        /\ \A p \in DOMAIN hits : hits[p] \in S
        /\ \A p, q \in DOMAIN hits : p < q => Before(v, hits[p], hits[q])
        /\ \A i \in S : \/ \E p \in DOMAIN hits : i = hits[p]
                        \/ \A p \in DOMAIN hits : Before(v, hits[p], i)
    <2> HIDE DEF S, hits
    <2>1. hits = Ranked(v, S, k)
      BY DEF hits
    <2>2. QED
      BY <1>1, <2>1, RankedMembers
  <1> DEFINE found == {hits[p] : p \in DOMAIN hits}
  <1>4. /\ found \subseteq S
        /\ Len(hits) = IF k < Cardinality(S) THEN k ELSE Cardinality(S)
        /\ \A i \in S \ found, p \in DOMAIN hits : Before(v, hits[p], i)
    BY <1>3 DEF Shorter
  <1> HIDE DEF a, hits
  <1>5. ExactAnswer(a)
    BY <1>2, <1>3, <1>4 DEF ExactAnswer
  <1>6. QED
    BY <1>5 DEF a

LEMMA AnswerIsExact ==
    ASSUME IInv, Answer
    PROVE  AnswersAreExact'
PROOF
  <1>1. /\ pc = "search" /\ ~ SearchGoesOn /\ call.op = "query"
        /\ answer' = Outcome(call.vector, call.search.results, call.k)
        /\ UNCHANGED <<distance, nodes>>
    BY DEF Answer, graph
  <1>2. GraphOK(nodes) /\ distance \in VectorDistance /\ call.vector \in Int /\ call.k \in Nat
    BY <1>1, SearchFacts DEF IInv, CallOK, CallType
  <1>3. ASSUME Cardinality(DOMAIN nodes) <= 8 * m_neighbours
        PROVE  ExactAnswer(answer')
    <2>1. answer' = Outcome(call.vector, DOMAIN nodes, call.k)
      BY <1>1, <1>3, QueryVisitsAll
    <2>2. ExactAnswer(Outcome(call.vector, DOMAIN nodes, call.k))
      BY <1>2, OutcomeIsExact
    <2>3. QED
      BY <2>1, <2>2
  <1>4. \A w, i, j : Before(w, i, j)' = Before(w, i, j) /\ Score(w, i)' = Score(w, i)
    BY <1>1 DEF Before, Score, Distance
  <1>5. ExactAnswer(answer') => AnswersAreExact'
    BY <1>1, <1>4 DEF ExactAnswer, AnswersAreExact
  <1>6. ~ (Cardinality(DOMAIN nodes) <= 8 * m_neighbours) => AnswersAreExact'
    BY <1>1 DEF AnswersAreExact
  <1>7. QED
    BY <1>3, <1>5, <1>6

(***************************************************************************)
(* A query over an index within its beam answers with exactly the best k   *)
(* members, in the order of total_cmp on their scores, or fails because a  *)
(* score is infinite, of either sign: for every history of inserts and     *)
(* removes, whatever links were pruned.                                    *)
(***************************************************************************)
THEOREM EveryAnswerIsExact == Spec => []AnswersAreExact
PROOF
  <1>1. Init => AnswersAreExact
    BY DEF Init, AnswersAreExact
  <1>2. ASSUME IInv, AnswersAreExact, [Next]_vars
        PROVE  AnswersAreExact'
    <2>1. ASSUME answer' = NoAnswer PROVE AnswersAreExact'
      BY <2>1 DEF AnswersAreExact
    <2>2. CASE Step
      <3>1. CASE Answer
        BY <1>2, <3>1, AnswerIsExact
      <3>2. CASE LinkNext \/ Relinked \/ AddNode \/ Greedy \/ Search \/ Candidates \/ Linked
        <4>1. answer' = answer /\ pc # "idle"
          BY <3>2 DEF LinkNext, Relinked, AddNode, Greedy, Search, Candidates, Linked
        <4>2. answer = NoAnswer
          BY <1>2, <4>1 DEF IInv, CallOK
        <4>3. QED
          BY <2>1, <4>1, <4>2
      <3>3. QED
        BY <2>2, <3>1, <3>2 DEF Step
    <2>3. CASE \E id \in Ids, v \in Vectors : Insert(id, v)
      BY <2>1, <2>3 DEF Insert
    <2>4. CASE \E id \in Ids : Remove(id)
      BY <2>1, <2>4 DEF Remove
    <2>5. ASSUME NEW v \in Queries, NEW k \in Answers, Query(v, k)
          PROVE  AnswersAreExact'
      <3>1. CASE answer' = NoAnswer
        BY <2>1, <3>1
      <3>2. CASE k = 0 \/ entry_point = None
        <4>1. answer' = [NoAnswer EXCEPT !.vector = v, !.k = k] \/ answer' = NoAnswer
          BY <2>5 DEF Query
        <4>2. UNCHANGED <<distance, nodes>> /\ pc = "idle"
          BY <2>5 DEF Query, graph
        <4>3. \/ answer'.k = k /\ answer'.failed = FALSE /\ answer'.hits = << >>
              \/ answer' = NoAnswer
          BY <4>1 DEF NoAnswer
        <4>4. CASE k = 0
          BY <2>1, <4>3, <4>4 DEF AnswersAreExact
        <4>5. CASE entry_point = None
          <5>1. DOMAIN nodes = {}
            <6>1. GraphOK(nodes) /\ EntryOf(nodes, DOMAIN nodes, entry_point, max_level)
              BY <1>2, <4>2, NotTraversing DEF IInv
            <6>2. QED
              BY <4>5, <6>1, EntryFacts
          <5>2. Cardinality(DOMAIN nodes') = 0 /\ DOMAIN nodes' = {}
            BY <4>2, <5>1, FS_EmptySet
          <5>3. k \in Nat
            BY HnswAssumption
          <5>4. QED
            BY <2>1, <4>3, <5>2, <5>3 DEF AnswersAreExact
        <4>6. QED
          BY <3>2, <4>4, <4>5
      <3>3. QED
        BY <2>5, <3>1, <3>2 DEF Query
    <2>6. CASE UNCHANGED vars
      <3>1. UNCHANGED <<distance, nodes, answer>>
        BY <2>6 DEF vars, graph
      <3>2. \A w, i, j : Before(w, i, j)' = Before(w, i, j) /\ Score(w, i)' = Score(w, i)
        BY <3>1 DEF Before, Score, Distance
      <3>3. AnswersAreExact' <=> AnswersAreExact
        BY <3>1, <3>2 DEF AnswersAreExact
      <3>4. QED
        BY <1>2, <3>3
    <2>7. QED
      BY <1>2, <2>2, <2>3, <2>4, <2>5, <2>6 DEF Next
  <1>3. QED
    BY <1>1, <1>2, Invariance, PTL DEF Spec


(***************************************************************************)
(* Reading the index back.  try_from walks the backbone from the least     *)
(* member; as many rounds as there are members reach all of them, since a  *)
(* round that adds nobody has closed over the whole ring.                  *)
(***************************************************************************)
\* One round of the walk.
Round(X) == X \cup UNION {nodes[i].backbone : i \in X}

Rounds(N, A, f) ==
    /\ f = [n \in 0..N |-> f[n]]
    /\ f[0] = A
    /\ \A n \in 1..N : f[n] = Round(f[n - 1])

\* The walk is a function: one for no round, and one round more for any number.
LEMMA RoundsExist ==
    ASSUME NEW N \in Nat, NEW A
    PROVE  \E f : Rounds(N, A, f)
PROOF
  <1> DEFINE S == {n \in Nat : ~ \E f : Rounds(n, A, f)}
  <1>1. 0 \notin S
    <2> DEFINE f == [n \in 0..0 |-> A]
    <2>1. Rounds(0, A, f)
      BY DEF Rounds
    <2>2. QED
      BY <2>1
  <1>2. ASSUME NEW m \in Nat, m \notin S PROVE m + 1 \notin S
    <2>1. PICK f : Rounds(m, A, f)
      BY <1>2
    <2> DEFINE g == [n \in 0..(m + 1) |-> IF n = m + 1 THEN Round(f[m]) ELSE f[n]]
    <2>2. g = [n \in 0..(m + 1) |-> g[n]]
      OBVIOUS
    <2>3. g[0] = A
      BY <2>1 DEF Rounds
    <2>4. \A n \in 0..m : g[n] = f[n]
      OBVIOUS
    <2>5. g[m + 1] = Round(f[m])
      OBVIOUS
    <2> HIDE DEF g
    <2>6. ASSUME NEW n \in 1..(m + 1) PROVE g[n] = Round(g[n - 1])
      <3>1. n - 1 \in 0..m
        OBVIOUS
      <3>2. g[n - 1] = f[n - 1]
        BY <2>4, <3>1
      <3>3. CASE n = m + 1
        <4>1. n - 1 = m
          BY <3>3
        <4>2. QED
          BY <2>5, <3>2, <3>3, <4>1
      <3>4. CASE n # m + 1
        <4>1. n \in 1..m /\ n \in 0..m
          BY <3>4
        <4>2. f[n] = Round(f[n - 1])
          BY <2>1, <4>1 DEF Rounds
        <4>3. QED
          BY <2>4, <3>2, <4>1, <4>2
      <3>5. QED
        BY <3>3, <3>4
    <2>7. Rounds(m + 1, A, g)
      BY <2>2, <2>3, <2>6 DEF Rounds
    <2>8. QED
      BY <2>7
  <1>3. S \in SUBSET Nat
    OBVIOUS
  <1>4. S = {}
    <2>1. \A n \in Nat : n + 1 \in S => n \in S
      BY <1>2
    <2> HIDE DEF S
    <2>2. QED
      BY <1>1, <1>3, <2>1, NoException
  <1>5. QED
    BY <1>4

\* As many rounds as there are members reach every member.
LEMMA RoundsReach ==
    ASSUME GraphOK(nodes), NEW a \in DOMAIN nodes, NEW f,
           Rounds(Cardinality(DOMAIN nodes), {a}, f)
    PROVE  f[Cardinality(DOMAIN nodes)] = DOMAIN nodes
PROOF
  <1> DEFINE D == DOMAIN nodes
  <1> DEFINE N == Cardinality(D)
  <1>1. IsFiniteSet(D) /\ N \in Nat
    BY GraphFacts, FS_CardinalityType
  <1>2. \A i \in D : nodes[i].backbone \subseteq D
    <2>1. Symmetric(Backbone(nodes))
      BY DEF GraphOK, Ring
    <2>2. QED
      BY <2>1 DEF Symmetric, Backbone
  <1>3. \A X \in SUBSET D : X # {} /\ (\A i \in X : nodes[i].backbone \subseteq X) => X = D
    BY DEF GraphOK, Ring, Connected, Backbone
  <1>4. f[0] = {a} /\ \A n \in 1..N : f[n] = Round(f[n - 1])
    BY DEF Rounds
  <1>5. a \in D
    OBVIOUS
  <1> HIDE DEF D, N
  <1> DEFINE Good(n) == /\ f[n] \in SUBSET D
                        /\ f[n] # {}
                        /\ f[n] = D \/ Cardinality(f[n]) > n
  <1> DEFINE S == {n \in 0..N : ~ Good(n)}
  <1>6. Good(0)
    <2>1. Cardinality({a}) = 1
      BY FS_Singleton
    <2>2. QED
      BY <1>4, <1>5, <2>1
  <1>7. ASSUME NEW n \in Nat, n + 1 \in 0..N, Good(n) PROVE Good(n + 1)
    <2> DEFINE X == f[n]
    <2> DEFINE Y == f[n + 1]
    <2>1. Y = Round(X)
      <3>1. n + 1 \in 1..N /\ (n + 1) - 1 = n
        BY <1>1, <1>7
      <3>2. QED
        BY <1>4, <3>1
    <2>2. X \in SUBSET D /\ X # {} /\ (X = D \/ Cardinality(X) > n)
      BY <1>7
    <2> HIDE DEF X, Y
    <2>3. X \subseteq Y /\ Y \in SUBSET D /\ \A i \in X : nodes[i].backbone \subseteq Y
      BY <1>2, <2>1, <2>2 DEF Round
    <2>4. Y = D \/ Cardinality(Y) > n + 1
      <3>1. CASE X = D
        BY <2>3, <3>1
      <3>2. CASE X # D
        <4>1. X # Y
          BY <1>3, <2>2, <2>3, <3>2
        <4>2. IsFiniteSet(Y) /\ Cardinality(X) <= Cardinality(Y)
              /\ (Cardinality(Y) = Cardinality(X) => Y = X)
          BY <1>1, <2>3, FS_Subset
        <4>3. IsFiniteSet(X) /\ Cardinality(X) \in Nat /\ Cardinality(Y) \in Nat
          BY <2>3, <4>2, FS_Subset, FS_CardinalityType
        <4>4. QED
          BY <2>2, <3>2, <4>1, <4>2, <4>3
      <3>3. QED
        BY <3>1, <3>2
    <2>5. Good(n + 1)
      BY <2>2, <2>3, <2>4 DEF Y
    <2>6. QED
      BY <2>5
  <1> HIDE DEF Good
  <1>8. S \in SUBSET Nat /\ 0 \notin S
    BY <1>6
  <1>9. \A n \in Nat : n + 1 \in S => n \in S
    <2>1. ASSUME NEW n \in Nat, n + 1 \in S PROVE n \in S
      <3>1. n + 1 \in 0..N /\ ~ Good(n + 1)
        BY <2>1
      <3>2. n \in 0..N
        BY <1>1, <3>1
      <3>3. ~ Good(n)
        BY <1>7, <3>1
      <3>4. QED
        BY <3>2, <3>3
    <2>2. QED
      BY <2>1
  <1>10. Good(N)
    <2> HIDE DEF S
    <2>1. S = {}
      BY <1>8, <1>9, NoException
    <2>2. N \in 0..N
      BY <1>1
    <2>3. QED
      BY <2>1, <2>2 DEF S
  <1>11. f[N] = D
    <2>1. f[N] \in SUBSET D /\ (f[N] = D \/ Cardinality(f[N]) > N)
      BY <1>10 DEF Good
    <2>2. Cardinality(f[N]) <= N /\ Cardinality(f[N]) \in Nat
      <3>1. IsFiniteSet(f[N]) /\ Cardinality(f[N]) <= Cardinality(D)
        BY <1>1, <2>1, FS_Subset
      <3>2. QED
        BY <3>1, FS_CardinalityType DEF N
    <2>3. QED
      BY <1>1, <2>1, <2>2
  <1>12. QED
    BY <1>11 DEF N, D


LEMMA BackboneReached ==
    ASSUME GraphOK(nodes), DOMAIN nodes # {}
    PROVE  BackboneReach = DOMAIN nodes
PROOF
  <1> DEFINE N == Cardinality(DOMAIN nodes)
  <1> DEFINE a == Least(DOMAIN nodes)
  <1> DEFINE Walk(f) ==
        f = [n \in 0..N |-> IF n = 0 THEN {a}
                            ELSE f[n - 1] \cup UNION {nodes[i].backbone : i \in f[n - 1]}]
  <1> DEFINE g == CHOOSE f : Walk(f)
  <1>1. BackboneReach = g[N]
    BY DEF BackboneReach
  <1>2. N \in Nat /\ a \in DOMAIN nodes
    <2>1. IsFiniteSet(DOMAIN nodes) /\ DOMAIN nodes \in SUBSET Ids
      BY GraphFacts
    <2>2. QED
      BY <2>1, FS_CardinalityType, LeastFacts
  <1> HIDE DEF N, a
  <1>3. \E f : Walk(f)
    <2>1. PICK f : Rounds(N, {a}, f)
      BY <1>2, RoundsExist
    <2>2. ASSUME NEW n \in 0..N
          PROVE  f[n] = IF n = 0 THEN {a}
                        ELSE f[n - 1] \cup UNION {nodes[i].backbone : i \in f[n - 1]}
      <3>1. CASE n = 0
        BY <2>1, <3>1 DEF Rounds
      <3>2. CASE n # 0
        <4>1. n \in 1..N
          BY <1>2, <3>2
        <4>2. f[n] = Round(f[n - 1])
          BY <2>1, <4>1 DEF Rounds
        <4>3. QED
          BY <3>2, <4>2 DEF Round
      <3>3. QED
        BY <3>1, <3>2
    <2>3. f = [n \in 0..N |-> f[n]]
      BY <2>1 DEF Rounds
    <2>4. Walk(f)
      BY <2>2, <2>3
    <2>5. QED
      BY <2>4
  <1>4. Walk(g)
    BY <1>3
  <1> HIDE DEF g
  <1>5. Rounds(N, {a}, g)
    <2>1. DOMAIN g = 0..N /\ g = [n \in 0..N |-> g[n]]
      BY <1>4
    <2>2. g[0] = {a}
      BY <1>2, <1>4
    <2>3. ASSUME NEW n \in 1..N PROVE g[n] = Round(g[n - 1])
      <3>1. n \in 0..N /\ n # 0
        BY <1>2
      <3>2. g[n] = g[n - 1] \cup UNION {nodes[i].backbone : i \in g[n - 1]}
        BY <1>4, <3>1
      <3>3. QED
        BY <3>2 DEF Round
    <2>4. QED
      BY <2>1, <2>2, <2>3 DEF Rounds
  <1>6. g[N] = DOMAIN nodes
    BY <1>2, <1>5, RoundsReach DEF N
  <1>7. QED
    BY <1>1, <1>6 DEF N

\* The backbone degree that try_from expects, of a ring.
LEMMA RingDegreeExpected ==
    ASSUME GraphOK(nodes), NEW i \in DOMAIN nodes
    PROVE  Cardinality(nodes[i].backbone) = ExpectedDegree
PROOF
  <1> DEFINE D == DOMAIN nodes
  <1> DEFINE b == nodes[i].backbone
  <1>1. IsFiniteSet(D) /\ Cardinality(D) \in Nat
    BY GraphFacts, FS_CardinalityType
  <1>2. \/ D = {i} /\ b = {}
        \/ \E x \in D : x # i /\ D = {i, x} /\ b = {x}
        \/ \E x, y \in D : x # i /\ y # i /\ x # y /\ b = {x, y}
    <2>1. RingDegree(Backbone(nodes), i)
      BY DEF GraphOK, Ring, Backbone
    <2>2. QED
      BY <2>1 DEF RingDegree, Backbone
  <1>3. /\ Cardinality(D) = 1 => ExpectedDegree = 0
        /\ Cardinality(D) = 2 => ExpectedDegree = 1
        /\ Cardinality(D) # 1 /\ Cardinality(D) # 2 => ExpectedDegree = 2
    BY DEF ExpectedDegree
  <1>4. i \in D
    OBVIOUS
  <1> HIDE DEF D, b
  <1>5. CASE D = {i} /\ b = {}
    <2>1. Cardinality(D) = 1 /\ Cardinality(b) = 0
      BY <1>5, FS_Singleton, FS_EmptySet
    <2>2. QED
      BY <1>3, <2>1 DEF b
  <1>6. ASSUME NEW x \in D, x # i, D = {i, x}, b = {x}
        PROVE  Cardinality(b) = ExpectedDegree
    <2>1. Cardinality(D) = 2
      BY <1>6, PairCardinality
    <2>2. Cardinality(b) = 1
      BY <1>6, FS_Singleton
    <2>3. QED
      BY <1>3, <2>1, <2>2
  <1>7. ASSUME NEW x \in D, NEW y \in D, x # i, y # i, x # y, b = {x, y}
        PROVE  Cardinality(b) = ExpectedDegree
    <2>1. Cardinality(b) = 2
      BY <1>7, PairCardinality
    <2>2. i \notin b /\ b \in SUBSET D /\ b # D
      BY <1>4, <1>7
    <2>3. Cardinality(b) <= Cardinality(D) /\ (Cardinality(D) = Cardinality(b) => D = b)
      BY <1>1, <2>2, FS_Subset
    <2>4. Cardinality(D) # 1 /\ Cardinality(D) # 2
      BY <1>1, <2>1, <2>2, <2>3
    <2>5. QED
      BY <1>3, <2>1, <2>4
  <1>8. Cardinality(b) = ExpectedDegree
    BY <1>2, <1>5, <1>6, <1>7 DEF b
  <1>9. QED
    BY <1>8 DEF b

LEMMA IdleReopens ==
    ASSUME IInv, pc = "idle"
    PROVE  Reopens
PROOF
  <1>1. /\ GraphOK(nodes) /\ NodesOK(nodes) /\ LinksOK(nodes) /\ DegreesOK(nodes)
        /\ Ring(Backbone(nodes))
        /\ EntryOf(nodes, DOMAIN nodes, entry_point, max_level)
    BY NotTraversing DEF IInv, GraphOK
  <1>2. entry_point = SelectEntry(nodes) /\ max_level = HighestLevel(nodes)
    BY <1>1, EntrySelected
  <1>3. \A i \in DOMAIN nodes :
            /\ DOMAIN nodes[i].neighbours = 0..nodes[i].level
            /\ \A l \in 0..nodes[i].level : Cardinality(nodes[i].neighbours[l]) <= degree_limit(l)
    BY <1>1 DEF NodesOK, DegreesOK
  <1>4. \A i \in DOMAIN nodes : \A j \in nodes[i].backbone :
            j # i /\ j \in DOMAIN nodes /\ i \in nodes[j].backbone
    BY <1>1 DEF Ring, Symmetric, Backbone
  <1>5. \A i \in DOMAIN nodes : Cardinality(nodes[i].backbone) = ExpectedDegree
    BY <1>1, RingDegreeExpected
  <1>6. LinksReciprocal
    BY <1>1 DEF LinksOK, LinksReciprocal
  <1>7. DOMAIN nodes # {} => BackboneReach = DOMAIN nodes
    BY <1>1, BackboneReached
  <1>8. QED
    BY <1>2, <1>3, <1>4, <1>5, <1>6, <1>7 DEF Reopens

(***************************************************************************)
(* Whatever was inserted, replaced and removed, the index that a call      *)
(* leaves is one that try_from accepts when its bytes are read back: its   *)
(* entry point is the canonical one, no node has too many links, links     *)
(* stand at both ends, and the backbone is one cycle through all members.  *)
(***************************************************************************)
THEOREM GraphsReopen == Spec => []EveryGraphReopens
PROOF
  <1>1. IInv => EveryGraphReopens
    BY IInvTypes, IdleReopens DEF EveryGraphReopens
  <1>2. QED
    BY <1>1, Invariance, PTL
=============================================================================
