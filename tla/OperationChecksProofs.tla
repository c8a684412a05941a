------------------------ MODULE OperationChecksProofs ------------------------
(***************************************************************************)
(* What validation guarantees, for any identities, values, configurations  *)
(* and batches of any length: what it lets through is applied without a    *)
(* refusal, fits its index and decodes again, and what it refuses it       *)
(* refuses alike in whatever order the batch is listed.                    *)
(*                                                                         *)
(* The order does not matter because every check walks the sorted batch.   *)
(* Members with equal identities may be sorted either way; but then the    *)
(* identities alone decide the refusal, and they sort one way only.        *)
(***************************************************************************)
EXTENDS OperationChecks, FiniteSetTheorems, TLAPS

(***************************************************************************)
(* Sorting by identity.                                                    *)
(***************************************************************************)
\* The positions before one position are those of a proper part of the list.
LEMMA BeforeIsFinite ==
    ASSUME NEW n \in Nat, NEW ids \in [1..n -> Nat], NEW i \in 1..n
    PROVE  /\ Before(ids, i) \subseteq (1..n) \ {i}
           /\ IsFiniteSet(Before(ids, i))
           /\ Cardinality(Before(ids, i)) \in 0..(n - 1)
PROOF
  <1>1. Before(ids, i) \subseteq (1..n) \ {i}
    BY DEF Before
  <1>2. IsFiniteSet(1..n) /\ Cardinality(1..n) = n
    BY FS_Interval
  <1>3. IsFiniteSet((1..n) \ {i}) /\ Cardinality((1..n) \ {i}) = n - 1
    BY <1>2, FS_RemoveElement
  <1>4. /\ IsFiniteSet(Before(ids, i))
        /\ Cardinality(Before(ids, i)) <= n - 1
    BY <1>1, <1>3, FS_Subset
  <1>5. Cardinality(Before(ids, i)) \in Nat
    BY <1>4, FS_CardinalityType
  <1>6. QED
    BY <1>1, <1>4, <1>5

\* What sorts earlier has fewer positions before it.
LEMMA BeforeGrows ==
    ASSUME NEW n \in Nat, NEW ids \in [1..n -> Nat],
           NEW i \in 1..n, NEW j \in 1..n, i \in Before(ids, j)
    PROVE  Cardinality(Before(ids, i)) < Cardinality(Before(ids, j))
PROOF
  <1>1. Before(ids, i) \subseteq Before(ids, j)
    BY DEF Before
  <1>2. i \notin Before(ids, i)
    BY BeforeIsFinite
  <1>3. /\ IsFiniteSet(Before(ids, j))
        /\ Cardinality(Before(ids, i)) \in Nat /\ Cardinality(Before(ids, j)) \in Nat
    BY BeforeIsFinite
  <1>4. /\ Cardinality(Before(ids, i)) <= Cardinality(Before(ids, j))
        /\ Cardinality(Before(ids, j)) = Cardinality(Before(ids, i)) =>
              Before(ids, j) = Before(ids, i)
    BY <1>1, <1>3, FS_Subset
  <1>5. QED
    BY <1>2, <1>3, <1>4

\* Two positions never come to stand at one place.
LEMMA PlacesDiffer ==
    ASSUME NEW n \in Nat, NEW ids \in [1..n -> Nat], NEW i \in 1..n, NEW j \in 1..n,
           Cardinality(Before(ids, i)) = Cardinality(Before(ids, j))
    PROVE  i = j
PROOF
  <1>1. CASE i # j
    <2>1. i \in Before(ids, j) \/ j \in Before(ids, i)
      BY <1>1 DEF Before
    <2>2. /\ Cardinality(Before(ids, i)) \in Nat /\ Cardinality(Before(ids, j)) \in Nat
      BY BeforeIsFinite
    <2>3. QED
      BY <2>1, <2>2, BeforeGrows
  <1>2. QED
    BY <1>1

\* Every place is taken, by exactly one position.
LEMMA PositionOfPlace ==
    ASSUME NEW n \in Nat, NEW ids \in [1..n -> Nat], NEW k \in 1..n
    PROVE  /\ Position(ids, k) \in 1..n
           /\ Cardinality(Before(ids, Position(ids, k))) = k - 1
PROOF
  <1> DEFINE place == [i \in 1..n |-> Cardinality(Before(ids, i)) + 1]
  <1>1. ASSUME NEW i \in 1..n PROVE Cardinality(Before(ids, i)) + 1 \in 1..n
    BY BeforeIsFinite
  <1>2. place \in [1..n -> 1..n]
    BY <1>1
  <1>3. ASSUME NEW i \in 1..n, NEW j \in 1..n, place[i] = place[j] PROVE i = j
    <2>1. Cardinality(Before(ids, i)) = Cardinality(Before(ids, j))
      BY <1>3, BeforeIsFinite
    <2>2. QED
      BY <2>1, PlacesDiffer
  <1>4. IsFiniteSet(1..n)
    BY FS_Interval
  <1>5. \E i \in 1..n : place[i] = k
    <2> HIDE DEF place
    <2>1. place \in Injection(1..n, 1..n)
      BY <1>2, <1>3 DEF Injection, IsInjective
    <2>2. place \in Surjection(1..n, 1..n)
      BY <1>4, <2>1, FS_Injection
    <2>3. QED
      BY <2>2 DEF Surjection
  <1>6. PICK i \in 1..n : Cardinality(Before(ids, i)) = k - 1
    <2>1. PICK i \in 1..n : place[i] = k
      BY <1>5
    <2>2. Cardinality(Before(ids, i)) \in Nat /\ k = Cardinality(Before(ids, i)) + 1
      BY <2>1, BeforeIsFinite
    <2>3. QED
      BY <2>2
  <1>7. DOMAIN ids = 1..n
    OBVIOUS
  <1>8. QED
    BY <1>6, <1>7 DEF Position

\* A sorted list ascends (check_member_identities: equal identities are adjacent).
LEMMA SortedAscends ==
    ASSUME NEW n \in Nat, NEW ids \in [1..n -> Nat],
           NEW k \in 1..n, NEW l \in 1..n, k <= l
    PROVE  ids[Position(ids, k)] <= ids[Position(ids, l)]
PROOF
  <1>1. /\ Position(ids, k) \in 1..n /\ Cardinality(Before(ids, Position(ids, k))) = k - 1
        /\ Position(ids, l) \in 1..n /\ Cardinality(Before(ids, Position(ids, l))) = l - 1
    BY PositionOfPlace
  <1>2. CASE ids[Position(ids, l)] < ids[Position(ids, k)]
    <2>1. Position(ids, l) \in Before(ids, Position(ids, k))
      BY <1>1, <1>2 DEF Before
    <2>2. Cardinality(Before(ids, Position(ids, l))) < Cardinality(Before(ids, Position(ids, k)))
      BY <1>1, <2>1, BeforeGrows
    <2>3. QED
      BY <1>1, <2>2
  <1>3. QED
    BY <1>1, <1>2


\* A rearrangement reaches every position.
LEMMA RearrangementReaches ==
    ASSUME NEW n \in Nat, NEW order \in Rearrangements(1..n)
    PROVE  /\ order \in [1..n -> 1..n]
           /\ \A i \in 1..n : \E j \in 1..n : order[j] = i
           /\ \A i, j \in 1..n : order[i] = order[j] => i = j
PROOF
  <1>1. order \in Injection(1..n, 1..n)
    BY DEF Rearrangements, Injection, IsInjective
  <1>2. IsFiniteSet(1..n)
    BY FS_Interval
  <1>3. order \in Surjection(1..n, 1..n)
    BY <1>1, <1>2, FS_Injection
  <1>4. QED
    BY <1>3 DEF Surjection, Rearrangements

Below(n, ids, bound) == {i \in 1..n : ids[i] < bound}

\* As many are below a bound in either order.
LEMMA BelowAlike ==
    ASSUME NEW n \in Nat, NEW ids \in [1..n -> Nat], NEW order \in Rearrangements(1..n),
           NEW relisted \in [1..n -> Nat], \A i \in 1..n : relisted[i] = ids[order[i]],
           NEW bound \in Nat
    PROVE  /\ IsFiniteSet(Below(n, ids, bound)) /\ IsFiniteSet(Below(n, relisted, bound))
           /\ Cardinality(Below(n, ids, bound)) = Cardinality(Below(n, relisted, bound))
           /\ Cardinality(Below(n, ids, bound)) \in Nat
PROOF
  <1> DEFINE S == Below(n, relisted, bound)
  <1> DEFINE T == Below(n, ids, bound)
  <1>1. IsFiniteSet(S) /\ IsFiniteSet(T)
    <2>1. IsFiniteSet(1..n) /\ S \subseteq 1..n /\ T \subseteq 1..n
      BY FS_Interval DEF Below
    <2>2. QED
      BY <2>1, FS_Subset
  <1> DEFINE across == [i \in S |-> order[i]]
  <1>0. order \in [1..n -> 1..n]
    BY RearrangementReaches
  <1>2. \A i \in 1..n : i \in S <=> order[i] \in T
    <2>1. \A i \in 1..n : relisted[i] = ids[order[i]] /\ order[i] \in 1..n
      BY <1>0
    <2>2. QED
      BY <2>1 DEF Below
  <1>3. S \subseteq 1..n /\ T \subseteq 1..n
    BY DEF Below
  <1> HIDE DEF S, T
  <1>4. across \in [S -> T]
    BY <1>2, <1>3
  <1>5. \A i, j \in S : across[i] = across[j] => i = j
    BY <1>3, RearrangementReaches
  <1>6. \A t \in T : \E i \in S : across[i] = t
    <2>1. SUFFICES ASSUME NEW t \in T PROVE \E i \in S : order[i] = t
      OBVIOUS
    <2>2. PICK j \in 1..n : order[j] = t
      BY <1>3, RearrangementReaches
    <2>3. QED
      BY <1>2, <2>2
  <1> HIDE DEF across
  <1>7. across \in Bijection(S, T)
    BY <1>4, <1>5, <1>6 DEF Bijection, Injection, Surjection, IsInjective
  <1>8. Cardinality(T) = Cardinality(S)
    BY <1>1, <1>7, FS_Bijection DEF ExistsBijection
  <1>9. Cardinality(T) \in Nat
    BY <1>1, FS_CardinalityType
  <1>10. QED
    BY <1>1, <1>8, <1>9 DEF S, T

\* What stands at place k has at most k - 1 below it, and more below anything larger.
LEMMA CountsAtPlace ==
    ASSUME NEW n \in Nat, NEW ids \in [1..n -> Nat], NEW k \in 1..n
    PROVE  LET here == ids[Position(ids, k)]
           IN  /\ Cardinality(Below(n, ids, here)) <= k - 1
               /\ \A bound \in Nat : here < bound => k <= Cardinality(Below(n, ids, bound))
PROOF
  <1> DEFINE p == Position(ids, k)
  <1>1. p \in 1..n /\ Cardinality(Before(ids, p)) = k - 1
    BY PositionOfPlace
  <1> HIDE DEF p
  <1>2. /\ IsFiniteSet(Before(ids, p)) /\ p \notin Before(ids, p)
        /\ Before(ids, p) \subseteq 1..n
    BY <1>1, BeforeIsFinite
  <1>3. Below(n, ids, ids[p]) \subseteq Before(ids, p)
    BY <1>1 DEF Below, Before
  <1>4. Cardinality(Below(n, ids, ids[p])) <= k - 1
    BY <1>1, <1>2, <1>3, FS_Subset
  <1>5. ASSUME NEW bound \in Nat, ids[p] < bound
        PROVE  k <= Cardinality(Below(n, ids, bound))
    <2>1. Before(ids, p) \cup {p} \subseteq Below(n, ids, bound)
      BY <1>1, <1>2, <1>5 DEF Below, Before
    <2>2. Cardinality(Before(ids, p) \cup {p}) = k
      <3>1. Cardinality(Before(ids, p) \cup {p}) = Cardinality(Before(ids, p)) + 1
        BY <1>2, FS_AddElement
      <3>2. QED
        BY <1>1, <3>1
    <2>3. IsFiniteSet(Below(n, ids, bound))
      <3>1. IsFiniteSet(1..n) /\ Below(n, ids, bound) \subseteq 1..n
        BY FS_Interval DEF Below
      <3>2. QED
        BY <3>1, FS_Subset
    <2>4. QED
      BY <2>1, <2>2, <2>3, FS_Subset
  <1>6. QED
    BY <1>4, <1>5 DEF p

\* The identities of a list sort one way, in whatever order they are listed.
LEMMA SortedAlike ==
    ASSUME NEW n \in Nat, NEW ids \in [1..n -> Nat], NEW order \in Rearrangements(1..n),
           NEW relisted \in [1..n -> Nat], \A i \in 1..n : relisted[i] = ids[order[i]],
           NEW k \in 1..n
    PROVE  relisted[Position(relisted, k)] = ids[Position(ids, k)]
PROOF
  <1>1. Position(ids, k) \in 1..n /\ Position(relisted, k) \in 1..n
    BY PositionOfPlace
  <1> DEFINE v == ids[Position(ids, k)]
  <1> DEFINE w == relisted[Position(relisted, k)]
  <1>2. v \in Nat /\ w \in Nat
    BY <1>1
  <1>3. /\ Cardinality(Below(n, ids, v)) <= k - 1
        /\ v < w => k <= Cardinality(Below(n, ids, w))
        /\ Cardinality(Below(n, relisted, w)) <= k - 1
        /\ w < v => k <= Cardinality(Below(n, relisted, v))
    BY <1>2, CountsAtPlace
  <1>4. /\ Cardinality(Below(n, ids, v)) = Cardinality(Below(n, relisted, v))
        /\ Cardinality(Below(n, ids, w)) = Cardinality(Below(n, relisted, w))
        /\ Cardinality(Below(n, ids, v)) \in Nat /\ Cardinality(Below(n, ids, w)) \in Nat
    <2> HIDE DEF v, w
    <2>1. QED
      BY <1>2, BelowAlike
  <1> HIDE DEF v, w
  <1>5. ~ (v < w) /\ ~ (w < v)
    BY <1>3, <1>4
  <1>6. v = w
    BY <1>2, <1>5
  <1>7. QED
    BY <1>6 DEF v, w


\* Where no identity stands twice in the sorted list, every place has one position for it.
LEMMA SortedOnce ==
    ASSUME NEW n \in Nat, NEW ids \in [1..n -> Nat],
           \A k \in 1..(n - 1) : ids[Position(ids, k)] # ids[Position(ids, k + 1)],
           NEW i \in 1..n, NEW j \in 1..n, ids[i] = ids[j]
    PROVE  i = j
PROOF
  <1>1. ASSUME NEW a \in 1..n, NEW b \in 1..n, ids[a] = ids[b],
               Cardinality(Before(ids, a)) < Cardinality(Before(ids, b))
        PROVE  FALSE
    <2>1. PICK k \in 1..n, l \in 1..n :
            Cardinality(Before(ids, a)) = k - 1 /\ Cardinality(Before(ids, b)) = l - 1
      <3>1. PICK c \in 0..(n - 1), d \in 0..(n - 1) :
              Cardinality(Before(ids, a)) = c /\ Cardinality(Before(ids, b)) = d
        BY BeforeIsFinite
      <3>2. c + 1 \in 1..n /\ d + 1 \in 1..n /\ c = (c + 1) - 1 /\ d = (d + 1) - 1
        OBVIOUS
      <3>3. QED
        BY <3>1, <3>2
    <2>2. Position(ids, k) = a /\ Position(ids, l) = b
      <3>1. /\ Position(ids, k) \in 1..n
            /\ Cardinality(Before(ids, Position(ids, k))) = k - 1
            /\ Position(ids, l) \in 1..n
            /\ Cardinality(Before(ids, Position(ids, l))) = l - 1
        BY PositionOfPlace
      <3>2. QED
        BY <2>1, <3>1, PlacesDiffer
    <2>3. k < l
      BY <1>1, <2>1
    <2>4. k \in 1..(n - 1) /\ k + 1 \in 1..n /\ k <= k + 1 /\ k + 1 <= l
      BY <2>3
    <2>5. /\ ids[Position(ids, k)] <= ids[Position(ids, k + 1)]
          /\ ids[Position(ids, k + 1)] <= ids[Position(ids, l)]
      BY <2>4, SortedAscends
    <2>6. Position(ids, k + 1) \in 1..n
      BY <2>4, PositionOfPlace
    <2>7. ids[Position(ids, k)] = ids[Position(ids, k + 1)]
      BY <1>1, <2>2, <2>5, <2>6
    <2>8. QED
      BY <2>4, <2>7
  <1>2. Cardinality(Before(ids, i)) \in Nat /\ Cardinality(Before(ids, j)) \in Nat
    BY BeforeIsFinite
  <1>3. Cardinality(Before(ids, i)) = Cardinality(Before(ids, j))
    BY <1>1, <1>2
  <1>4. QED
    BY <1>3, PlacesDiffer

\* The members of a batch, sorted.
LEMMA SortedMembers ==
    ASSUME NEW n \in Nat, NEW members \in [1..n -> Items]
    PROVE  /\ member_ids(members) \in [1..n -> Ids] /\ member_ids(members) \in [1..n -> Nat]
           /\ sorted_members(members) \in [1..n -> Items]
           /\ \A k \in 1..n : /\ Position(member_ids(members), k) \in 1..n
                              /\ sorted_members(members)[k] =
                                    members[Position(member_ids(members), k)]
           /\ member_ids(sorted_members(members)) =
                 [k \in 1..n |-> member_ids(members)[Position(member_ids(members), k)]]
           /\ member_ids(sorted_members(members)) \in [1..n -> Ids]
PROOF
  <1>1. \A item \in Items : item.id \in Ids /\ item.id \in Nat
    BY ChecksAssumption DEF ChecksAssumption
  <1>2. DOMAIN members = 1..n
    OBVIOUS
  <1>3. member_ids(members) \in [1..n -> Ids] /\ member_ids(members) \in [1..n -> Nat]
    BY <1>1, <1>2 DEF member_ids
  <1>4. \A k \in 1..n : Position(member_ids(members), k) \in 1..n
    BY <1>3, PositionOfPlace
  <1>5. /\ sorted_members(members) \in [1..n -> Items]
        /\ \A k \in 1..n : sorted_members(members)[k] = members[Position(member_ids(members), k)]
    BY <1>2, <1>4 DEF sorted_members
  <1>6. DOMAIN sorted_members(members) = 1..n
    BY <1>5
  <1>7. member_ids(sorted_members(members)) = [k \in 1..n |-> sorted_members(members)[k].id]
    BY <1>6 DEF member_ids
  <1>8. \A k \in 1..n : /\ sorted_members(members)[k].id =
                              member_ids(members)[Position(member_ids(members), k)]
                        /\ sorted_members(members)[k].id \in Ids
    BY <1>1, <1>2, <1>4, <1>5 DEF member_ids
  <1>9. member_ids(sorted_members(members)) =
           [k \in 1..n |-> member_ids(members)[Position(member_ids(members), k)]]
    BY <1>7, <1>8
  <1>10. member_ids(sorted_members(members)) \in [1..n -> Ids]
    BY <1>7, <1>8
  <1>11. QED
    BY <1>3, <1>4, <1>5, <1>9, <1>10

\* A batch in another order: the sorted identities are the same, and the sorted members
\* too, unless an identity stands twice.
LEMMA MembersSortedAlike ==
    ASSUME NEW n \in Nat, NEW members \in [1..n -> Items], NEW order \in Rearrangements(1..n),
           NEW relisted \in [1..n -> Items], \A i \in 1..n : relisted[i] = members[order[i]]
    PROVE  /\ member_ids(sorted_members(relisted)) = member_ids(sorted_members(members))
           /\ \/ sorted_members(relisted) = sorted_members(members)
              \/ \E k \in 1..(n - 1) : member_ids(sorted_members(members))[k] =
                                          member_ids(sorted_members(members))[k + 1]
PROOF
  <1> DEFINE ids == member_ids(members)
  <1> DEFINE others == member_ids(relisted)
  <1>1. ids \in [1..n -> Nat] /\ others \in [1..n -> Nat]
    BY SortedMembers
  <1>2. order \in [1..n -> 1..n]
    BY RearrangementReaches
  <1>3. \A i \in 1..n : others[i] = ids[order[i]]
    BY <1>2 DEF member_ids
  <1>4. /\ sorted_members(members) \in [1..n -> Items]
        /\ sorted_members(relisted) \in [1..n -> Items]
        /\ \A k \in 1..n : /\ Position(ids, k) \in 1..n /\ Position(others, k) \in 1..n
                           /\ sorted_members(members)[k] = members[Position(ids, k)]
                           /\ sorted_members(relisted)[k] = relisted[Position(others, k)]
        /\ member_ids(sorted_members(members)) = [k \in 1..n |-> ids[Position(ids, k)]]
        /\ member_ids(sorted_members(relisted)) = [k \in 1..n |-> others[Position(others, k)]]
    BY SortedMembers
  <1> HIDE DEF ids, others
  <1>5. \A k \in 1..n : others[Position(others, k)] = ids[Position(ids, k)]
    BY <1>1, <1>3, SortedAlike
  <1>6. member_ids(sorted_members(relisted)) = member_ids(sorted_members(members))
    BY <1>4, <1>5
  <1>7. ASSUME \A k \in 1..(n - 1) : member_ids(sorted_members(members))[k] #
                                        member_ids(sorted_members(members))[k + 1]
        PROVE  sorted_members(relisted) = sorted_members(members)
    <2>1. ASSUME NEW k \in 1..(n - 1)
          PROVE  ids[Position(ids, k)] # ids[Position(ids, k + 1)]
      <3>1. k \in 1..n /\ k + 1 \in 1..n
        OBVIOUS
      <3>2. /\ member_ids(sorted_members(members))[k] = ids[Position(ids, k)]
            /\ member_ids(sorted_members(members))[k + 1] = ids[Position(ids, k + 1)]
        BY <1>4, <3>1
      <3>3. QED
        BY <1>7, <3>2
    <2>2. ASSUME NEW k \in 1..n
          PROVE  sorted_members(relisted)[k] = sorted_members(members)[k]
      <3>1. order[Position(others, k)] \in 1..n /\ Position(ids, k) \in 1..n
        BY <1>2, <1>4
      <3>2. ids[order[Position(others, k)]] = ids[Position(ids, k)]
        BY <1>3, <1>4, <1>5
      <3>3. order[Position(others, k)] = Position(ids, k)
        BY <1>1, <2>1, <3>1, <3>2, SortedOnce
      <3>4. relisted[Position(others, k)] = members[Position(ids, k)]
        BY <1>4, <3>3
      <3>5. QED
        BY <1>4, <3>4
    <2>3. QED
      BY <1>4, <2>2
  <1>8. QED
    BY <1>6, <1>7

(***************************************************************************)
(* The first refusal of a list of checks.                                  *)
(***************************************************************************)
\* One of several positions is the first.
LEMMA FirstPosition ==
    ASSUME NEW n \in Nat, NEW S \in SUBSET (1..n), S # {}
    PROVE  \E i \in S : \A j \in S : i <= j
PROOF
  <1> DEFINE earlier == {pair \in Nat \X Nat : pair[1] < pair[2]}
  <1>1. IsWellFoundedOn(earlier, Nat)
    BY NatLessThanWellFounded, Zenon DEF OpToRel
  <1>2. S \subseteq Nat
    OBVIOUS
  <1>3. PICK i \in S : \A j \in S : ~ (<<j, i>> \in earlier)
    <2> HIDE DEF earlier
    <2>1. QED
      BY <1>1, <1>2, WFMin
  <1>4. ASSUME NEW j \in S PROVE i <= j
    <2>1. i \in Nat /\ j \in Nat /\ ~ (<<j, i>> \in earlier)
      BY <1>2, <1>3
    <2>2. <<j, i>> \in Nat \X Nat /\ <<j, i>>[1] = j /\ <<j, i>>[2] = i
      BY <2>1
    <2>3. ~ (j < i)
      BY <2>1, <2>2
    <2>4. QED
      BY <2>1, <2>3
  <1>5. QED
    BY <1>4

\* All are accepted, or one that is not decides.
LEMMA FirstOf ==
    ASSUME NEW n \in Nat, NEW results, DOMAIN results = 1..n
    PROVE  \/ First(results) = Accepted /\ \A i \in 1..n : results[i] = Accepted
           \/ \E i \in 1..n : /\ First(results) = results[i] /\ results[i] # Accepted
                              /\ \A j \in 1..n : j < i => results[j] = Accepted
PROOF
  <1> DEFINE refused == {i \in DOMAIN results : results[i] # Accepted}
  <1>1. CASE refused = {}
    BY <1>1 DEF First
  <1>2. CASE refused # {}
    <2>1. refused \in SUBSET (1..n)
      OBVIOUS
    <2>2. \E i \in refused : \A j \in refused : i <= j
      <3> HIDE DEF refused
      <3>1. QED
        BY <1>2, <2>1, FirstPosition
    <2> DEFINE first == CHOOSE i \in refused : \A j \in refused : i <= j
    <2>3. first \in refused /\ \A j \in refused : first <= j
      BY <2>2
    <2>4. First(results) = results[first]
      BY <1>2 DEF First
    <2>5. ASSUME NEW j \in 1..n, j < first PROVE results[j] = Accepted
      BY <2>1, <2>3, <2>5
    <2> HIDE DEF first
    <2>6. QED
      BY <2>3, <2>4, <2>5
  <1>3. QED
    BY <1>1, <1>2


(***************************************************************************)
(* What the checks may answer, and what their acceptance means.            *)
(***************************************************************************)
Kinds ==
    {"Accepted", "DuplicateMember", "InvalidIdentifier", "InvalidHnswConfig", "NotYetImplemented",
     "InvalidVector", "DimensionMismatch", "FamilyMismatch", "UnencodableOperation", "EmptyBatch",
     "RecordMismatch", "TransitionNotPermitted"}

Details ==
    {"", "encoding", "json key", "json value", "Vector", "Fts", "too deep", "misread",
     "no canonical encoding", "Absent", "Active", "Destroyed"}

Refusals == [kind : Kinds, subject : Nat, detail : Details]

\* An acceptance is one of the answers.
LEMMA AcceptedTyped == Accepted \in Refusals
PROOF
  BY DEF Accepted, Refusal, Refusals, Kinds, Details

\* A refusal is an answer, and no acceptance.
LEMMA RefusalTyped ==
    ASSUME NEW kind \in Kinds, NEW subject \in Nat, NEW detail \in Details
    PROVE  /\ Refusal(kind, subject, detail) \in Refusals
           /\ kind # "Accepted" => Refusal(kind, subject, detail) # Accepted
PROOF
  BY DEF Refusal, Refusals, Accepted

\* The first of typed answers is typed.
LEMMA FirstTyped ==
    ASSUME NEW n \in Nat, NEW results \in [1..n -> Refusals]
    PROVE  /\ First(results) \in Refusals
           /\ First(results) = Accepted <=> \A i \in 1..n : results[i] = Accepted
PROOF
  <1>1. DOMAIN results = 1..n
    OBVIOUS
  <1>2. \/ First(results) = Accepted /\ \A i \in 1..n : results[i] = Accepted
        \/ \E i \in 1..n : First(results) = results[i] /\ results[i] # Accepted
    BY <1>1, FirstOf
  <1>3. QED
    BY <1>2, AcceptedTyped

\* The same of the checks that are listed one by one.
LEMMA FirstOfTwo ==
    ASSUME NEW a \in Refusals, NEW b \in Refusals
    PROVE  /\ First(<<a, b>>) \in Refusals
           /\ First(<<a, b>>) = Accepted <=> a = Accepted /\ b = Accepted
PROOF
  <1>1. <<a, b>> \in [1..2 -> Refusals] /\ <<a, b>>[1] = a /\ <<a, b>>[2] = b
    OBVIOUS
  <1>2. \A i \in 1..2 : i = 1 \/ i = 2
    OBVIOUS
  <1>3. 1 \in 1..2 /\ 2 \in 1..2
    OBVIOUS
  <1>4. QED
    BY <1>1, <1>2, <1>3, FirstTyped

\* Of three checks, the first decides where it refuses.
LEMMA FirstOfThree ==
    ASSUME NEW a \in Refusals, NEW b \in Refusals, NEW c \in Refusals
    PROVE  /\ First(<<a, b, c>>) \in Refusals
           /\ First(<<a, b, c>>) = Accepted <=> a = Accepted /\ b = Accepted /\ c = Accepted
           /\ a # Accepted => First(<<a, b, c>>) = a
PROOF
  <1> DEFINE list == <<a, b, c>>
  <1>1. list \in [1..3 -> Refusals] /\ list[1] = a /\ list[2] = b /\ list[3] = c
    OBVIOUS
  <1>2. \A i \in 1..3 : i = 1 \/ i = 2 \/ i = 3
    OBVIOUS
  <1>3. 1 \in 1..3 /\ 2 \in 1..3 /\ 3 \in 1..3
    OBVIOUS
  <1> HIDE DEF list
  <1>4. First(list) \in Refusals /\ (First(list) = Accepted <=> \A i \in 1..3 : list[i] = Accepted)
    BY <1>1, FirstTyped
  <1>5. DOMAIN list = 1..3
    BY <1>1
  <1>6. ASSUME a # Accepted PROVE First(list) = a
    <2>1. PICK i \in 1..3 : /\ First(list) = list[i] /\ list[i] # Accepted
                            /\ \A j \in 1..3 : j < i => list[j] = Accepted
      BY <1>1, <1>3, <1>5, <1>6, FirstOf
    <2>2. i = 1
      BY <1>1, <1>2, <1>3, <1>6, <2>1
    <2>3. QED
      BY <1>1, <2>1, <2>2
  <1>7. QED
    BY <1>1, <1>2, <1>3, <1>4, <1>6 DEF list

\* Of four checks, one of the first two decides where it refuses.
LEMMA FirstOfFour ==
    ASSUME NEW a \in Refusals, NEW b \in Refusals, NEW c \in Refusals, NEW d \in Refusals
    PROVE  /\ First(<<a, b, c, d>>) \in Refusals
           /\ First(<<a, b, c, d>>) = Accepted <=>
                 a = Accepted /\ b = Accepted /\ c = Accepted /\ d = Accepted
           /\ a # Accepted => First(<<a, b, c, d>>) = a
           /\ a = Accepted /\ b # Accepted => First(<<a, b, c, d>>) = b
PROOF
  <1> DEFINE list == <<a, b, c, d>>
  <1>1. /\ list \in [1..4 -> Refusals]
        /\ list[1] = a /\ list[2] = b /\ list[3] = c /\ list[4] = d
    OBVIOUS
  <1>2. \A i \in 1..4 : i = 1 \/ i = 2 \/ i = 3 \/ i = 4
    OBVIOUS
  <1>3. 1 \in 1..4 /\ 2 \in 1..4 /\ 3 \in 1..4 /\ 4 \in 1..4
    OBVIOUS
  <1> HIDE DEF list
  <1>4. First(list) \in Refusals /\ (First(list) = Accepted <=> \A i \in 1..4 : list[i] = Accepted)
    BY <1>1, FirstTyped
  <1>5. DOMAIN list = 1..4
    BY <1>1
  <1>6. ASSUME a # Accepted \/ b # Accepted
        PROVE  First(list) = IF a # Accepted THEN a ELSE b
    <2>1. PICK i \in 1..4 : /\ First(list) = list[i] /\ list[i] # Accepted
                            /\ \A j \in 1..4 : j < i => list[j] = Accepted
      BY <1>1, <1>3, <1>5, <1>6, FirstOf
    <2>2. i = IF a # Accepted THEN 1 ELSE 2
      BY <1>1, <1>2, <1>3, <1>6, <2>1
    <2>3. QED
      BY <1>1, <2>1, <2>2
  <1>7. QED
    BY <1>1, <1>2, <1>3, <1>4, <1>6 DEF list

\* The engines' checks of one configuration and one member's content.
LEMMA EngineChecksTyped ==
    ASSUME NEW config \in Configs, NEW item \in Items
    PROVE  /\ check_config(config) \in Refusals /\ require_simple_pipeline(config) \in Refusals
           /\ check_index_config(config) \in Refusals
           /\ check_finite(item.content) \in Refusals
           /\ FamilyCheck(config.family, item.content) \in Refusals
           /\ check_content(config, item.content) \in Refusals
PROOF
  <1> USE DEF Refusal, Refusals, Kinds, Details, Accepted
  <1>1. check_config(config) \in Refusals /\ require_simple_pipeline(config) \in Refusals
    BY DEF check_config, require_simple_pipeline
  <1>2. check_finite(item.content) \in Refusals
    BY DEF check_finite
  <1>3. config.family \in {"Vector", "Fts"} /\ item.content.dimension \in Nat
    BY ChecksAssumption DEF ChecksAssumption
  <1>4. FamilyCheck(config.family, item.content) \in Refusals
    BY <1>3 DEF FamilyCheck
  <1>5. (IF item.content.dimension # config.dimension
         THEN Refusal("DimensionMismatch", item.content.dimension, "") ELSE Accepted) \in Refusals
    BY <1>3
  <1>6. check_vector(config, item.content) \in Refusals
    <2> HIDE DEF Refusal, Refusals, Kinds, Details, Accepted
    <2>1. QED
      BY <1>1, <1>2, <1>5, FirstOfThree DEF check_vector
  <1> HIDE DEF Refusal, Refusals, Kinds, Details, Accepted
  <1>7. check_index_config(config) \in Refusals /\ check_content(config, item.content) \in Refusals
    BY <1>1, <1>4, <1>6 DEF check_index_config, check_content
  <1>8. QED
    BY <1>1, <1>2, <1>4, <1>7


\* The checks of the members of a batch that need no configuration
\* (check_finite_vectors, check_single_family).
LEMMA BatchAloneTyped ==
    ASSUME NEW n \in Nat, NEW members \in [1..n -> Items]
    PROVE  check_finite_vectors(members) \in Refusals /\ check_single_family(members) \in Refusals
PROOF
  <1>1. DOMAIN members = 1..n
    OBVIOUS
  <1>2. ASSUME NEW i \in 1..n PROVE check_finite(members[i].content) \in Refusals
    <2>1. "InvalidVector" \in Kinds /\ "" \in Details
      BY DEF Kinds, Details
    <2>2. QED
      BY <2>1, RefusalTyped, AcceptedTyped DEF check_finite
  <1>3. check_finite_vectors(members) \in Refusals
    <2> DEFINE results == [i \in 1..n |-> IF members[i].content.family = "Vector"
                                          THEN check_finite(members[i].content) ELSE Accepted]
    <2>1. results \in [1..n -> Refusals]
      BY <1>2, AcceptedTyped
    <2>2. check_finite_vectors(members) = First(results)
      BY <1>1 DEF check_finite_vectors, ForEach
    <2> HIDE DEF results
    <2>3. QED
      BY <2>1, <2>2, FirstTyped
  <1>4. check_single_family(members) \in Refusals
    <2> DEFINE results == [i \in 1..n |->
                              FamilyCheck(members[1].content.family, members[i].content)]
    <2>1. ASSUME NEW i \in 1..n
          PROVE  FamilyCheck(members[1].content.family, members[i].content) \in Refusals
      <3>1. 1 \in 1..n
        OBVIOUS
      <3>2. members[1].content.family \in {"Vector", "Fts"}
        BY <3>1, ChecksAssumption DEF ChecksAssumption
      <3>3. QED
        BY <3>2 DEF FamilyCheck, Refusal, Refusals, Kinds, Details, Accepted
    <2>2. results \in [1..n -> Refusals]
      BY <2>1
    <2>3. check_single_family(members) = First(results)
      BY <1>1 DEF check_single_family, ForEach
    <2> HIDE DEF results
    <2>4. QED
      BY <2>2, <2>3, FirstTyped
  <1>5. QED
    BY <1>3, <1>4

\* The checks of the members of a batch, one by one against a configuration
\* (check_members_fit, VersionEngine::insert).
LEMMA BatchChecksTyped ==
    ASSUME NEW n \in Nat, NEW members \in [1..n -> Items], NEW config \in Configs
    PROVE  /\ check_members_fit(config, members) \in Refusals
           /\ EngineRefusal(config, members) \in Refusals
           /\ check_members_fit(config, members) = Accepted =>
                 EngineRefusal(config, members) = Accepted
           /\ EngineRefusal(config, members) = Accepted =>
                 \A i \in 1..n : check_content(config, members[i].content) = Accepted
PROOF
  <1>1. DOMAIN members = 1..n
    OBVIOUS
  <1>2. ASSUME NEW i \in 1..n
        PROVE  /\ FamilyCheck(config.family, members[i].content) \in Refusals
               /\ check_content(config, members[i].content) \in Refusals
    BY EngineChecksTyped
  <1> DEFINE families == [i \in 1..n |-> FamilyCheck(config.family, members[i].content)]
  <1> DEFINE contents == [i \in 1..n |-> check_content(config, members[i].content)]
  <1>3. families \in [1..n -> Refusals] /\ contents \in [1..n -> Refusals]
    BY <1>2
  <1>4. /\ check_members_fit(config, members) = First(<<First(families), First(contents)>>)
        /\ EngineRefusal(config, members) = First(contents)
    BY <1>1 DEF check_members_fit, EngineRefusal, ForEach
  <1>5. \A i \in 1..n : contents[i] = check_content(config, members[i].content)
    OBVIOUS
  <1> HIDE DEF families, contents
  <1>6. /\ First(families) \in Refusals
        /\ First(contents) \in Refusals
        /\ First(contents) = Accepted <=> \A i \in 1..n : contents[i] = Accepted
    BY <1>3, FirstTyped
  <1>7. /\ First(<<First(families), First(contents)>>) \in Refusals
        /\ First(<<First(families), First(contents)>>) = Accepted => First(contents) = Accepted
    BY <1>6, FirstOfTwo
  <1>8. QED
    BY <1>4, <1>5, <1>6, <1>7

BadIdentity == NotAKey \cup KeyMisread \cup ValueMisread

\* The length of a list.
LEMMA ListLength ==
    ASSUME NEW n \in Nat, NEW S, NEW list \in [1..n -> S]
    PROVE  list \in Seq(S) /\ Len(list) = n
PROOF
  <1>1. list \in Seq(S)
    OBVIOUS
  <1>2. DOMAIN list = 1..n /\ DOMAIN list = 1..Len(list) /\ Len(list) \in Nat
    BY <1>1
  <1>3. QED
    BY <1>1, <1>2

\* An accepted list of identities has each one once and stores each one as it is.
LEMMA IdentitiesChecked ==
    ASSUME NEW n \in Nat, NEW ids \in [1..n -> Ids]
    PROVE  /\ check_member_identities(ids) \in Refusals
           /\ check_member_identities(ids) = Accepted =>
                 \A k \in 1..n : ids[k] \notin BadIdentity
           /\ (\E k \in 1..(n - 1) : ids[k] = ids[k + 1]) =>
                 check_member_identities(ids) # Accepted
PROOF
  <1> DEFINE twice == {i \in 1 .. Len(ids) - 1 : ids[i] = ids[i + 1]}
  <1> DEFINE refusal(id) ==
        IF id \in NotAKey \cup KeyMisread \cup ValueMisread
        THEN Refusal("InvalidIdentifier", id,
                 IF id \in NotAKey THEN "encoding"
                 ELSE IF id \in KeyMisread THEN "json key" ELSE "json value")
        ELSE Accepted
  <1> DEFINE results == [k \in 1..n |-> refusal(ids[k])]
  <1>1. Len(ids) = n /\ DOMAIN ids = 1..n
    BY ListLength
  <1>2. Ids \subseteq Nat
    BY ChecksAssumption DEF ChecksAssumption
  <1>3. CASE twice = {}
    <2>1. check_member_identities(ids) = First(results)
      BY <1>1, <1>3 DEF check_member_identities, ForEach
    <2>2. ASSUME NEW k \in 1..n
          PROVE  /\ refusal(ids[k]) \in Refusals
                 /\ refusal(ids[k]) = Accepted => ids[k] \notin BadIdentity
      <3>1. ids[k] \in Nat
        BY <1>2
      <3>2. CASE ids[k] \in BadIdentity
        BY <3>1, <3>2 DEF BadIdentity, Refusal, Refusals, Kinds, Details, Accepted
      <3>3. CASE ids[k] \notin BadIdentity
        BY <3>3, AcceptedTyped DEF BadIdentity
      <3>4. QED
        BY <3>2, <3>3
    <2>3. results \in [1..n -> Refusals]
      BY <2>2
    <2>4. \A k \in 1..n : results[k] = Accepted => ids[k] \notin BadIdentity
      BY <2>2
    <2>5. ~ \E k \in 1..(n - 1) : ids[k] = ids[k + 1]
      BY <1>1, <1>3
    <2> HIDE DEF results
    <2>6. QED
      BY <2>1, <2>3, <2>4, <2>5, FirstTyped
  <1>4. CASE twice # {}
    <2> DEFINE first == CHOOSE i \in twice : \A j \in twice : i <= j
    <2>1. twice \in SUBSET (1..n)
      BY <1>1
    <2>2. \E i \in twice : \A j \in twice : i <= j
      <3> HIDE DEF twice
      <3>1. QED
        BY <1>4, <2>1, FirstPosition
    <2>3. first \in twice
      BY <2>2
    <2>4. ids[first] \in Nat
      BY <1>2, <2>1, <2>3
    <2>5. check_member_identities(ids) = Refusal("DuplicateMember", ids[first], "")
      BY <1>4, Zenon DEF check_member_identities
    <2> HIDE DEF first
    <2>6. /\ check_member_identities(ids) \in Refusals
          /\ check_member_identities(ids) # Accepted
      <3> HIDE DEF twice, refusal, results
      <3>1. "DuplicateMember" \in Kinds /\ "" \in Details
        BY DEF Kinds, Details
      <3>2. QED
        BY <2>4, <2>5, <3>1, RefusalTyped
    <2>7. QED
      BY <2>6
  <1>5. QED
    BY <1>3, <1>4


(***************************************************************************)
(* Whole operations.                                                       *)
(***************************************************************************)
ListsOf(S) == UNION {[1..n -> S] : n \in Nat}

\* What each kind of operation carries.
LEMMA OperationForms ==
    ASSUME NEW operation \in LifecycleOperation
    PROVE  LET change == operation.change
           IN  /\ operation.index \in Indexes
               /\ change.transition \in {"Create", "Insert", "Remove", "Rebuild", "Destroy"}
               /\ change.transition \in {"Create", "Rebuild"} => change.config \in Configs
               /\ change.transition \in {"Insert", "Rebuild"} => change.members \in ListsOf(Items)
               /\ change.transition = "Remove" => change.ids \in ListsOf(Ids)
               /\ change.transition = "Destroy" => change.retention \in Values
PROOF
  <1>1. operation.index \in Indexes /\ operation.change \in Changes
    BY DEF LifecycleOperation
  <1>2. \A S : Lists(S) \subseteq ListsOf(S)
    BY ChecksAssumption DEF ChecksAssumption, Lists, ListsOf
  <1> DEFINE change == operation.change
  <1>3. \/ change \in [transition : {"Create"}, config : Configs]
        \/ change \in [transition : {"Insert"}, members : Lists(Items)]
        \/ change \in [transition : {"Remove"}, ids : Lists(Ids)]
        \/ change \in [transition : {"Rebuild"}, config : Configs, members : Lists(Items)]
        \/ change \in [transition : {"Destroy"}, retention : Values]
    BY <1>1 DEF Changes
  <1> HIDE DEF change
  <1>4. CASE change \in [transition : {"Create"}, config : Configs]
    BY <1>1, <1>4 DEF change
  <1>5. CASE change \in [transition : {"Insert"}, members : Lists(Items)]
    BY <1>1, <1>2, <1>5 DEF change
  <1>6. CASE change \in [transition : {"Remove"}, ids : Lists(Ids)]
    BY <1>1, <1>2, <1>6 DEF change
  <1>7. CASE change \in [transition : {"Rebuild"}, config : Configs, members : Lists(Items)]
    BY <1>1, <1>2, <1>7 DEF change
  <1>8. CASE change \in [transition : {"Destroy"}, retention : Values]
    BY <1>1, <1>8 DEF change
  <1>9. QED
    BY <1>3, <1>4, <1>5, <1>6, <1>7, <1>8

\* A sorted batch is a batch, and what its identities and members are checked for holds
\* of every member in it (check_change).
LEMMA SortedBatch ==
    ASSUME NEW n \in Nat, NEW list \in [1..n -> Items]
    PROVE  LET members == sorted_members(list)
           IN  /\ members \in [1..n -> Items]
               /\ check_member_identities(member_ids(members)) \in Refusals
               /\ check_member_identities(member_ids(members)) = Accepted =>
                     \A k \in 1..n : members[k].id \notin BadIdentity
PROOF
  <1> DEFINE members == sorted_members(list)
  <1>1. members \in [1..n -> Items] /\ member_ids(members) \in [1..n -> Ids]
    BY SortedMembers
  <1>2. DOMAIN members = 1..n
    BY <1>1
  <1>3. \A k \in 1..n : member_ids(members)[k] = members[k].id
    BY <1>2 DEF member_ids
  <1> HIDE DEF members
  <1>4. QED
    BY <1>1, <1>3, IdentitiesChecked DEF members

Round(value) == value.stable /\ value.depth <= MaxDepth

\* A value that passes reads back, and nests no deeper than the limit (json_round_trip).
LEMMA RoundTrip ==
    ASSUME NEW value \in Values, NEW of \in Nat
    PROVE  LET stored == [json_round_trip(value) EXCEPT
                            !.subject = IF json_round_trip(value) = Accepted THEN 0 ELSE of]
           IN  /\ stored \in Refusals
               /\ stored = Accepted => Round(value)
PROOF
  <1>1. value.depth \in Nat /\ MaxDepth \in Nat
    BY ChecksAssumption DEF ChecksAssumption
  <1>2. json_round_trip(value) \in Refusals
    <2>1. /\ {"UnencodableOperation"} \subseteq Kinds /\ 0 \in Nat
          /\ {"too deep", "misread"} \subseteq Details
      BY DEF Kinds, Details
    <2>2. QED
      BY <2>1, RefusalTyped, AcceptedTyped DEF json_round_trip
  <1>3. json_round_trip(value) = Accepted \/ json_round_trip(value).kind # "Accepted"
    BY DEF json_round_trip, Refusal
  <1>4. json_round_trip(value) = Accepted => Round(value)
    <2>1. ASSUME json_round_trip(value) = Accepted PROVE Round(value)
      <3>1. ~ (value.depth > MaxDepth)
        BY <2>1 DEF json_round_trip, Refusal, Accepted
      <3>2. value.stable
        BY <2>1, <3>1, Zenon DEF json_round_trip, Refusal, Accepted
      <3>3. value.depth <= MaxDepth
        BY <1>1, <3>1
      <3>4. QED
        BY <3>2, <3>3, Zenon DEF Round
    <2>2. QED
      BY <2>1
  <1>5. Accepted.kind = "Accepted"
    BY DEF Accepted, Refusal
  <1>6. ASSUME NEW subject \in Nat
        PROVE  [json_round_trip(value) EXCEPT !.subject = subject] \in Refusals
    BY <1>2 DEF Refusals
  <1>7. ASSUME NEW subject \in Nat, json_round_trip(value) # Accepted
        PROVE  [json_round_trip(value) EXCEPT !.subject = subject].kind # "Accepted"
    BY <1>2, <1>3, <1>7 DEF Refusals
  <1>8. QED
    BY <1>4, <1>5, <1>6, <1>7


StoredValue == [of : Nat, value : Values]

\* What an operation stores: the provenance of each sorted member, or the retention.
LEMMA StoredTyped ==
    ASSUME NEW operation \in LifecycleOperation
    PROVE  LET change == operation.change
           IN  /\ StoredValues(change) \in ListsOf(StoredValue)
               /\ change.transition \in {"Insert", "Rebuild"} =>
                     \A n \in Nat : change.members \in [1..n -> Items] =>
                        \A i \in 1..n : i \in DOMAIN StoredValues(change)
                           /\ StoredValues(change)[i].value =
                                 sorted_members(change.members)[i].provenance
               /\ change.transition = "Destroy" =>
                     1 \in DOMAIN StoredValues(change)
                     /\ StoredValues(change)[1].value = change.retention
PROOF
  <1> DEFINE change == operation.change
  <1>1. /\ change.transition \in {"Create", "Insert", "Remove", "Rebuild", "Destroy"}
        /\ change.transition \in {"Insert", "Rebuild"} => change.members \in ListsOf(Items)
        /\ change.transition = "Destroy" => change.retention \in Values
    BY OperationForms
  <1>2. \A item \in Items : item.id \in Nat /\ item.provenance \in Values
    BY ChecksAssumption DEF ChecksAssumption
  <1> HIDE DEF change
  <1>3. CASE change.transition \in {"Insert", "Rebuild"}
    <2>1. StoredValues(change) =
             [i \in DOMAIN sorted_members(change.members) |->
                [of |-> sorted_members(change.members)[i].id,
                 value |-> sorted_members(change.members)[i].provenance]]
      BY <1>3 DEF StoredValues
    <2>2. ASSUME NEW n \in Nat, change.members \in [1..n -> Items]
          PROVE  /\ StoredValues(change) \in [1..n -> StoredValue]
                 /\ \A i \in 1..n : StoredValues(change)[i].value =
                                       sorted_members(change.members)[i].provenance
      <3>1. sorted_members(change.members) \in [1..n -> Items]
        BY <2>2, SortedMembers
      <3>2. DOMAIN sorted_members(change.members) = 1..n
        BY <3>1
      <3>3. \A i \in 1..n : sorted_members(change.members)[i] \in Items
        BY <3>1
      <3>4. QED
        BY <1>2, <2>1, <3>2, <3>3 DEF StoredValue
    <2>3. PICK n \in Nat : change.members \in [1..n -> Items]
      BY <1>1, <1>3 DEF ListsOf
    <2>4. StoredValues(change) \in ListsOf(StoredValue)
      BY <2>2, <2>3 DEF ListsOf
    <2>5. QED
      BY <1>3, <2>2, <2>4 DEF change
  <1>4. CASE change.transition = "Destroy"
    <2>1. StoredValues(change) = <<[of |-> 0, value |-> change.retention]>>
      BY <1>4 DEF StoredValues
    <2>2. [of |-> 0, value |-> change.retention] \in StoredValue
      BY <1>1, <1>4 DEF StoredValue
    <2>3. /\ StoredValues(change) \in [1..1 -> StoredValue]
          /\ 1 \in DOMAIN StoredValues(change)
          /\ StoredValues(change)[1].value = change.retention
      BY <2>1, <2>2
    <2>4. QED
      BY <1>4, <2>3 DEF ListsOf, change
  <1>5. CASE change.transition \in {"Create", "Remove"}
    <2>1. StoredValues(change) = <<>>
      BY <1>5 DEF StoredValues
    <2>2. StoredValues(change) \in [1..0 -> StoredValue]
      BY <2>1
    <2>3. QED
      BY <1>5, <2>2 DEF ListsOf, change
  <1>6. QED
    BY <1>1, <1>3, <1>4, <1>5

\* An empty batch is refused as such.
LEMMA EmptyBatchTyped ==
    ASSUME NEW list
    PROVE  EmptyBatch(list) \in Refusals
PROOF
  <1>1. "EmptyBatch" \in Kinds /\ "" \in Details
    BY DEF Kinds, Details
  <1>2. QED
    BY <1>1, RefusalTyped, AcceptedTyped DEF EmptyBatch

\* What the digest and the checks of stored values answer, and what they pass.
LEMMA StoredChecksTyped ==
    ASSUME NEW operation \in LifecycleOperation
    PROVE  LET change == operation.change
           IN  /\ DigestRefusal(change) \in Refusals
               /\ check_stored_values(change) \in Refusals
               /\ check_stored_values(change) = Accepted =>
                     \A i \in DOMAIN StoredValues(change) : Round(StoredValues(change)[i].value)
PROOF
  <1> DEFINE change == operation.change
  <1> DEFINE values == StoredValues(change)
  <1>1. PICK m \in Nat : values \in [1..m -> StoredValue]
    BY StoredTyped DEF ListsOf
  <1>2. DigestRefusal(change) =
           First([i \in DOMAIN values |-> IF values[i].value.canonical THEN Accepted
                    ELSE Refusal("UnencodableOperation", 0, "no canonical encoding")])
    BY DEF DigestRefusal, ForEach
  <1>3. check_stored_values(change) =
           First([i \in DOMAIN values |->
                    [json_round_trip(values[i].value) EXCEPT
                        !.subject = IF json_round_trip(values[i].value) = Accepted
                                    THEN 0 ELSE values[i].of]])
    BY DEF check_stored_values, ForEach
  <1> HIDE DEF values, change
  <1>4. DOMAIN values = 1..m /\ \A i \in 1..m : values[i].value \in Values /\ values[i].of \in Nat
    BY <1>1 DEF StoredValue
  <1>5. DigestRefusal(change) \in Refusals
    <2> DEFINE results == [i \in 1..m |-> IF values[i].value.canonical THEN Accepted
                             ELSE Refusal("UnencodableOperation", 0, "no canonical encoding")]
    <2>1. Refusal("UnencodableOperation", 0, "no canonical encoding") \in Refusals
      BY RefusalTyped DEF Kinds, Details
    <2>2. results \in [1..m -> Refusals]
      BY <2>1, AcceptedTyped
    <2>3. DigestRefusal(change) = First(results)
      BY <1>2, <1>4
    <2> HIDE DEF results
    <2>4. QED
      BY <2>2, <2>3, FirstTyped
  <1>6. /\ check_stored_values(change) \in Refusals
        /\ check_stored_values(change) = Accepted => \A i \in 1..m : Round(values[i].value)
    <2> DEFINE results == [i \in 1..m |->
                             [json_round_trip(values[i].value) EXCEPT
                                !.subject = IF json_round_trip(values[i].value) = Accepted
                                            THEN 0 ELSE values[i].of]]
    <2>1. ASSUME NEW i \in 1..m
          PROVE  results[i] \in Refusals /\ (results[i] = Accepted => Round(values[i].value))
      BY <1>4, RoundTrip
    <2>2. results = [i \in 1..m |-> results[i]]
      OBVIOUS
    <2>3. check_stored_values(change) = First(results)
      BY <1>3, <1>4
    <2> HIDE DEF results
    <2>4. results \in [1..m -> Refusals]
      BY <2>1, <2>2
    <2>5. QED
      BY <2>1, <2>3, <2>4, FirstTyped
  <1>7. QED
    BY <1>4, <1>5, <1>6 DEF values, change

\* What check_change passes has sound identities, and what it installs is a sound
\* configuration that the rebuilt content fits.
LEMMA ChangeChecked ==
    ASSUME NEW operation \in LifecycleOperation
    PROVE  LET change == operation.change
               members == sorted_members(change.members)
           IN  /\ check_change(change) \in Refusals
               /\ check_change(change) = Accepted =>
                  /\ change.transition \in {"Create", "Rebuild"} =>
                        check_index_config(change.config) = Accepted
                  /\ change.transition \in {"Insert", "Rebuild"} =>
                        check_member_identities(member_ids(members)) = Accepted
                  /\ change.transition = "Rebuild" =>
                        check_members_fit(change.config, members) = Accepted
PROOF
  <1> DEFINE change == operation.change
  <1> DEFINE members == sorted_members(change.members)
  <1>1. /\ change.transition \in {"Create", "Insert", "Remove", "Rebuild", "Destroy"}
        /\ change.transition \in {"Create", "Rebuild"} => change.config \in Configs
        /\ change.transition \in {"Insert", "Rebuild"} => change.members \in ListsOf(Items)
        /\ change.transition = "Remove" => change.ids \in ListsOf(Ids)
    BY OperationForms
  <1> HIDE DEF change
  <1>2. ASSUME change.transition \in {"Create", "Rebuild"}
        PROVE  check_index_config(change.config) \in Refusals
    <2>1. change.config \in Configs
      BY <1>1, <1>2
    <2>2. check_config(change.config) \in Refusals /\ require_simple_pipeline(change.config) \in Refusals
      <3>1. {"InvalidHnswConfig", "NotYetImplemented"} \subseteq Kinds /\ "" \in Details
        BY DEF Kinds, Details
      <3>2. QED
        BY <3>1, RefusalTyped, AcceptedTyped DEF check_config, require_simple_pipeline
    <2>3. QED
      BY <2>2 DEF check_index_config
  <1>3. ASSUME change.transition \in {"Insert", "Rebuild"}
        PROVE  /\ check_member_identities(member_ids(members)) \in Refusals
               /\ check_finite_vectors(members) \in Refusals
               /\ \A config \in Configs : check_members_fit(config, members) \in Refusals
               /\ check_single_family(members) \in Refusals
    <2>1. PICK n \in Nat : change.members \in [1..n -> Items]
      BY <1>1, <1>3 DEF ListsOf
    <2>2. /\ members \in [1..n -> Items]
          /\ check_member_identities(member_ids(members)) \in Refusals
      BY <2>1, SortedBatch
    <2> HIDE DEF members
    <2>3. \A config \in Configs : check_members_fit(config, members) \in Refusals
      BY <2>2, BatchChecksTyped
    <2>4. check_finite_vectors(members) \in Refusals /\ check_single_family(members) \in Refusals
      BY <2>2, BatchAloneTyped
    <2>5. QED
      BY <2>2, <2>3, <2>4
  <1> HIDE DEF members
  <1>4. CASE change.transition = "Create"
    <2>1. check_change(change) = check_index_config(change.config)
      BY <1>4 DEF check_change
    <2>2. QED
      BY <1>2, <1>4, <2>1 DEF change
  <1>5. CASE change.transition = "Insert"
    <2>1. check_change(change) =
             First(<<EmptyBatch(change.members), check_member_identities(member_ids(members)),
                     check_finite_vectors(members), check_single_family(members)>>)
      BY <1>5 DEF check_change, members
    <2>2. EmptyBatch(change.members) \in Refusals
      BY EmptyBatchTyped
    <2>3. /\ check_change(change) \in Refusals
          /\ check_change(change) = Accepted =>
                check_member_identities(member_ids(members)) = Accepted
      BY <1>3, <1>5, <2>1, <2>2, FirstOfFour
    <2>4. QED
      BY <1>5, <2>3 DEF change, members
  <1>6. CASE change.transition = "Rebuild"
    <2>1. check_change(change) =
             First(<<check_member_identities(member_ids(members)), check_finite_vectors(members),
                     check_index_config(change.config),
                     check_members_fit(change.config, members)>>)
      BY <1>6 DEF check_change, members
    <2>2. check_members_fit(change.config, members) \in Refusals
      BY <1>1, <1>3, <1>6
    <2>3. /\ check_change(change) \in Refusals
          /\ check_change(change) = Accepted =>
                /\ check_member_identities(member_ids(members)) = Accepted
                /\ check_index_config(change.config) = Accepted
                /\ check_members_fit(change.config, members) = Accepted
      BY <1>2, <1>3, <1>6, <2>1, <2>2, FirstOfFour
    <2>4. QED
      BY <1>6, <2>3 DEF change, members
  <1>7. CASE change.transition = "Remove"
    <2>1. check_change(change) =
             First(<<EmptyBatch(change.ids), check_member_identities(sorted_ids(change.ids))>>)
      BY <1>7 DEF check_change
    <2>2. PICK n \in Nat : change.ids \in [1..n -> Ids]
      BY <1>1, <1>7 DEF ListsOf
    <2>3. sorted_ids(change.ids) \in [1..n -> Ids]
      <3>1. change.ids \in [1..n -> Nat]
        BY <2>2, ChecksAssumption DEF ChecksAssumption
      <3>2. \A k \in 1..n : Position(change.ids, k) \in 1..n
        BY <3>1, PositionOfPlace
      <3>3. QED
        BY <2>2, <3>2 DEF sorted_ids
    <2>4. check_change(change) \in Refusals
      BY <2>1, <2>3, EmptyBatchTyped, IdentitiesChecked, FirstOfTwo
    <2>5. QED
      BY <1>7, <2>4 DEF change
  <1>8. CASE change.transition = "Destroy"
    <2>1. check_change(change) = Accepted
      BY <1>8 DEF check_change
    <2>2. QED
      BY <1>8, <2>1, AcceptedTyped DEF change
  <1>9. QED
    BY <1>1, <1>4, <1>5, <1>6, <1>7, <1>8


\* What CheckedOperation::check answers, and what it passes.
LEMMA OperationChecked ==
    ASSUME NEW operation \in LifecycleOperation
    PROVE  LET change == operation.change
           IN  /\ check(operation) \in Refusals
               /\ check(operation) = Accepted =>
                  /\ check_change(change) = Accepted
                  /\ \A i \in DOMAIN StoredValues(change) : Round(StoredValues(change)[i].value)
               /\ check_change(change) # Accepted => check(operation) = check_change(change)
PROOF
  <1>1. /\ check_change(operation.change) \in Refusals
        /\ DigestRefusal(operation.change) \in Refusals
        /\ check_stored_values(operation.change) \in Refusals
    BY ChangeChecked, StoredChecksTyped
  <1>2. /\ check(operation) \in Refusals
        /\ check(operation) = Accepted <=>
              /\ check_change(operation.change) = Accepted
              /\ DigestRefusal(operation.change) = Accepted
              /\ check_stored_values(operation.change) = Accepted
        /\ check_change(operation.change) # Accepted =>
              check(operation) = check_change(operation.change)
    BY <1>1, FirstOfThree DEF check
  <1>3. QED
    BY <1>2, StoredChecksTyped

(***************************************************************************)
(* The invariant.                                                          *)
(***************************************************************************)
RecordOK ==
    /\ record.state \in {"Absent", "Active", "Destroyed"}
    /\ record.state # "Absent" => record.identity \in Indexes /\ record.config \in Configs
    /\ record.state = "Destroyed" => record.retention \in Values /\ Round(record.retention)

\* Engine and member table name the same members, each of which can be stored.
MembersOK ==
    /\ DOMAIN engine = DOMAIN table
    /\ \A id \in DOMAIN table :
        /\ id \in Ids \ BadIdentity
        /\ table[id] \in Values /\ Round(table[id])

FitsOK ==
    record.state = "Active" =>
        /\ check_index_config(record.config) = Accepted
        /\ \A id \in DOMAIN engine : check_content(record.config, engine[id]) = Accepted

\* The operation in progress passed check, unless the call already has its refusal.
CallOK ==
    /\ outcome \in Refusals
    /\ op # Idle => /\ op \in LifecycleOperation
                    /\ outcome = Accepted => check(op) = Accepted

ChecksInv == RecordOK /\ MembersOK /\ FitsOK /\ CallOK

\* What permit answers, and what it passes (check_against_record).
LEMMA OperationPermitted ==
    ASSUME RecordOK, NEW operation \in LifecycleOperation
    PROVE  LET change == operation.change
           IN  /\ permit(operation, record) \in Refusals
               /\ permit(operation, record) = Accepted =>
                  /\ change.transition = "Create" => record.state = "Absent"
                  /\ change.transition # "Create" => record.state = "Active"
                  /\ change.transition = "Insert" =>
                        check_members_fit(record.config, sorted_members(change.members)) = Accepted
PROOF
  <1> DEFINE change == operation.change
  <1>1. /\ change.transition \in {"Create", "Insert", "Remove", "Rebuild", "Destroy"}
        /\ change.transition = "Insert" => change.members \in ListsOf(Items)
    BY OperationForms
  <1>2. /\ {"RecordMismatch", "TransitionNotPermitted", "FamilyMismatch"} \subseteq Kinds
        /\ {"", "Absent", "Active", "Destroyed", "Vector", "Fts"} \subseteq Details
    BY DEF Kinds, Details
  <1>3. /\ Refusal("RecordMismatch", 0, "") \in Refusals
        /\ Refusal("RecordMismatch", 0, "") # Accepted
        /\ Refusal("TransitionNotPermitted", 0, record.state) \in Refusals
        /\ Refusal("TransitionNotPermitted", 0, record.state) # Accepted
    BY <1>2, RefusalTyped DEF RecordOK
  <1>4. ASSUME record.state # "Absent"
        PROVE  check_against_record(change, record.config) \in Refusals
    <2>1. record.config \in Configs /\ record.config.family \in {"Vector", "Fts"}
      BY <1>4, ChecksAssumption DEF RecordOK, ChecksAssumption
    <2> HIDE DEF change
    <2>2. CASE change.transition = "Insert"
      <3>1. PICK n \in Nat : change.members \in [1..n -> Items]
        BY <1>1, <2>2 DEF ListsOf
      <3>2. sorted_members(change.members) \in [1..n -> Items]
        BY <3>1, SortedMembers
      <3>3. check_members_fit(record.config, sorted_members(change.members)) \in Refusals
        BY <2>1, <3>2, BatchChecksTyped
      <3>4. QED
        BY <2>2, <3>3 DEF check_against_record
    <2>3. CASE change.transition = "Rebuild"
      <3>1. FamilyCheck(record.config.family, change.config) \in Refusals
        BY <1>2, <2>1, RefusalTyped, AcceptedTyped DEF FamilyCheck
      <3>2. QED
        BY <2>3, <3>1 DEF check_against_record
    <2>4. CASE change.transition \notin {"Insert", "Rebuild"}
      BY <2>4, AcceptedTyped DEF check_against_record
    <2>5. QED
      BY <2>2, <2>3, <2>4
  <1> HIDE DEF change
  <1>5. permit(operation, record) =
           IF record.state # "Absent" /\ record.identity # operation.index
           THEN Refusal("RecordMismatch", 0, "")
           ELSE IF ~ is_permitted_from(change.transition, record.state)
                THEN Refusal("TransitionNotPermitted", 0, record.state)
           ELSE IF record.state = "Absent" THEN Accepted
           ELSE check_against_record(change, record.config)
    BY DEF permit, change
  <1>6. permit(operation, record) \in Refusals
    BY <1>3, <1>4, <1>5, AcceptedTyped
  <1>7. ASSUME permit(operation, record) = Accepted
        PROVE  /\ change.transition = "Create" => record.state = "Absent"
               /\ change.transition # "Create" => record.state = "Active"
               /\ change.transition = "Insert" =>
                     check_members_fit(record.config, sorted_members(change.members)) = Accepted
    <2>1. is_permitted_from(change.transition, record.state)
      BY <1>3, <1>5, <1>7
    <2>2. record.state # "Absent" => check_against_record(change, record.config) = Accepted
      BY <1>3, <1>5, <1>7
    <2>3. QED
      BY <2>1, <2>2 DEF is_permitted_from, check_against_record
  <1>8. QED
    BY <1>6, <1>7 DEF change

WrittenContents(over, members) == Written(over, members, ContentOf)
WrittenProvenances(over, members) == Written(over, members, ProvenanceOf)

\* What inserts leave of a member: what was listed for it, or what was there.
LEMMA WrittenMembers ==
    ASSUME NEW n \in Nat, NEW members \in [1..n -> Items], NEW over, NEW under,
           DOMAIN over = DOMAIN under
    PROVE  LET contents == WrittenContents(over, members)
               provenances == WrittenProvenances(under, members)
           IN  /\ DOMAIN contents = DOMAIN provenances
               /\ \A id \in DOMAIN contents :
                  \/ \E i \in 1..n : /\ members[i].id = id
                                     /\ contents[id] = members[i].content
                                     /\ provenances[id] = members[i].provenance
                  \/ /\ id \in DOMAIN over
                     /\ contents[id] = over[id] /\ provenances[id] = under[id]
PROOF
  <1> DEFINE listed == {members[i].id : i \in 1..n}
  <1> DEFINE at(id) == CHOOSE i \in 1..n : members[i].id = id
  <1>1. DOMAIN members = 1..n
    OBVIOUS
  <1>2. WrittenContents(over, members) =
           [id \in DOMAIN over \cup listed |->
              IF \E i \in 1..n : members[i].id = id THEN members[at(id)].content ELSE over[id]]
    BY <1>1 DEF WrittenContents, Written, ContentOf
  <1>3. WrittenProvenances(under, members) =
           [id \in DOMAIN under \cup listed |->
              IF \E i \in 1..n : members[i].id = id THEN members[at(id)].provenance ELSE under[id]]
    BY <1>1 DEF WrittenProvenances, Written, ProvenanceOf
  <1>4. \A id : (\E i \in 1..n : members[i].id = id) => at(id) \in 1..n /\ members[at(id)].id = id
    OBVIOUS
  <1>5. \A id : id \in listed => \E i \in 1..n : members[i].id = id
    OBVIOUS
  <1> HIDE DEF at, listed
  <1>6. DOMAIN WrittenContents(over, members) = DOMAIN over \cup listed
    BY <1>2
  <1>7. ASSUME NEW id \in DOMAIN over \cup listed
        PROVE  \/ \E i \in 1..n : /\ members[i].id = id
                                 /\ WrittenContents(over, members)[id] = members[i].content
                                 /\ WrittenProvenances(under, members)[id] = members[i].provenance
               \/ /\ id \in DOMAIN over
                  /\ WrittenContents(over, members)[id] = over[id]
                  /\ WrittenProvenances(under, members)[id] = under[id]
    <2>1. CASE \E i \in 1..n : members[i].id = id
      BY <1>2, <1>3, <1>4, <2>1
    <2>2. CASE ~ \E i \in 1..n : members[i].id = id
      BY <1>2, <1>3, <1>5, <2>2
    <2>3. QED
      BY <2>1, <2>2
  <1>8. QED
    BY <1>2, <1>3, <1>6, <1>7


(***************************************************************************)
(* The steps.                                                              *)
(***************************************************************************)
\* Every member of a checked batch can be stored (check_member_identities,
\* check_stored_values).
LEMMA CheckedBatch ==
    ASSUME NEW operation \in LifecycleOperation, check(operation) = Accepted,
           operation.change.transition \in {"Insert", "Rebuild"}
    PROVE  \E n \in Nat :
              LET members == sorted_members(operation.change.members)
              IN  /\ members \in [1..n -> Items]
                  /\ \A i \in 1..n : /\ members[i].id \in Ids \ BadIdentity
                                     /\ members[i].provenance \in Values
                                     /\ Round(members[i].provenance)
PROOF
  <1> DEFINE members == sorted_members(operation.change.members)
  <1>1. PICK n \in Nat : operation.change.members \in [1..n -> Items]
    BY OperationForms DEF ListsOf
  <1>2. members \in [1..n -> Items]
    BY <1>1, SortedBatch
  <1>3. check_member_identities(member_ids(members)) = Accepted
    BY OperationChecked, ChangeChecked
  <1>4. \A i \in 1..n : members[i].id \notin BadIdentity
    BY <1>1, <1>3, SortedBatch
  <1>5. \A i \in 1..n : i \in DOMAIN StoredValues(operation.change)
                        /\ StoredValues(operation.change)[i].value = members[i].provenance
    BY <1>1, StoredTyped
  <1>6. \A i \in DOMAIN StoredValues(operation.change) :
            Round(StoredValues(operation.change)[i].value)
    BY OperationChecked
  <1> HIDE DEF members
  <1>7. \A i \in 1..n : members[i].id \in Ids /\ members[i].provenance \in Values
    BY <1>2, ChecksAssumption DEF ChecksAssumption
  <1>8. QED
    BY <1>2, <1>4, <1>5, <1>6, <1>7 DEF members

\* Writing a checked batch that fits leaves every member storable and fitting.
LEMMA WriteKeeps ==
    ASSUME NEW operation \in LifecycleOperation, check(operation) = Accepted,
           operation.change.transition \in {"Insert", "Rebuild"},
           NEW config \in Configs,
           EngineRefusal(config, sorted_members(operation.change.members)) = Accepted,
           NEW over, NEW under, DOMAIN over = DOMAIN under,
           \A id \in DOMAIN over : check_content(config, over[id]) = Accepted,
           \A id \in DOMAIN under :
              id \in Ids \ BadIdentity /\ under[id] \in Values /\ Round(under[id])
    PROVE  LET members == sorted_members(operation.change.members)
               contents == WrittenContents(over, members)
               provenances == WrittenProvenances(under, members)
           IN  /\ DOMAIN contents = DOMAIN provenances
               /\ \A id \in DOMAIN contents : check_content(config, contents[id]) = Accepted
               /\ \A id \in DOMAIN provenances :
                     /\ id \in Ids \ BadIdentity
                     /\ provenances[id] \in Values /\ Round(provenances[id])
PROOF
  <1> DEFINE members == sorted_members(operation.change.members)
  <1> DEFINE contents == WrittenContents(over, members)
  <1> DEFINE provenances == WrittenProvenances(under, members)
  <1>1. PICK n \in Nat :
          /\ members \in [1..n -> Items]
          /\ \A i \in 1..n : /\ members[i].id \in Ids \ BadIdentity
                             /\ members[i].provenance \in Values
                             /\ Round(members[i].provenance)
    BY CheckedBatch
  <1>2. EngineRefusal(config, members) = Accepted
    OBVIOUS
  <1> HIDE DEF members
  <1>3. \A i \in 1..n : check_content(config, members[i].content) = Accepted
    BY <1>1, <1>2, BatchChecksTyped
  <1>4. /\ DOMAIN contents = DOMAIN provenances
        /\ \A id \in DOMAIN contents :
              \/ \E i \in 1..n : /\ members[i].id = id
                                 /\ contents[id] = members[i].content
                                 /\ provenances[id] = members[i].provenance
              \/ /\ id \in DOMAIN over
                 /\ contents[id] = over[id] /\ provenances[id] = under[id]
    BY <1>1, WrittenMembers
  <1> HIDE DEF contents, provenances
  <1>5. ASSUME NEW id \in DOMAIN contents
        PROVE  /\ check_content(config, contents[id]) = Accepted
               /\ id \in Ids \ BadIdentity
               /\ provenances[id] \in Values /\ Round(provenances[id])
    <2>1. CASE \E i \in 1..n : /\ members[i].id = id
                               /\ contents[id] = members[i].content
                               /\ provenances[id] = members[i].provenance
      BY <1>1, <1>3, <2>1
    <2>2. CASE id \in DOMAIN over /\ contents[id] = over[id] /\ provenances[id] = under[id]
      BY <2>2
    <2>3. QED
      BY <1>4, <2>1, <2>2
  <1>6. QED
    BY <1>4, <1>5 DEF members, contents, provenances

\* Nothing is stored at first.
LEMMA InitChecks == ASSUME Init PROVE ChecksInv
PROOF
  BY AcceptedTyped
  DEF Init, ChecksInv, RecordOK, MembersOK, FitsOK, CallOK, Absent, Empty

\* An operation in progress that has not been refused passed check and permit.
LEMMA InProgress ==
    ASSUME ChecksInv, NEW transition \in {"Create", "Insert", "Remove", "Rebuild", "Destroy"},
           Permitted(transition)
    PROVE  /\ op \in LifecycleOperation /\ op.change.transition = transition
           /\ check(op) = Accepted /\ permit(op, record) = Accepted
PROOF
  <1>1. op # Idle
    BY DEF Permitted, Idle
  <1>2. QED
    BY <1>1 DEF ChecksInv, CallOK, Permitted

\* A publish ends the call.
LEMMA PublishEnds ==
    ASSUME ChecksInv, NEW current, NEW contents, NEW provenances,
           Publish(current, contents, provenances)
    PROVE  CallOK'
PROOF
  BY DEF ChecksInv, CallOK, Publish

\* Insert: the engine's own checks refuse nothing that permit passed.
LEMMA InsertKeepsChecks == ASSUME ChecksInv, Insert PROVE ChecksInv'
PROOF
  <1> DEFINE members == sorted_members(op.change.members)
  <1>1. /\ op \in LifecycleOperation /\ op.change.transition = "Insert"
        /\ check(op) = Accepted /\ permit(op, record) = Accepted
    BY InProgress DEF Insert
  <1>2. record.state = "Active" /\ check_members_fit(record.config, members) = Accepted
    BY <1>1, OperationPermitted DEF ChecksInv
  <1>3. record.config \in Configs
    BY <1>2 DEF ChecksInv, RecordOK
  <1>4. \E n \in Nat : members \in [1..n -> Items]
    BY <1>1, CheckedBatch
  <1>5. EngineRefusal(record.config, members) = Accepted
    <2> HIDE DEF members
    <2>1. QED
      BY <1>2, <1>3, <1>4, BatchChecksTyped
  <1>6. Publish(record, WrittenContents(engine, members), WrittenProvenances(table, members))
    BY <1>5 DEF Insert, Publish, WrittenContents, WrittenProvenances, Written, ContentOf, ProvenanceOf
  <1>7. /\ DOMAIN engine = DOMAIN table
        /\ \A id \in DOMAIN engine : check_content(record.config, engine[id]) = Accepted
        /\ \A id \in DOMAIN table :
              id \in Ids \ BadIdentity /\ table[id] \in Values /\ Round(table[id])
    BY <1>2 DEF ChecksInv, MembersOK, FitsOK
  <1>8. LET contents == WrittenContents(engine, members)
            provenances == WrittenProvenances(table, members)
        IN  /\ DOMAIN contents = DOMAIN provenances
            /\ \A id \in DOMAIN contents : check_content(record.config, contents[id]) = Accepted
            /\ \A id \in DOMAIN provenances :
                  /\ id \in Ids \ BadIdentity
                  /\ provenances[id] \in Values /\ Round(provenances[id])
    <2>1. op.change.transition \in {"Insert", "Rebuild"}
      BY <1>1
    <2>2. QED
      BY <1>1, <1>3, <1>5, <1>7, <2>1, WriteKeeps, SMTT(60)
  <1> HIDE DEF members
  <1>9. /\ record' = record /\ engine' = WrittenContents(engine, members)
        /\ table' = WrittenProvenances(table, members)
    BY <1>6 DEF Publish
  <1>10. RecordOK'
    BY <1>9 DEF ChecksInv, RecordOK
  <1>11. MembersOK'
    BY <1>8, <1>9 DEF MembersOK
  <1>12. FitsOK'
    BY <1>2, <1>8, <1>9 DEF ChecksInv, FitsOK
  <1>13. CallOK'
    BY <1>6, PublishEnds
  <1>14. QED
    BY <1>10, <1>11, <1>12, <1>13 DEF ChecksInv

\* Rebuild: the content was checked against the configuration it is built under.
LEMMA RebuildKeepsChecks == ASSUME ChecksInv, Rebuild PROVE ChecksInv'
PROOF
  <1> DEFINE members == sorted_members(op.change.members)
  <1> DEFINE config == op.change.config
  <1>1. /\ op \in LifecycleOperation /\ op.change.transition = "Rebuild"
        /\ check(op) = Accepted /\ permit(op, record) = Accepted
    BY InProgress DEF Rebuild
  <1>2. record.state = "Active"
    BY <1>1, OperationPermitted DEF ChecksInv
  <1>3. /\ config \in Configs /\ check_index_config(config) = Accepted
        /\ check_members_fit(config, members) = Accepted
    BY <1>1, OperationForms, OperationChecked, ChangeChecked
  <1>4. \E n \in Nat : members \in [1..n -> Items]
    BY <1>1, CheckedBatch
  <1>5. EngineRefusal(config, members) = Accepted
    <2> HIDE DEF members, config
    <2>1. QED
      BY <1>3, <1>4, BatchChecksTyped
  <1>6. Publish(Active(record.identity, config), WrittenContents(Empty, members),
                WrittenProvenances(Empty, members))
    BY <1>5 DEF Rebuild, Publish, WrittenContents, WrittenProvenances, Written, ContentOf, ProvenanceOf
  <1>7. DOMAIN Empty = {}
    BY DEF Empty
  <1>8. LET contents == WrittenContents(Empty, members)
            provenances == WrittenProvenances(Empty, members)
        IN  /\ DOMAIN contents = DOMAIN provenances
            /\ \A id \in DOMAIN contents : check_content(config, contents[id]) = Accepted
            /\ \A id \in DOMAIN provenances :
                  /\ id \in Ids \ BadIdentity
                  /\ provenances[id] \in Values /\ Round(provenances[id])
    <2>1. /\ \A id \in DOMAIN Empty : check_content(config, Empty[id]) = Accepted
          /\ \A id \in DOMAIN Empty :
                id \in Ids \ BadIdentity /\ Empty[id] \in Values /\ Round(Empty[id])
      BY <1>7
    <2>2. QED
      BY <1>1, <1>3, <1>5, <2>1, WriteKeeps
  <1> HIDE DEF members, config
  <1>9. /\ record' = Active(record.identity, config)
        /\ engine' = WrittenContents(Empty, members)
        /\ table' = WrittenProvenances(Empty, members)
    BY <1>6 DEF Publish
  <1>10. RecordOK'
    BY <1>2, <1>3, <1>9 DEF ChecksInv, RecordOK, Active
  <1>11. MembersOK'
    BY <1>8, <1>9 DEF MembersOK
  <1>12. FitsOK'
    BY <1>3, <1>8, <1>9 DEF FitsOK, Active
  <1>13. CallOK'
    BY <1>6, PublishEnds
  <1>14. QED
    BY <1>10, <1>11, <1>12, <1>13 DEF ChecksInv


\* A query ranks members of the engine, and the member table has each of them.
LEMMA QueryKeepsChecks ==
    ASSUME ChecksInv, NEW item \in Items, Query(item.content)
    PROVE  ChecksInv'
PROOF
  <1>1. /\ op = Idle /\ record.state = "Active"
        /\ UNCHANGED <<record, engine, table, op>>
    BY DEF Query
  <1>2. PICK ranked \in SUBSET DOMAIN engine :
          outcome' = First(<<check_content(record.config, item.content), Hits(ranked)>>)
    BY DEF Query
  <1>3. Hits(ranked) = Accepted
    BY DEF Hits, ChecksInv, MembersOK
  <1>4. record.config \in Configs
    BY <1>1 DEF ChecksInv, RecordOK
  <1>5. outcome' \in Refusals
    BY <1>2, <1>3, <1>4, EngineChecksTyped, AcceptedTyped, FirstOfTwo
  <1>6. RecordOK' /\ MembersOK' /\ FitsOK'
    BY <1>1 DEF ChecksInv, RecordOK, MembersOK, FitsOK
  <1>7. CallOK'
    BY <1>1, <1>5 DEF CallOK
  <1>8. QED
    BY <1>6, <1>7 DEF ChecksInv

\* Each step of a request keeps the invariant.
LEMMA NextChecks == ASSUME ChecksInv, [Next]_vars PROVE ChecksInv'
PROOF
  <1> USE DEF ChecksInv
  <1>1. ASSUME NEW operation \in LifecycleOperation, Check(operation) PROVE ChecksInv'
    <2>1. check(operation) \in Refusals
      BY OperationChecked
    <2>2. op' = operation /\ outcome' = check(operation) /\ UNCHANGED <<record, engine, table>>
      BY <1>1 DEF Check
    <2>3. RecordOK' /\ MembersOK' /\ FitsOK'
      BY <2>2 DEF RecordOK, MembersOK, FitsOK
    <2>4. CallOK'
      BY <2>1, <2>2 DEF CallOK
    <2>5. QED
      BY <2>3, <2>4
  <1>2. CASE Forbid
    <2>1. op \in LifecycleOperation /\ permit(op, record) # Accepted
      BY <1>2 DEF Forbid, CallOK
    <2>2. permit(op, record) \in Refusals
      BY <2>1, OperationPermitted
    <2>3. outcome' = permit(op, record) /\ UNCHANGED <<record, engine, table, op>>
      BY <1>2 DEF Forbid
    <2>4. RecordOK' /\ MembersOK' /\ FitsOK'
      BY <2>3 DEF RecordOK, MembersOK, FitsOK
    <2>5. CallOK'
      BY <2>1, <2>2, <2>3 DEF CallOK
    <2>6. QED
      BY <2>4, <2>5
  <1>3. CASE Return
    <2>1. op' = Idle /\ outcome' = Accepted /\ UNCHANGED <<record, engine, table>>
      BY <1>3 DEF Return
    <2>2. QED
      BY <2>1, AcceptedTyped DEF RecordOK, MembersOK, FitsOK, CallOK
  <1>4. CASE Create
    <2>1. /\ op \in LifecycleOperation /\ op.change.transition = "Create"
          /\ check(op) = Accepted
      BY <1>4, InProgress DEF Create
    <2>2. /\ op.index \in Indexes /\ op.change.config \in Configs
          /\ check_index_config(op.change.config) = Accepted
      BY <2>1, OperationForms, OperationChecked, ChangeChecked
    <2>3. /\ record' = Active(op.index, op.change.config) /\ engine' = Empty /\ table' = Empty
          /\ CallOK'
      BY <1>4, PublishEnds DEF Create, Publish
    <2>4. QED
      BY <2>2, <2>3 DEF RecordOK, MembersOK, FitsOK, Active, Empty
  <1>5. CASE Remove
    <2>1. /\ record' = record /\ engine' = Without(engine, op.change.ids)
          /\ table' = Without(table, op.change.ids) /\ CallOK'
      BY <1>5, PublishEnds DEF Remove, Publish
    <2>2. RecordOK'
      BY <2>1 DEF RecordOK
    <2>3. MembersOK'
      BY <2>1 DEF MembersOK, Without
    <2>4. FitsOK'
      BY <2>1 DEF FitsOK, Without
    <2>5. QED
      BY <2>1, <2>2, <2>3, <2>4
  <1>6. CASE Destroy
    <2>1. /\ op \in LifecycleOperation /\ op.change.transition = "Destroy"
          /\ check(op) = Accepted /\ permit(op, record) = Accepted
      BY <1>6, InProgress DEF Destroy
    <2>2. record.state = "Active" /\ op.change.retention \in Values
      BY <2>1, OperationPermitted, OperationForms
    <2>3. Round(op.change.retention)
      <3>1. /\ 1 \in DOMAIN StoredValues(op.change)
            /\ StoredValues(op.change)[1].value = op.change.retention
        BY <2>1, StoredTyped
      <3>2. QED
        BY <2>1, <3>1, OperationChecked
    <2>4. /\ record' = Destroyed(record, op.change.retention)
          /\ engine' = Empty /\ table' = Empty /\ CallOK'
      BY <1>6, PublishEnds DEF Destroy, Publish
    <2>5. QED
      BY <2>2, <2>3, <2>4 DEF RecordOK, MembersOK, FitsOK, Destroyed, Empty
  <1>7. CASE UNCHANGED vars
    BY <1>7 DEF vars, RecordOK, MembersOK, FitsOK, CallOK
  <1>8. QED
    BY <1>1, <1>2, <1>3, <1>4, <1>5, <1>6, <1>7,
       InsertKeepsChecks, RebuildKeepsChecks, QueryKeepsChecks DEF Next

(***************************************************************************)
(* What holds of every request.                                            *)
(***************************************************************************)
\* Whatever was published fits its index and can be stored, and the request in progress
\* passed the checks it was put through.
THEOREM ChecksInvariance == Spec => []ChecksInv
PROOF
  <1>1. Init => ChecksInv
    BY InitChecks
  <1>2. ChecksInv /\ [Next]_vars => ChecksInv'
    BY NextChecks
  <1>3. QED
    BY <1>1, <1>2, PTL DEF Spec

\* The record, the version's members and the answer in progress have their types.
THEOREM RequestsTyped == Spec => []TypeOK
PROOF
  <1>1. ChecksInv => Range(table) \subseteq Values
    BY DEF ChecksInv, MembersOK, Range
  <1>2. ChecksInv => TypeOK
    BY <1>1 DEF ChecksInv, RecordOK, MembersOK, CallOK, TypeOK, Refusals
  <1>3. QED
    BY <1>2, ChecksInvariance, PTL

\* A query never ranks a member that has no provenance: every change that reaches the
\* engine reaches the member table in the same step (PublishedIndex::hits).
THEOREM HitsProvenance == Spec => []HitsHaveProvenance
PROOF
  <1>1. ChecksInv => HitsHaveProvenance
    BY DEF ChecksInv, CallOK, Refusals, Kinds, HitsHaveProvenance
  <1>2. QED
    BY <1>1, ChecksInvariance, PTL

\* The engine refuses nothing that check and permit passed, so no batch is refused
\* halfway through (check_content, VersionEngine::insert).
THEOREM AppliedWhole == Spec => []ValidatedIsApplied
PROOF
  <1>1. ChecksInv => ValidatedIsApplied
    BY DEF ChecksInv, CallOK, Refusals, Details, ValidatedIsApplied
  <1>2. QED
    BY <1>1, ChecksInvariance, PTL

\* Every stored value and identity reads back, wherever the reader's limit leaves room
\* for the deepest record that wraps a value (check_stored_values).
THEOREM Decodes ==
    ASSUME MaxDepth + RecordWrapping <= JsonReadLimit
    PROVE  Spec => []StoredRecordsDecode
PROOF
  <1>1. ASSUME NEW value, value.depth \in Nat, Round(value),
               NEW wrapping \in 0..RecordWrapping
        PROVE  ReadsBack(value, wrapping)
    <2>1. value.depth <= MaxDepth /\ MaxDepth \in Nat
      BY <1>1, ChecksAssumption DEF Round, ChecksAssumption
    <2>2. value.depth + wrapping <= JsonReadLimit
      BY <1>1, <2>1 DEF RecordWrapping, JsonReadLimit
    <2>3. value.stable
      BY <1>1, Zenon DEF Round
    <2>4. QED
      BY <2>2, <2>3, Zenon DEF ReadsBack
  <1>2. /\ PayloadWrapping \in 0..RecordWrapping /\ HeadWrapping \in 0..RecordWrapping
        /\ RecordWrapping \in 0..RecordWrapping
    BY DEF PayloadWrapping, HeadWrapping, RecordWrapping
  <1>3. ASSUME ChecksInv, NEW id \in DOMAIN table
        PROVE  /\ id \notin BadIdentity
               /\ ReadsBack(table[id], PayloadWrapping) /\ ReadsBack(table[id], RecordWrapping)
    <2>1. id \notin BadIdentity /\ table[id] \in Values /\ Round(table[id])
      BY <1>3 DEF ChecksInv, MembersOK
    <2>2. table[id].depth \in Nat
      BY <2>1, ChecksAssumption DEF ChecksAssumption
    <2>3. QED
      BY <1>1, <1>2, <2>1, <2>2
  <1>4. ASSUME ChecksInv, record.state = "Destroyed"
        PROVE  /\ ReadsBack(record.retention, HeadWrapping)
               /\ ReadsBack(record.retention, RecordWrapping)
    <2>1. record.retention \in Values /\ Round(record.retention)
      BY <1>4 DEF ChecksInv, RecordOK
    <2>2. record.retention.depth \in Nat
      BY <2>1, ChecksAssumption DEF ChecksAssumption
    <2>3. QED
      BY <1>1, <1>2, <2>1, <2>2
  <1>5. ChecksInv => StoredRecordsDecode
    BY <1>3, <1>4, Zenon DEF StoredRecordsDecode, BadIdentity
  <1>6. QED
    BY <1>5, ChecksInvariance, PTL

\* Whatever is stored fits the index it is stored in, through every change of the
\* index's configuration (check_content, check_index_config).
THEOREM Fits == Spec => []EveryMemberFits
PROOF
  <1>1. ChecksInv => EveryMemberFits
    BY DEF ChecksInv, FitsOK, EveryMemberFits, check_index_config
  <1>2. QED
    BY <1>1, ChecksInvariance, PTL


\* Whatever was published is well typed, fits its index and reads back, wherever the
\* reader's limit leaves room for the deepest record that wraps a value.
THEOREM PublishedDecodes ==
    ASSUME MaxDepth + RecordWrapping <= JsonReadLimit
    PROVE  Spec => []PublishedReadsBack
PROOF
  <1>1. TypeOK /\ EveryMemberFits /\ StoredRecordsDecode => PublishedReadsBack
    BY DEF PublishedReadsBack
  <1>2. Spec => []StoredRecordsDecode
    BY Decodes
  <1>3. QED
    BY <1>1, <1>2, RequestsTyped, Fits, PTL

(***************************************************************************)
(* The order of the list.                                                  *)
(***************************************************************************)
\* A list and the same list in another order.
Rearranged(list, other, S) ==
    \E n \in Nat : \E order \in Rearrangements(1..n) :
        /\ list \in [1..n -> S] /\ other \in [1..n -> S]
        /\ \A i \in 1..n : other[i] = list[order[i]]

\* A rearranged list is a list of the same kind.
LEMMA ListRearranged ==
    ASSUME NEW S, NEW list \in Lists(S), NEW order \in Rearrangements(DOMAIN list)
    PROVE  LET other == [i \in DOMAIN list |-> list[order[i]]]
           IN  other \in Lists(S) /\ Rearranged(list, other, S)
PROOF
  <1>1. PICK n \in 0..MaxBatch : list \in [1..n -> S]
    BY DEF Lists
  <1>2. n \in Nat /\ DOMAIN list = 1..n
    BY <1>1, ChecksAssumption DEF ChecksAssumption
  <1>3. order \in Rearrangements(1..n)
    BY <1>2
  <1>4. order \in [1..n -> 1..n]
    BY <1>2, <1>3, RearrangementReaches
  <1> DEFINE other == [i \in DOMAIN list |-> list[order[i]]]
  <1>5. other \in [1..n -> S] /\ \A i \in 1..n : other[i] = list[order[i]]
    BY <1>1, <1>2, <1>4
  <1> HIDE DEF other
  <1>6. other \in Lists(S)
    BY <1>5 DEF Lists
  <1>7. Rearranged(list, other, S)
    BY <1>1, <1>2, <1>3, <1>5 DEF Rearranged
  <1>8. QED
    BY <1>6, <1>7 DEF other

\* The same operation with its list in another order.
LEMMA RelistedForms ==
    ASSUME NEW operation \in LifecycleOperation, NEW order \in Orders(operation.change)
    PROVE  LET change == operation.change
               relisted == [operation EXCEPT !.change = Relisted(@, order)]
               other == relisted.change
           IN  /\ relisted \in LifecycleOperation
               /\ relisted.index = operation.index
               /\ other.transition = change.transition
               /\ change.transition = "Rebuild" => other.config = change.config
               /\ change.transition \in {"Insert", "Rebuild"} =>
                     Rearranged(change.members, other.members, Items)
               /\ change.transition = "Remove" => Rearranged(change.ids, other.ids, Ids)
               /\ change.transition \in {"Create", "Destroy"} => other = change
PROOF
  <1> DEFINE change == operation.change
  <1> DEFINE relisted == [operation EXCEPT !.change = Relisted(@, order)]
  <1> DEFINE other == Relisted(change, order)
  <1>1. change \in Changes /\ order \in Orders(change)
    BY DEF LifecycleOperation
  <1>2. relisted.change = other /\ relisted.index = operation.index
    BY DEF LifecycleOperation
  <1>3. ASSUME other \in Changes PROVE relisted \in LifecycleOperation
    <2> HIDE DEF other
    <2>1. relisted = [operation EXCEPT !.change = other]
      BY DEF other
    <2>2. QED
      BY <1>3, <2>1 DEF LifecycleOperation
  <1> HIDE DEF change, relisted
  <1>4. CASE change.transition = "Insert"
    <2>1. /\ change \in [transition : {"Insert"}, members : Lists(Items)]
          /\ order \in Rearrangements(DOMAIN change.members)
      BY <1>1, <1>4 DEF Changes, Orders
    <2> DEFINE list == [i \in DOMAIN change.members |-> change.members[order[i]]]
    <2>2. other = [change EXCEPT !.members = list]
      BY <1>4 DEF Relisted
    <2>3. list \in Lists(Items) /\ Rearranged(change.members, list, Items)
      BY <2>1, ListRearranged
    <2> HIDE DEF list, other
    <2>4. /\ other \in [transition : {"Insert"}, members : Lists(Items)]
          /\ other.members = list /\ other.transition = "Insert"
      BY <2>1, <2>2, <2>3
    <2>5. other \in Changes
      BY <2>4 DEF Changes
    <2>6. QED
      BY <1>2, <1>3, <1>4, <2>3, <2>4, <2>5 DEF change, relisted
  <1>5. CASE change.transition = "Rebuild"
    <2>1. /\ change \in [transition : {"Rebuild"}, config : Configs, members : Lists(Items)]
          /\ order \in Rearrangements(DOMAIN change.members)
      BY <1>1, <1>5 DEF Changes, Orders
    <2> DEFINE list == [i \in DOMAIN change.members |-> change.members[order[i]]]
    <2>2. other = [change EXCEPT !.members = list]
      BY <1>5 DEF Relisted
    <2>3. list \in Lists(Items) /\ Rearranged(change.members, list, Items)
      BY <2>1, ListRearranged
    <2> HIDE DEF list, other
    <2>4. /\ other \in [transition : {"Rebuild"}, config : Configs, members : Lists(Items)]
          /\ other.members = list /\ other.transition = "Rebuild"
          /\ other.config = change.config
      BY <2>1, <2>2, <2>3
    <2>5. other \in Changes
      BY <2>4 DEF Changes
    <2>6. QED
      BY <1>2, <1>3, <1>5, <2>3, <2>4, <2>5 DEF change, relisted
  <1>6. CASE change.transition = "Remove"
    <2>1. /\ change \in [transition : {"Remove"}, ids : Lists(Ids)]
          /\ order \in Rearrangements(DOMAIN change.ids)
      BY <1>1, <1>6 DEF Changes, Orders
    <2> DEFINE list == [i \in DOMAIN change.ids |-> change.ids[order[i]]]
    <2>2. other = [change EXCEPT !.ids = list]
      BY <1>6 DEF Relisted
    <2>3. list \in Lists(Ids) /\ Rearranged(change.ids, list, Ids)
      BY <2>1, ListRearranged
    <2> HIDE DEF list, other
    <2>4. /\ other \in [transition : {"Remove"}, ids : Lists(Ids)]
          /\ other.ids = list /\ other.transition = "Remove"
      BY <2>1, <2>2, <2>3
    <2>5. other \in Changes
      BY <2>4 DEF Changes
    <2>6. QED
      BY <1>2, <1>3, <1>6, <2>3, <2>4, <2>5 DEF change, relisted
  <1>7. CASE change.transition \in {"Create", "Destroy"}
    <2>1. other = change
      BY <1>7 DEF Relisted
    <2> HIDE DEF other
    <2>2. QED
      BY <1>1, <1>2, <1>3, <1>7, <2>1 DEF change, relisted
  <1>8. change.transition \in {"Create", "Insert", "Remove", "Rebuild", "Destroy"}
    BY OperationForms DEF change
  <1>9. QED
    BY <1>4, <1>5, <1>6, <1>7, <1>8


\* A rearranged batch is empty when the other is, and sorts alike, unless it names a member
\* twice: then both are refused as check_member_identities refuses the sorted identities.
LEMMA BatchesAlike ==
    ASSUME NEW list, NEW other, Rearranged(list, other, Items)
    PROVE  /\ EmptyBatch(other) = EmptyBatch(list)
           /\ check_member_identities(member_ids(sorted_members(other))) =
                 check_member_identities(member_ids(sorted_members(list)))
           /\ \/ sorted_members(other) = sorted_members(list)
              \/ /\ EmptyBatch(list) = Accepted
                 /\ check_member_identities(member_ids(sorted_members(list))) # Accepted
PROOF
  <1>0. PICK n \in Nat : \E order \in Rearrangements(1..n) :
          /\ list \in [1..n -> Items] /\ other \in [1..n -> Items]
          /\ \A i \in 1..n : other[i] = list[order[i]]
    BY DEF Rearranged
  <1>1. PICK order \in Rearrangements(1..n) :
          /\ list \in [1..n -> Items] /\ other \in [1..n -> Items]
          /\ \A i \in 1..n : other[i] = list[order[i]]
    BY <1>0
  <1>2. (list = <<>> <=> n = 0) /\ (other = <<>> <=> n = 0)
    BY <1>1
  <1>3. EmptyBatch(other) = EmptyBatch(list) /\ (n # 0 => EmptyBatch(list) = Accepted)
    BY <1>2 DEF EmptyBatch
  <1> DEFINE ids == member_ids(sorted_members(list))
  <1>4. ids \in [1..n -> Ids]
    BY <1>1, SortedMembers
  <1>5. /\ member_ids(sorted_members(other)) = ids
        /\ \/ sorted_members(other) = sorted_members(list)
           \/ \E k \in 1..(n - 1) : ids[k] = ids[k + 1]
    BY <1>1, MembersSortedAlike
  <1> HIDE DEF ids
  <1>6. ASSUME NEW k \in 1..(n - 1), ids[k] = ids[k + 1]
        PROVE  n # 0 /\ check_member_identities(ids) # Accepted
    BY <1>4, <1>6, IdentitiesChecked
  <1>7. QED
    BY <1>3, <1>5, <1>6 DEF ids

\* The identities of a removal sort one way (check_change).
LEMMA RemovalsAlike ==
    ASSUME NEW list, NEW other, Rearranged(list, other, Ids)
    PROVE  EmptyBatch(other) = EmptyBatch(list) /\ sorted_ids(other) = sorted_ids(list)
PROOF
  <1>0. PICK n \in Nat : \E order \in Rearrangements(1..n) :
          /\ list \in [1..n -> Ids] /\ other \in [1..n -> Ids]
          /\ \A i \in 1..n : other[i] = list[order[i]]
    BY DEF Rearranged
  <1>1. PICK order \in Rearrangements(1..n) :
          /\ list \in [1..n -> Ids] /\ other \in [1..n -> Ids]
          /\ \A i \in 1..n : other[i] = list[order[i]]
    BY <1>0
  <1>2. (list = <<>> <=> n = 0) /\ (other = <<>> <=> n = 0)
    BY <1>1
  <1>3. list \in [1..n -> Nat] /\ other \in [1..n -> Nat]
    BY <1>1, ChecksAssumption DEF ChecksAssumption
  <1>4. \A k \in 1..n : other[Position(other, k)] = list[Position(list, k)]
    BY <1>1, <1>3, SortedAlike
  <1>5. DOMAIN list = 1..n /\ DOMAIN other = 1..n
    BY <1>1
  <1>6. sorted_ids(other) = sorted_ids(list)
    BY <1>4, <1>5 DEF sorted_ids
  <1>7. QED
    BY <1>2, <1>6 DEF EmptyBatch

\* The identities alone refuse an insert or a rebuild that they refuse at all.
LEMMA IdentitiesDecide ==
    ASSUME NEW operation \in LifecycleOperation,
           operation.change.transition \in {"Insert", "Rebuild"},
           operation.change.transition = "Insert" =>
              EmptyBatch(operation.change.members) = Accepted,
           check_member_identities(member_ids(sorted_members(operation.change.members))) # Accepted
    PROVE  check(operation) =
              check_member_identities(member_ids(sorted_members(operation.change.members)))
PROOF
  <1> DEFINE change == operation.change
  <1> DEFINE members == sorted_members(change.members)
  <1> DEFINE refusal == check_member_identities(member_ids(members))
  <1>1. PICK n \in Nat : change.members \in [1..n -> Items]
    BY OperationForms DEF ListsOf
  <1>2. members \in [1..n -> Items] /\ refusal \in Refusals
    BY <1>1, SortedBatch
  <1>3. refusal # Accepted
    OBVIOUS
  <1>4. change.transition = "Rebuild" =>
          /\ change.config \in Configs
          /\ check_index_config(change.config) \in Refusals
    <2>1. ASSUME change.transition = "Rebuild"
          PROVE  change.config \in Configs /\ check_index_config(change.config) \in Refusals
      <3>1. change.config \in Configs
        BY <2>1, OperationForms
      <3>2. {"InvalidHnswConfig", "NotYetImplemented"} \subseteq Kinds /\ "" \in Details
        BY DEF Kinds, Details
      <3>3. /\ check_config(change.config) \in Refusals
            /\ require_simple_pipeline(change.config) \in Refusals
        BY <3>2, RefusalTyped, AcceptedTyped DEF check_config, require_simple_pipeline
      <3>4. QED
        BY <3>1, <3>3 DEF check_index_config
    <2>2. QED
      BY <2>1
  <1>5. /\ check_finite_vectors(members) \in Refusals /\ check_single_family(members) \in Refusals
        /\ \A config \in Configs : check_members_fit(config, members) \in Refusals
    <2> HIDE DEF members
    <2>1. QED
      BY <1>2, BatchAloneTyped, BatchChecksTyped
  <1>6. CASE change.transition = "Insert"
    <2>1. check_change(change) =
             First(<<EmptyBatch(change.members), refusal,
                     check_finite_vectors(members), check_single_family(members)>>)
      BY <1>6 DEF check_change
    <2>2. EmptyBatch(change.members) = Accepted
      BY <1>6
    <2> HIDE DEF members, refusal, change
    <2>3. check_change(change) = refusal
      BY <1>2, <1>3, <1>5, <2>1, <2>2, AcceptedTyped, FirstOfFour
    <2>4. QED
      BY <1>3, <2>3, OperationChecked DEF change, refusal, members
  <1>7. CASE change.transition = "Rebuild"
    <2>1. check_change(change) =
             First(<<refusal, check_finite_vectors(members), check_index_config(change.config),
                     check_members_fit(change.config, members)>>)
      BY <1>7 DEF check_change
    <2>2. check_members_fit(change.config, members) \in Refusals
      BY <1>4, <1>5, <1>7
    <2> HIDE DEF members, refusal, change
    <2>3. check_change(change) = refusal
      BY <1>2, <1>3, <1>4, <1>5, <1>7, <2>1, <2>2, FirstOfFour
    <2>4. QED
      BY <1>3, <2>3, OperationChecked DEF change, refusal, members
  <1>8. QED
    BY <1>6, <1>7

\* Of two operations that store the same, check says the same of both.
LEMMA SameChecks ==
    ASSUME NEW operation, NEW relisted,
           check_change(relisted.change) = check_change(operation.change),
           StoredValues(relisted.change) = StoredValues(operation.change)
    PROVE  check(relisted) = check(operation)
PROOF
  <1>1. DigestRefusal(relisted.change) = DigestRefusal(operation.change)
    BY Zenon DEF DigestRefusal, ForEach
  <1>2. check_stored_values(relisted.change) = check_stored_values(operation.change)
    BY Zenon DEF check_stored_values, ForEach
  <1>3. QED
    BY <1>1, <1>2, Zenon DEF check

\* Neither check nor permit depends on the order of the list.
LEMMA OrderIsIgnored ==
    ASSUME NEW operation \in LifecycleOperation, NEW order \in Orders(operation.change)
    PROVE  LET relisted == [operation EXCEPT !.change = Relisted(@, order)]
           IN  /\ check(relisted) = check(operation)
               /\ check(operation) = Accepted =>
                     permit(relisted, record) = permit(operation, record)
PROOF
  <1> DEFINE relisted == [operation EXCEPT !.change = Relisted(@, order)]
  <1> DEFINE change == operation.change
  <1> DEFINE other == relisted.change
  <1>1. /\ relisted \in LifecycleOperation
        /\ relisted.index = operation.index /\ other.transition = change.transition
        /\ change.transition = "Rebuild" => other.config = change.config
        /\ change.transition \in {"Insert", "Rebuild"} =>
              Rearranged(change.members, other.members, Items)
        /\ change.transition = "Remove" => Rearranged(change.ids, other.ids, Ids)
        /\ change.transition \in {"Create", "Destroy"} => other = change
    BY RelistedForms
  <1>2. change.transition \in {"Create", "Insert", "Remove", "Rebuild", "Destroy"}
    BY OperationForms
  <1> HIDE DEF relisted
  <1>3. ASSUME \A config : check_against_record(other, config) = check_against_record(change, config)
        PROVE  permit(relisted, record) = permit(operation, record)
    BY <1>1, <1>3, Zenon DEF permit
  <1>4. CASE change.transition \in {"Insert", "Rebuild"}
    <2>1. /\ EmptyBatch(other.members) = EmptyBatch(change.members)
          /\ check_member_identities(member_ids(sorted_members(other.members))) =
                check_member_identities(member_ids(sorted_members(change.members)))
          /\ \/ sorted_members(other.members) = sorted_members(change.members)
             \/ /\ EmptyBatch(change.members) = Accepted
                /\ check_member_identities(member_ids(sorted_members(change.members))) # Accepted
      BY <1>1, <1>4, BatchesAlike
    <2>2. CASE sorted_members(other.members) = sorted_members(change.members)
      <3>1. check_change(other) = check_change(change)
        BY <1>1, <1>4, <2>1, <2>2, Zenon DEF check_change
      <3>2. StoredValues(other) = StoredValues(change)
        BY <1>1, <1>4, <2>2, Zenon DEF StoredValues
      <3>3. check(relisted) = check(operation)
        BY <3>1, <3>2, SameChecks
      <3>4. \A config : check_against_record(other, config) = check_against_record(change, config)
        BY <1>1, <1>4, <2>2, Zenon DEF check_against_record
      <3>5. QED
        BY <1>3, <3>3, <3>4 DEF relisted
    <2>3. CASE /\ EmptyBatch(change.members) = Accepted
               /\ check_member_identities(member_ids(sorted_members(change.members))) # Accepted
      <3>1. check(operation) =
              check_member_identities(member_ids(sorted_members(change.members)))
        BY <1>4, <2>3, IdentitiesDecide
      <3>2. check(relisted) =
              check_member_identities(member_ids(sorted_members(other.members)))
        BY <1>1, <1>4, <2>1, <2>3, IdentitiesDecide
      <3>3. check(relisted) = check(operation) /\ check(operation) # Accepted
        BY <2>1, <2>3, <3>1, <3>2
      <3>4. QED
        BY <3>3 DEF relisted
    <2>4. QED
      BY <2>1, <2>2, <2>3
  <1>5. CASE change.transition = "Remove"
    <2>1. /\ EmptyBatch(other.ids) = EmptyBatch(change.ids)
          /\ sorted_ids(other.ids) = sorted_ids(change.ids)
      BY <1>1, <1>5, RemovalsAlike
    <2>2. check_change(other) = check_change(change)
      BY <1>1, <1>5, <2>1 DEF check_change
    <2>3. StoredValues(other) = StoredValues(change)
      BY <1>1, <1>5 DEF StoredValues
    <2>4. check(relisted) = check(operation)
      BY <2>2, <2>3, SameChecks
    <2>5. \A config : check_against_record(other, config) = check_against_record(change, config)
      BY <1>1, <1>5 DEF check_against_record
    <2>6. QED
      BY <1>3, <2>4, <2>5 DEF relisted
  <1>6. CASE change.transition \in {"Create", "Destroy"}
    <2>1. other = change
      BY <1>1, <1>6
    <2>2. check(relisted) = check(operation)
      BY <2>1, SameChecks
    <2>3. permit(relisted, record) = permit(operation, record)
      BY <1>3, <2>1
    <2>4. QED
      BY <2>2, <2>3 DEF relisted
  <1>7. QED
    BY <1>2, <1>4, <1>5, <1>6

\* In whatever order the caller listed its batch, the same refusal, naming the same member,
\* comes of check, and of permit where check lets it through.
THEOREM OrderIgnored == Spec => []RefusalsIgnoreOrder
PROOF
  <1>1. ChecksInv => RefusalsIgnoreOrder
    <2>1. SUFFICES ASSUME ChecksInv, op # Idle, NEW order \in Orders(op.change)
                   PROVE  LET relisted == [op EXCEPT !.change = Relisted(@, order)]
                          IN  /\ check(relisted) = check(op)
                              /\ check(op) = Accepted =>
                                    permit(relisted, record) = permit(op, record)
      BY DEF RefusalsIgnoreOrder
    <2>2. op \in LifecycleOperation
      BY <2>1 DEF ChecksInv, CallOK
    <2>3. QED
      BY <2>2, OrderIsIgnored
  <1>2. QED
    BY <1>1, ChecksInvariance, PTL
=============================================================================
