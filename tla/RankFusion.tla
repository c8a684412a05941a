----------------------------- MODULE RankFusion -----------------------------
(***************************************************************************)
(* Reciprocal-rank fusion (rrf.rs): every ranking adds 1 / (k + rank) to   *)
(* the score of each identity it lists, and the identities are ordered by  *)
(* score.  The sums are floating-point numbers, so each addition rounds:   *)
(* here to Precision significant bits, to nearest and ties to even, as f64 *)
(* rounds to 53.  Ranks and k count in units of 1 / One, scores in units of *)
(* One / Unit.                                                             *)
(***************************************************************************)
EXTENDS Integers, FiniteSets, Sequences

CONSTANTS
    Identities,         \* what is ranked, ordered as integers
    Rankings,           \* the rankings a call may be given, sequences of identities
    MaxRankings,        \* how many of them at most
    KConstants,         \* the values of k_constant that are finite
    NotFinite,          \* any other
    Precision,          \* significant bits of a score (53)
    PublicPrecision,    \* significant bits of a public score (24)
    One, Unit,          \* powers of two
    MaxExponent         \* a bound on the exponents that Round looks for

VARIABLES
    k_constant,     \* the argument
    rankings,       \* the rankings fused so far
    scores,         \* fuse's map of scores
    outcome,        \* "running", "fused" or the error returned
    fused           \* the identities and public scores returned

fusionVars == <<k_constant, rankings, scores, outcome, fused>>

\* n / d to the nearest integer, the even one of two.
Nearest(n, d) ==
    LET q == n \div d
        rest == 2 * (n % d)
    IN  IF rest > d \/ (rest = d /\ q % 2 = 1) THEN q + 1 ELSE q

\* The exponent e that leaves n / (d * 2^e) p bits.
FitsAt(n, d, p, e) == n < d * 2^(e + p) /\ (e > 0 => n >= d * 2^(e + p - 1))
Exponent(n, d, p) == CHOOSE e \in 0..MaxExponent : FitsAt(n, d, p, e)

\* n / d to p significant bits.
Round(n, d, p) ==
    LET e == Exponent(n, d, p)
    IN  Nearest(n, d * 2^e) * 2^e

Add(a, b) == Round(a + b, 1, Precision)

\* k + rank, and 1 / (k + rank).
Dampened(k, rank) == Round(k + One * rank, 1, Precision)
Reciprocal(k, rank) == Round(Unit, Dampened(k, rank), Precision)

IsValid(k) == k # NotFinite /\ k > 0

\* The score of an identity that every one of n rankings puts first.
Greatest(k) ==
    LET upto[n \in 0..MaxRankings] ==
            IF n = 0 THEN 0 ELSE Add(upto[n - 1], Reciprocal(k, 1))
    IN  upto

(***************************************************************************)
(* Units are small enough for every term, and exponents great enough for   *)
(* every sum, for nothing to fall below or above the numbers there are.    *)
(***************************************************************************)
Limit == 2^(MaxExponent + PublicPrecision)

\* The ranks there are.
Places == {1} \cup UNION {DOMAIN ranking : ranking \in Rankings}

ASSUME FusionAssumption ==
    /\ Identities \subseteq Int
    /\ \A ranking \in Rankings :
        /\ Len(ranking) \in Nat /\ DOMAIN ranking = 1..Len(ranking)
        /\ \A p \in DOMAIN ranking : ranking[p] \in Identities
    /\ MaxRankings \in Nat
    /\ KConstants \subseteq Int /\ NotFinite \notin KConstants
    /\ Precision \in Nat \ {0} /\ PublicPrecision \in 1..Precision
    /\ One \in Nat \ {0} /\ Unit \in Nat \ {0} /\ Unit < Limit
    /\ MaxExponent \in Nat
    /\ \A k \in KConstants : k > 0 =>
        /\ \A p \in Places : k + One * p < Limit /\ Dampened(k, p) <= Unit
        /\ \A n \in 0..MaxRankings : Greatest(k)[n] + Reciprocal(k, 1) < Limit

(***************************************************************************)
(* One more ranking.                                                       *)
(***************************************************************************)
Listed(ranking) == {ranking[p] : p \in DOMAIN ranking}

\* The place of an identity in a ranking that counts: its first.
FirstPlace(ranking, i) ==
    CHOOSE p \in DOMAIN ranking : ranking[p] = i /\ \A q \in 1..(p - 1) : ranking[q] # i

ScoreOf(s, i) == IF i \in DOMAIN s THEN s[i] ELSE 0

\* A ranking's term replaces the score an earlier ranking gave.
AccumulateOverwriting(s, ranking, k) ==
    [i \in DOMAIN s \cup Listed(ranking) |->
        IF i \in Listed(ranking) THEN Reciprocal(k, FirstPlace(ranking, i)) ELSE s[i]]

\* Every place of an identity in the ranking counts.
AccumulateAllPlaces(s, ranking, k) ==
    [i \in DOMAIN s \cup Listed(ranking) |->
        LET upto[n \in 0..Len(ranking)] ==
                IF n = 0 THEN ScoreOf(s, i)
                ELSE IF ranking[n] = i THEN Add(upto[n - 1], Reciprocal(k, n)) ELSE upto[n - 1]
        IN  upto[Len(ranking)]]

\* The scores after one more ranking.
Accumulate(s, ranking, k) ==
    [i \in DOMAIN s \cup Listed(ranking) |->
        IF i \in Listed(ranking)
        THEN Add(ScoreOf(s, i), Reciprocal(k, FirstPlace(ranking, i)))
        ELSE s[i]]

(***************************************************************************)
(* The result.                                                             *)
(***************************************************************************)
\* The highest score first, the lesser of two identities with equal scores first.
Above(s, i, j) == s[i] > s[j] \/ (s[i] = s[j] /\ i < j)

Ordered(s) ==
    [p \in 1..Cardinality(DOMAIN s) |->
        CHOOSE i \in DOMAIN s : Cardinality({j \in DOMAIN s : Above(s, j, i)}) = p - 1]

\* The order of the scores, each narrowed to the public format.
Fused(s) ==
    LET order == Ordered(s)
    IN  [p \in DOMAIN order |-> <<order[p], Round(s[order[p]], 1, PublicPrecision)>>]

(***************************************************************************)
(* A call, one step per ranking.                                           *)
(***************************************************************************)
NoScores == [i \in {} |-> 0]

FusionInit ==
    /\ k_constant \in KConstants \cup {NotFinite}
    /\ rankings = <<>>
    /\ scores = NoScores
    /\ outcome = "running"
    /\ fused = <<>>

RefuseConstant ==
    /\ outcome = "running"
    /\ ~ IsValid(k_constant)
    /\ outcome' = "InvalidKConstant"
    /\ UNCHANGED <<k_constant, rankings, scores, fused>>

FuseRanking(ranking) ==
    /\ outcome = "running"
    /\ IsValid(k_constant)
    /\ Len(rankings) < MaxRankings
    /\ rankings' = Append(rankings, ranking)
    /\ scores' = Accumulate(scores, ranking, k_constant)
    /\ UNCHANGED <<k_constant, outcome, fused>>

Finish ==
    /\ outcome = "running"
    /\ IsValid(k_constant)
    /\ outcome' = "fused"
    /\ fused' = Fused(scores)
    /\ UNCHANGED <<k_constant, rankings, scores>>

\* Another call, once this one has returned.
CallAgain ==
    /\ outcome # "running"
    /\ k_constant' \in KConstants \cup {NotFinite}
    /\ rankings' = <<>>
    /\ scores' = NoScores
    /\ outcome' = "running"
    /\ fused' = <<>>

FusionNext ==
    \/ RefuseConstant
    \/ \E ranking \in Rankings : FuseRanking(ranking)
    \/ Finish
    \/ CallAgain

FusionSpec == FusionInit /\ [][FusionNext]_fusionVars

(***************************************************************************)
(* Properties.                                                             *)
(***************************************************************************)
\* Type correctness; a score never rounds to zero, and is at most that of an identity
\* every ranking puts first.
FusionTypeOK ==
    /\ k_constant \in KConstants \cup {NotFinite}
    /\ Len(rankings) <= MaxRankings
    /\ \A n \in DOMAIN rankings : rankings[n] \in Rankings
    /\ DOMAIN scores \subseteq Identities
    /\ \A i \in DOMAIN scores :
        scores[i] \in 1..Greatest(k_constant)[Len(rankings)]
    /\ outcome \in {"running", "fused", "InvalidKConstant"}
    /\ \A p \in DOMAIN fused : fused[p] \in Identities \X Nat

Ranks(i, ranking) == {p \in DOMAIN ranking : ranking[p] = i}

\* In every ranking that lists j, i has a place and it is before j's first.
Dominates(i, j) ==
    \A n \in DOMAIN rankings :
        \A q \in Ranks(j, rankings[n]) : \E p \in Ranks(i, rankings[n]) : p < q

Place(i) == CHOOSE p \in DOMAIN fused : fused[p][1] = i

(***************************************************************************)
(* An identity that every ranking prefers is never fused below the one it  *)
(* is preferred to, unless their scores round to the same number: the      *)
(* rounding of the sums never turns an order that all rankings agree on,   *)
(* and listing an identity twice in a ranking gains it nothing.            *)
(***************************************************************************)
DominanceRespected ==
    outcome = "fused" =>
        \A i, j \in DOMAIN scores :
            i # j /\ Dominates(i, j) =>
                /\ scores[i] >= scores[j]
                /\ Place(i) > Place(j) => scores[i] = scores[j] /\ j < i

\* The result for the same rankings in another arrangement.
Rearranged(perm) ==
    LET upto[n \in 0..Len(rankings)] ==
            IF n = 0 THEN NoScores
            ELSE Accumulate(upto[n - 1], rankings[perm[n]], k_constant)
    IN  Fused(upto[Len(rankings)])

Arrangements == {f \in [DOMAIN rankings -> DOMAIN rankings] :
                    \A m, n \in DOMAIN rankings : m # n => f[m] # f[n]}

(***************************************************************************)
(* Two rankings, the hybrid search of vectors and text, fuse to the same   *)
(* result in either order.                                                 *)
(***************************************************************************)
PairsFuseAlike ==
    outcome = "fused" /\ Len(rankings) <= 2 => \A perm \in Arrangements : Rearranged(perm) = fused

(***************************************************************************)
(* What every ranking prefers is never fused below what it is preferred    *)
(* to, through the rounding of every sum; no score rounds to zero or       *)
(* beyond the greatest sum; and two rankings fuse to the same result in    *)
(* either order (fuse, rrf).                                               *)
(***************************************************************************)
FusionKeepsOrder == FusionTypeOK /\ DominanceRespected /\ PairsFuseAlike

(***************************************************************************)
(* What rrf.rs documents: the same set of rankings always fuses to the     *)
(* same order, independent of ranking arrangement.                         *)
(***************************************************************************)
ArrangementIndependent ==
    outcome = "fused" =>
        \A perm \in Arrangements :
            [p \in DOMAIN fused |-> Rearranged(perm)[p][1]] = [p \in DOMAIN fused |-> fused[p][1]]
=============================================================================
