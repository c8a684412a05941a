---------------------------- MODULE MCRetrieval ----------------------------
(***************************************************************************)
(* What answers a search: the vector engine, the full-text engine and the  *)
(* fusion of rankings.  They share no state, so each behaviour is one of   *)
(* theirs, and the others stay as they began.                              *)
(*                                                                         *)
(* The vector engine is checked over two layers, degree limits of 2 and 1  *)
(* and a construction beam of one: four members by squared distance, and   *)
(* three by each of the others.  The full-text engine has three documents  *)
(* over texts with no token, one token, two equal tokens in different      *)
(* cases, two different ones, and one token of two letters.  Rankings are  *)
(* of three identities: all of them, two of them, one listed twice, and    *)
(* none.                                                                   *)
(***************************************************************************)
EXTENDS HnswGraph, Bm25Index, RankFusion

VARIABLE part        \* whose behaviour it is

all == <<part, vars, textVars, fusionVars>>

Members == {1, 2, 3}

\* 0.0 and -3.0, asked for with 0.0, -4.0 and -7.0: members 4 or 9 apart share a score, the
\* inner products with 0.0 are both zeros, and the third query has a member too far off
\* above, by squared distance, and below, by inner product.
MCVectors == {Float(FALSE, 0), Float(TRUE, 3)}

MCQueries == {Float(FALSE, 0), Float(TRUE, 4), Float(TRUE, 7)}

MCTexts ==
    {<<>>, <<".">>, <<"a">>, <<"A">>, <<"a", ".", "A">>, <<"b", ".", ".", "a">>,
     <<".", "b", "A">>, <<"b", ".", "b", ".", "a">>}

MCLowerCase == [c \in {"a", "A", "b"} |-> IF c = "A" THEN "a" ELSE c]

\* 1000 * ln(1 + (n - f + 0.5) / (f + 0.5)), rounded
MCIdf == <<<<288>>, <<693, 182>>, <<981, 470, 134>>>>

MCRankings ==
    {<<>>}
    \cup {<<i, j>> : i, j \in Members}
    \cup {<<i, i, j>> : i, j \in Members}
    \cup {<<i, j, j>> : i, j \in Members}
    \cup {<<i, j, i>> : i, j \in Members}
    \cup {r \in Members \X Members \X Members : Cardinality({r[1], r[2], r[3]}) = 3}

RetrievalInit ==
    /\ part \in {"vector", "text", "fusion"}
    /\ Init
    /\ TextInit
    /\ FusionInit
    /\ part = "vector" \/ distance = "L2"
    /\ part = "text" \/ config = "Simple"
    /\ part = "fusion" \/ k_constant = NotFinite

RetrievalNext ==
    \/ /\ part = "vector"
       /\ Next
       /\ distance = "L2" \/ call'.id \in Members \cup {None}
       /\ UNCHANGED <<part, textVars, fusionVars>>
    \/ part = "text" /\ TextNext /\ UNCHANGED <<part, vars, fusionVars>>
    \/ part = "fusion" /\ FusionNext /\ UNCHANGED <<part, vars, textVars>>

RetrievalSpec == RetrievalInit /\ [][RetrievalNext]_all

\* The vector engine alone.
TiedScoresSpec == RetrievalInit /\ part = "vector" /\ [][RetrievalNext]_all

\* The fusion of rankings alone.
ArrangementSpec == RetrievalInit /\ part = "fusion" /\ [][RetrievalNext]_all
=============================================================================
