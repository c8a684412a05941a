------------------------------ MODULE Bm25Index ------------------------------
(***************************************************************************)
(* The full-text engine of heurema (fts/bm25.rs).  The index keeps three   *)
(* views of its documents apart: the term counts of each document, the     *)
(* postings of each term, and the number of terms in all.  A mutation      *)
(* updates each of them by what it thinks it changes, and a query divides  *)
(* one by another.                                                         *)
(*                                                                         *)
(* A text is a sequence of characters.  Scores are fixed-point numbers     *)
(* where the code has f32: both round, so different documents may tie.     *)
(* Names that the vector engine has too carry Text or Document here.       *)
(***************************************************************************)
EXTENDS Integers, FiniteSets, Sequences

CONSTANTS
    DocumentIds,    \* document identities, ordered as integers
    Texts,          \* the texts documents and queries are made of
    Alphanumeric,   \* the characters a token is made of
    LowerCase,      \* the lower case of every alphanumeric character
    Idf,            \* Idf[n][f]: the weight of a term in f of n documents, scaled
    ResultCounts    \* how many results a query may ask for

ASSUME Bm25Assumption ==
    /\ DocumentIds \subseteq Int /\ IsFiniteSet(DocumentIds)
    /\ ResultCounts \subseteq Nat
    /\ Texts # {} /\ \A text \in Texts : Len(text) \in Nat /\ DOMAIN text = 1..Len(text)
    /\ Alphanumeric \subseteq DOMAIN LowerCase
    /\ \A n \in 1..Cardinality(DocumentIds) : \A f \in 1..n : Idf[n][f] \in Nat \ {0}

VARIABLES
    config,                 \* "Simple" or another pipeline
    documents,              \* Bm25Index::documents
    postings,               \* Bm25Index::postings
    total_document_terms,   \* Bm25Index::total_document_terms
    matches,                \* the last query and what it returned
    corpus                  \* the text last inserted for each identity not removed

index == <<documents, postings, total_document_terms>>
textVars == <<config, documents, postings, total_document_terms, matches, corpus>>

(***************************************************************************)
(* The Simple tokenizer: the maximal runs of alphanumeric characters, each *)
(* lowercased after the split.  A token is known by where it starts.       *)
(***************************************************************************)
IsToken(text, i) ==
    /\ text[i] \in Alphanumeric
    /\ i > 1 => text[i - 1] \notin Alphanumeric

Starts(text) == {i \in DOMAIN text : IsToken(text, i)}

\* The token that starts at i.
Token(text, i) ==
    LET End(j) == j = Len(text) \/ text[j + 1] \notin Alphanumeric
        last == CHOOSE j \in i..Len(text) : End(j) /\ \A h \in i..(j - 1) : ~ End(h)
    IN  [p \in 1..(last - i + 1) |-> LowerCase[text[i + p - 1]]]

tokenize(text) == {Token(text, i) : i \in Starts(text)}

document_terms(text) ==
    [counts |-> [t \in tokenize(text) |-> Cardinality({i \in Starts(text) : Token(text, i) = t})],
     length |-> Cardinality(Starts(text))]

(***************************************************************************)
(* The index.  The mutations are functions from an index to an index.      *)
(***************************************************************************)
Index(ds, ps, total) == [documents |-> ds, postings |-> ps, total |-> total]

Nothing == [x \in {} |-> x]

SaturatingSub(a, b) == IF a >= b THEN a - b ELSE 0

\* A removal that leaves a term without documents in the postings.
RemoveDocumentKeepingTerms(ix, id) ==
    IF id \notin DOMAIN ix.documents THEN ix
    ELSE Index([d \in DOMAIN ix.documents \ {id} |-> ix.documents[d]],
               [t \in DOMAIN ix.postings |->
                    [d \in DOMAIN ix.postings[t] \ {id} |-> ix.postings[t][d]]],
               SaturatingSub(ix.total, ix.documents[id].length))

RemoveDocument(ix, id) ==
    IF id \notin DOMAIN ix.documents THEN ix
    ELSE LET document == ix.documents[id]
             Others(t) == [d \in DOMAIN ix.postings[t] \ {id} |-> ix.postings[t][d]]
             emptied == {t \in DOMAIN document.counts \cap DOMAIN ix.postings :
                            DOMAIN Others(t) = {}}
         IN  Index([d \in DOMAIN ix.documents \ {id} |-> ix.documents[d]],
                   [t \in DOMAIN ix.postings \ emptied |->
                        IF t \in DOMAIN document.counts THEN Others(t) ELSE ix.postings[t]],
                   SaturatingSub(ix.total, document.length))

With(f, x, y) == [z \in DOMAIN f \cup {x} |-> IF z = x THEN y ELSE f[z]]

InsertDocument(ix, id, document) ==
    Index(With(ix.documents, id, document),
          [t \in DOMAIN ix.postings \cup DOMAIN document.counts |->
              LET old == IF t \in DOMAIN ix.postings THEN ix.postings[t] ELSE Nothing
              IN  IF t \in DOMAIN document.counts THEN With(old, id, document.counts[t]) ELSE old],
          ix.total + document.length)

\* A replacement that leaves the terms of the replaced document where they are.
InsertOver(ix, id, text) == InsertDocument(ix, id, document_terms(text))

InsertText(ix, id, text) == InsertDocument(RemoveDocument(ix, id), id, document_terms(text))

\* The index the variables hold.
Current == Index(documents, postings, total_document_terms)

Becomes(ix) ==
    /\ documents' = ix.documents
    /\ postings' = ix.postings
    /\ total_document_terms' = ix.total

\* A finite set in some order, each element once.
Listing(S) ==
    CHOOSE e \in [1..Cardinality(S) -> S] :
        \A m, n \in 1..Cardinality(S) : e[m] = e[n] => m = n

\* The sum of a function's values.
Sum(f) ==
    LET order == Listing(DOMAIN f)
        upto[n \in 0..Len(order)] == IF n = 0 THEN 0 ELSE upto[n - 1] + f[order[n]]
    IN  upto[Len(order)]

(***************************************************************************)
(* A query.  `contribution' is the BM25 formula multiplied out, with       *)
(* k1 = 1.2, b = 0.75 and avgdl = total / n:                               *)
(*   idf * 2.2 tf / (tf + 0.3 + 0.9 length / avgdl)                        *)
(***************************************************************************)
Contribution(id, t) ==
    LET n == Cardinality(DOMAIN documents)
        tf == postings[t][id]
        total == total_document_terms
    IN  (Idf[n][Cardinality(DOMAIN postings[t])] * 22 * tf * total)
            \div (10 * tf * total + 3 * total + 9 * documents[id].length * n)

Matching(terms, id) == {t \in terms \cap DOMAIN postings : id \in DOMAIN postings[t]}

DocumentScore(terms, id) == Sum([t \in Matching(terms, id) |-> Contribution(id, t)])

Scored(terms) == {id \in DOMAIN documents : Matching(terms, id) # {}}

\* The order of the results: the higher score, then the lesser identity.
Outranks(terms, i, j) ==
    \/ DocumentScore(terms, i) > DocumentScore(terms, j)
    \/ DocumentScore(terms, i) = DocumentScore(terms, j) /\ i < j

Least2(a, b) == IF a < b THEN a ELSE b

\* The first k of S in that order.
Best(terms, S, k) ==
    [p \in 1..Least2(k, Cardinality(S)) |->
        CHOOSE i \in S : Cardinality({j \in S : Outranks(terms, j, i)}) = p - 1]

\* Results cut to k before they are ordered.
RankedAfterCut(terms, k) ==
    LET cut == {i \in Scored(terms) : Cardinality({j \in Scored(terms) : j < i}) < k}
    IN  Best(terms, cut, k)

RankedDocuments(terms, k) == Best(terms, Scored(terms), k)

NoMatches == [query |-> <<>>, k |-> 0, hits |-> <<>>]

(***************************************************************************)
(* The operations.  An index of another pipeline refuses all of them.      *)
(***************************************************************************)
simple_pipeline == config = "Simple"

TextInit ==
    /\ config \in {"Simple", "Other"}
    /\ documents = Nothing
    /\ postings = Nothing
    /\ total_document_terms = 0
    /\ matches = NoMatches
    /\ corpus = Nothing

TextInsert(id, text) ==
    /\ simple_pipeline
    /\ Becomes(InsertText(Current, id, text))
    /\ corpus' = With(corpus, id, text)
    /\ matches' = NoMatches
    /\ UNCHANGED config

TextRemove(id) ==
    /\ simple_pipeline
    /\ Becomes(RemoveDocument(Current, id))
    /\ corpus' = [d \in DOMAIN corpus \ {id} |-> corpus[d]]
    /\ matches' = NoMatches
    /\ UNCHANGED config

TextQuery(text, k) ==
    /\ simple_pipeline
    /\ matches' = [query |-> text, k |-> k,
                   hits |-> IF k = 0 \/ DOMAIN documents = {} THEN <<>>
                            ELSE RankedDocuments(tokenize(text), k)]
    /\ UNCHANGED <<config, documents, postings, total_document_terms, corpus>>

Refuse == ~ simple_pipeline /\ UNCHANGED textVars

TextNext ==
    \/ \E id \in DocumentIds, text \in Texts : TextInsert(id, text)
    \/ \E id \in DocumentIds : TextRemove(id)
    \/ \E text \in Texts, k \in ResultCounts : TextQuery(text, k)
    \/ Refuse

TextSpec == TextInit /\ [][TextNext]_textVars

(***************************************************************************)
(* Reading an index back from its bytes: what try_from requires.           *)
(***************************************************************************)
TextReopens ==
    /\ \A id \in DOMAIN documents :
        /\ \A t \in DOMAIN documents[id].counts : t # <<>> /\ documents[id].counts[t] # 0
        /\ Sum(documents[id].counts) = documents[id].length
    /\ Sum([id \in DOMAIN documents |-> documents[id].length]) = total_document_terms
    /\ DOMAIN postings = UNION {DOMAIN documents[id].counts : id \in DOMAIN documents}
    /\ \A t \in DOMAIN postings :
        postings[t] = [id \in {d \in DOMAIN documents : t \in DOMAIN documents[d].counts} |->
                            documents[id].counts[t]]
    /\ DOMAIN documents # {} => simple_pipeline

(***************************************************************************)
(* Properties.                                                             *)
(***************************************************************************)
Terms == UNION {tokenize(text) : text \in Texts}

\* Type correctness; the terms in all are at most those of the longest text everywhere.
TextTypeOK ==
    /\ config \in {"Simple", "Other"}
    /\ DOMAIN documents \subseteq DocumentIds
    /\ \A id \in DOMAIN documents :
        /\ DOMAIN documents[id].counts \subseteq Terms
        /\ documents[id].length \in Nat
    /\ DOMAIN postings \subseteq Terms
    /\ \A t \in DOMAIN postings : DOMAIN postings[t] \subseteq DocumentIds
    /\ total_document_terms \in Nat
    /\ \E text \in Texts :
        total_document_terms <= Cardinality(DocumentIds) * document_terms(text).length
    /\ corpus \in UNION {[D -> Texts] : D \in SUBSET DocumentIds}

(***************************************************************************)
(* After any inserts, replacements and removals the three views agree:     *)
(* the decoder of the index (bm25.rs, try_from) accepts its own bytes.     *)
(***************************************************************************)
EveryIndexReopens == TextReopens

\* The three views as the live texts make them.
Holders(texts, t) == {id \in DOMAIN texts : t \in tokenize(texts[id])}

IndexOf(texts) ==
    Index([id \in DOMAIN texts |-> document_terms(texts[id])],
          [t \in UNION {tokenize(texts[id]) : id \in DOMAIN texts} |->
              [id \in Holders(texts, t) |-> document_terms(texts[id]).counts[t]]],
          Sum([id \in DOMAIN texts |-> document_terms(texts[id]).length]))

(***************************************************************************)
(* The index depends on the documents it holds and not on how it came to   *)
(* hold them: each view is what the live texts make of it.  A term or a    *)
(* length that a replaced or removed document leaves behind would change   *)
(* every later score.                                                      *)
(***************************************************************************)
HistoryIndependent == Current = IndexOf(corpus)

(***************************************************************************)
(* A query returns the live documents whose text has a token of the query, *)
(* all of them up to k, by score and then identity, and no document left   *)
(* out outranks one returned.  The scores are positive: no query divides   *)
(* by an average length of zero, which would make a score NaN.             *)
(***************************************************************************)
MatchesAreExact ==
    LET hits == matches.hits
        found == {hits[p] : p \in DOMAIN hits}
        terms == tokenize(matches.query)
        matching == {id \in DOMAIN corpus : tokenize(corpus[id]) \cap terms # {}}
    IN  /\ found \subseteq matching
        /\ Len(hits) = Least2(matches.k, Cardinality(matching))
        /\ found # {} => total_document_terms > 0
        /\ \A p, q \in DOMAIN hits : p < q => Outranks(terms, hits[p], hits[q])
        /\ \A id \in matching \ found, p \in DOMAIN hits : Outranks(terms, hits[p], id)

(***************************************************************************)
(* The three together.  Whatever was inserted, replaced and removed, the   *)
(* text index is the one its documents make and one that the decoder of    *)
(* its own snapshot accepts, and a query returns exactly the best of the   *)
(* documents that have one of its tokens (Bm25Index::try_from, query).     *)
(***************************************************************************)
TextIndexIsItsDocuments ==
    /\ TextTypeOK
    /\ EveryIndexReopens
    /\ HistoryIndependent
    /\ MatchesAreExact
==============================================================================
