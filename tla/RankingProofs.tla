---------------------------- MODULE RankingProofs ----------------------------
(***************************************************************************)
(* Proofs about what ranks documents: the full-text engine (Bm25Index),    *)
(* for every set of identities, texts, characters and weights, and the     *)
(* fusion of rankings (RankFusion), for every set of rankings, constants   *)
(* and precisions.                                                         *)
(***************************************************************************)
EXTENDS Bm25Index, RankFusion, Counting

(***************************************************************************)
(* Sums.                                                                   *)
(***************************************************************************)
\* The sum of naturals is their total, along whatever listing it is taken.
LEMMA SumIsTotal ==
    ASSUME NEW D, IsFiniteSet(D), NEW f \in [D -> Nat]
    PROVE  Sum(f) = Total(f) /\ Total(f) \in Nat
PROOF
  <1> DEFINE N == Cardinality(D)
  <1> DEFINE order == Listing(D)
  <1> DEFINE g == CHOOSE u : u = [n \in 0..Len(order) |->
                        IF n = 0 THEN 0 ELSE u[n - 1] + f[order[n]]]
  <1>1. Sum(f) = g[Len(order)]
    BY DEF Sum
  <1>2. N \in Nat /\ ExistsBijection(1..N, D)
    BY FS_CardinalityType
  <1>3. order \in Injection(1..N, D)
    <2>1. \E e \in [1..N -> D] : \A a, b \in 1..N : e[a] = e[b] => a = b
      BY <1>2 DEF ExistsBijection, Bijection, Injection, IsInjective
    <2>2. order \in [1..N -> D] /\ \A a, b \in 1..N : order[a] = order[b] => a = b
      BY <2>1 DEF Listing
    <2>3. QED
      BY <2>2 DEF Injection, IsInjective
  <1>4. Len(order) = N
    BY <1>2, <1>3 DEF Injection
  <1> HIDE DEF N, order
  <1>5. PICK u : AddsUp(f, order, N, u) /\ u[N] = Total(f)
    BY <1>3, AddsUpToTotal DEF N
  <1>6. AddsUp(f, order, N, g)
    <2>1. \E v : AddsUp(f, order, N, v)
      BY <1>5
    <2>2. g = CHOOSE v : v = [n \in 0..N |-> IF n = 0 THEN 0 ELSE v[n - 1] + f[order[n]]]
      BY <1>4
    <2> HIDE DEF g
    <2>3. QED
      BY <2>1, <2>2 DEF AddsUp
  <1> HIDE DEF g
  <1>7. g[N] = u[N]
    BY <1>2, <1>5, <1>6, AddsUpOnce
  <1>8. QED
    BY <1>1, <1>4, <1>5, <1>7, TotalType

(***************************************************************************)
(* Tokens.                                                                 *)
(***************************************************************************)
LEMMA TokenNotEmpty ==
    ASSUME NEW text \in Texts, NEW i \in Starts(text)
    PROVE  Token(text, i) # <<>>
PROOF
  <1> DEFINE n == Len(text)
  <1> DEFINE End(j) == j = n \/ text[j + 1] \notin Alphanumeric
  <1> DEFINE ends == {j \in i..n : End(j)}
  <1> DEFINE last == CHOOSE j \in i..n : End(j) /\ \A h \in i..(j - 1) : ~ End(h)
  <1>1. n \in Nat /\ i \in 1..n
    BY Bm25Assumption DEF Starts
  <1>2. n \in ends /\ ends \in SUBSET Nat
    BY <1>1
  <1>3. PICK j \in ends : \A h \in ends : j <= h
    BY <1>2, LeastNatural
  <1>4. j \in i..n /\ End(j) /\ \A h \in i..(j - 1) : ~ End(h)
    <2> HIDE DEF n, End
    <2>1. j \in i..n /\ End(j)
      OBVIOUS
    <2>2. ASSUME NEW h \in i..(j - 1), End(h) PROVE FALSE
      <3>1. h \in ends /\ ~ (j <= h)
        BY <1>1, <2>1, <2>2
      <3>2. QED
        BY <1>3, <3>1
    <2>3. QED
      BY <2>1, <2>2
  <1> HIDE DEF End
  <1>5. last \in i..n
    BY <1>4
  <1>6. Token(text, i) = [p \in 1..(last - i + 1) |-> LowerCase[text[i + p - 1]]]
    BY DEF Token, End
  <1> HIDE DEF last
  <1>7. 1 \in DOMAIN Token(text, i)
    BY <1>1, <1>5, <1>6
  <1>8. QED
    BY <1>7

\* What document_terms counts: every term at least once, and every token once.
LEMMA TermsFacts ==
    ASSUME NEW text \in Texts
    PROVE  /\ document_terms(text).length \in Nat
           /\ IsFiniteSet(tokenize(text))
           /\ document_terms(text).counts \in [tokenize(text) -> Nat]
           /\ \A t \in tokenize(text) : t # <<>> /\ document_terms(text).counts[t] # 0
           /\ Sum(document_terms(text).counts) = document_terms(text).length
           /\ tokenize(text) # {} => document_terms(text).length > 0
PROOF
  <1> DEFINE P == Starts(text)
  <1> DEFINE g == [i \in P |-> Token(text, i)]
  <1> DEFINE D == tokenize(text)
  <1> DEFINE f == document_terms(text).counts
  <1>1. IsFiniteSet(P)
    <2>1. P \in SUBSET (1..Len(text)) /\ Len(text) \in Nat
      BY Bm25Assumption DEF Starts
    <2>2. IsFiniteSet(1..Len(text))
      BY <2>1, FS_Interval
    <2> HIDE DEF P
    <2>3. QED
      BY <2>1, <2>2, FS_Subset
  <1>2. document_terms(text).length = Cardinality(P) /\ Cardinality(P) \in Nat
    BY <1>1, FS_CardinalityType DEF document_terms
  <1>3. f = [t \in D |-> Cardinality({i \in P : Token(text, i) = t})]
    BY DEF document_terms
  <1>4. D = {Token(text, i) : i \in P}
    BY DEF tokenize
  <1> HIDE DEF P, D, f
  <1>5. \A i \in P : g[i] \in D /\ g[i] = Token(text, i)
    BY <1>4
  <1>6. g \in Surjection(P, D)
    BY <1>4, <1>5 DEF Surjection
  <1>7. IsFiniteSet(D)
    BY <1>1, <1>6, FS_Surjection
  <1>8. ASSUME NEW t \in D
        PROVE  f[t] \in Nat /\ f[t] # 0 /\ f[t] = Cardinality({i \in P : g[i] = t})
    <2> DEFINE Q == {i \in P : g[i] = t}
    <2>1. Q = {i \in P : Token(text, i) = t}
      BY <1>5
    <2>2. f[t] = Cardinality(Q)
      BY <1>3, <2>1
    <2>3. Q \in SUBSET P /\ Q # {}
      BY <1>4, <1>5
    <2> HIDE DEF Q
    <2>4. IsFiniteSet(Q)
      BY <1>1, <2>3, FS_Subset
    <2>5. QED
      BY <2>2, <2>3, <2>4, FS_CardinalityType, FS_EmptySet DEF Q
  <1>9. f \in [D -> Nat]
    BY <1>3, <1>8
  <1> HIDE DEF g
  <1>10. Total(f) = Cardinality(P)
    <2>1. (\A t \in D : f[t] = Cardinality({i \in P : g[i] = t})) /\ \A i \in P : g[i] \in D
      BY <1>5, <1>8
    <2>2. QED
      BY <1>1, <1>9, <2>1, TotalOfParts
  <1>11. Sum(f) = Cardinality(P)
    BY <1>7, <1>9, <1>10, SumIsTotal
  <1>12. \A t \in D : t # <<>>
    BY <1>4, TokenNotEmpty DEF P
  <1>13. D # {} => Cardinality(P) > 0
    BY <1>1, <1>2, <1>4, FS_EmptySet
  <1>14. QED
    BY <1>2, <1>7, <1>8, <1>9, <1>11, <1>12, <1>13 DEF f, D

(***************************************************************************)
(* The index that texts make, and what a removal and an insertion make of  *)
(* it.                                                                     *)
(***************************************************************************)
CorpusOK(c) ==
    /\ c = [id \in DOMAIN c |-> c[id]]
    /\ DOMAIN c \in SUBSET DocumentIds
    /\ \A id \in DOMAIN c : c[id] \in Texts

Lengths(c) == [id \in DOMAIN c |-> document_terms(c[id]).length]
AllTerms(c) == UNION {tokenize(c[id]) : id \in DOMAIN c}
Posting(c, t) == [id \in Holders(c, t) |-> document_terms(c[id]).counts[t]]

Omit(c, id) == [d \in DOMAIN c \ {id} |-> c[d]]

LEMMA CorpusFacts ==
    ASSUME NEW c, CorpusOK(c)
    PROVE  /\ IsFiniteSet(DOMAIN c)
           /\ Lengths(c) \in [DOMAIN c -> Nat]
           /\ Sum(Lengths(c)) = Total(Lengths(c)) /\ Total(Lengths(c)) \in Nat
           /\ \A t : t \in AllTerms(c) <=> Holders(c, t) # {}
           /\ \A id \in DOMAIN c : DOMAIN document_terms(c[id]).counts = tokenize(c[id])
PROOF
  <1>1. IsFiniteSet(DOMAIN c)
    BY Bm25Assumption, FS_Subset DEF CorpusOK
  <1>2. \A id \in DOMAIN c : /\ document_terms(c[id]).length \in Nat
                             /\ document_terms(c[id]).counts \in [tokenize(c[id]) -> Nat]
    BY TermsFacts DEF CorpusOK
  <1>3. Lengths(c) \in [DOMAIN c -> Nat]
    BY <1>2 DEF Lengths
  <1>4. \A t : t \in AllTerms(c) <=> Holders(c, t) # {}
    BY DEF AllTerms, Holders
  <1>5. QED
    BY <1>1, <1>2, <1>3, <1>4, SumIsTotal

LEMMA IndexOfParts ==
    ASSUME NEW c
    PROVE  IndexOf(c) = Index([id \in DOMAIN c |-> document_terms(c[id])],
                              [t \in AllTerms(c) |-> Posting(c, t)],
                              Sum(Lengths(c)))
BY DEF IndexOf, AllTerms, Posting, Lengths

LEMMA OmitFacts ==
    ASSUME NEW c, CorpusOK(c), NEW id \in DOMAIN c
    PROVE  /\ CorpusOK(Omit(c, id))
           /\ \A t : Holders(Omit(c, id), t) = Holders(c, t) \ {id}
           /\ Sum(Lengths(c)) = Sum(Lengths(Omit(c, id))) + document_terms(c[id]).length
PROOF
  <1> DEFINE e == Omit(c, id)
  <1>1. DOMAIN e = DOMAIN c \ {id} /\ \A d \in DOMAIN e : e[d] = c[d]
    BY DEF Omit
  <1>2. CorpusOK(e)
    BY DEF CorpusOK, Omit
  <1> HIDE DEF e
  <1>3. \A t : Holders(e, t) = Holders(c, t) \ {id}
    BY <1>1 DEF Holders
  <1>4. Adds(Lengths(c), Lengths(e), DOMAIN e, id)
    <2>1. Lengths(c) \in [DOMAIN c -> Nat] /\ Lengths(e) \in [DOMAIN e -> Nat]
      BY <1>2, CorpusFacts
    <2>2. \A d \in DOMAIN e : Lengths(c)[d] = Lengths(e)[d]
      BY <1>1 DEF Lengths
    <2>3. (DOMAIN e) \cup {id} = DOMAIN c /\ id \notin DOMAIN e
      BY <1>1
    <2>4. QED
      BY <2>1, <2>2, <2>3 DEF Adds
  <1>5. Total(Lengths(c)) = Total(Lengths(e)) + Lengths(c)[id]
    BY <1>2, <1>4, CorpusFacts, TotalWith
  <1>6. Lengths(c)[id] = document_terms(c[id]).length
    BY DEF Lengths
  <1>7. QED
    BY <1>2, <1>3, <1>5, <1>6, CorpusFacts DEF e

\* A removal leaves the index of the texts that stay.
LEMMA RemovedIndex ==
    ASSUME NEW c, CorpusOK(c), NEW id
    PROVE  RemoveDocument(IndexOf(c), id) = IndexOf(Omit(c, id)) /\ CorpusOK(Omit(c, id))
PROOF
  <1> DEFINE ix == IndexOf(c)
  <1>0. /\ ix.documents = [d \in DOMAIN c |-> document_terms(c[d])]
        /\ ix.postings = [t \in AllTerms(c) |-> Posting(c, t)]
        /\ ix.total = Sum(Lengths(c))
    BY IndexOfParts DEF Index
  <1>1. CASE id \notin DOMAIN c
    <2>1. Omit(c, id) = c
      BY <1>1 DEF Omit, CorpusOK
    <2>2. RemoveDocument(ix, id) = ix
      BY <1>0, <1>1 DEF RemoveDocument
    <2>3. QED
      BY <2>1, <2>2
  <1>2. CASE id \in DOMAIN c
    <2> DEFINE e == Omit(c, id)
    <2> DEFINE gone == tokenize(c[id])
    <2> DEFINE document == ix.documents[id]
    <2> DEFINE Others(t) == [d \in DOMAIN ix.postings[t] \ {id} |-> ix.postings[t][d]]
    <2> DEFINE emptied == {t \in DOMAIN document.counts \cap DOMAIN ix.postings :
                              DOMAIN Others(t) = {}}
    <2> DEFINE ds == [d \in DOMAIN ix.documents \ {id} |-> ix.documents[d]]
    <2> DEFINE ps == [t \in DOMAIN ix.postings \ emptied |->
                         IF t \in DOMAIN document.counts THEN Others(t) ELSE ix.postings[t]]
    <2>1. RemoveDocument(ix, id) = Index(ds, ps, SaturatingSub(ix.total, document.length))
      BY <1>0, <1>2 DEF RemoveDocument
    <2> HIDE DEF ix
    <2>2. /\ CorpusOK(e)
          /\ \A t : Holders(e, t) = Holders(c, t) \ {id}
          /\ Sum(Lengths(c)) = Sum(Lengths(e)) + document_terms(c[id]).length
          /\ Sum(Lengths(e)) \in Nat
      BY <1>2, OmitFacts, CorpusFacts
    <2>3. DOMAIN e = DOMAIN c \ {id} /\ \A d \in DOMAIN e : e[d] = c[d]
      BY DEF Omit
    <2> HIDE DEF e
    <2>4. /\ document = document_terms(c[id]) /\ DOMAIN document.counts = gone
          /\ document.length \in Nat
      BY <1>0, <1>2, CorpusFacts, TermsFacts DEF CorpusOK
    <2>5. ds = [d \in DOMAIN e |-> document_terms(e[d])]
      BY <1>0, <2>3
    <2>6. ASSUME NEW t \in AllTerms(c)
          PROVE  Others(t) = Posting(e, t) /\ DOMAIN Others(t) = Holders(e, t)
      <3>1. ix.postings[t] = Posting(c, t)
        BY <1>0
      <3>2. DOMAIN ix.postings[t] \ {id} = Holders(e, t)
        BY <2>2, <3>1 DEF Posting
      <3>3. ASSUME NEW d \in Holders(e, t)
            PROVE  ix.postings[t][d] = document_terms(e[d]).counts[t]
        BY <2>2, <2>3, <3>1 DEF Posting, Holders
      <3>4. QED
        BY <3>2, <3>3 DEF Posting
    <2>7. ASSUME NEW t \in AllTerms(c), t \notin gone
          PROVE  ix.postings[t] = Posting(e, t)
      <3>1. Holders(e, t) = Holders(c, t)
        BY <2>2, <2>7 DEF Holders
      <3>2. \A d \in Holders(c, t) : e[d] = c[d]
        BY <2>3, <3>1 DEF Holders
      <3>3. Posting(e, t) = Posting(c, t)
        BY <3>1, <3>2 DEF Posting
      <3>4. QED
        BY <1>0, <3>3
    <2> HIDE DEF Others
    <2>8. DOMAIN ix.postings = AllTerms(c)
      BY <1>0
    <2>9. AllTerms(c) \ emptied = AllTerms(e)
      <3>1. \A t : t \in AllTerms(e) <=> Holders(e, t) # {}
        BY <2>2, CorpusFacts
      <3>2. \A t : t \in AllTerms(c) <=> Holders(c, t) # {}
        BY CorpusFacts
      <3>3. \A t : t \in emptied <=> t \in gone /\ t \in AllTerms(c) /\ Holders(e, t) = {}
        BY <2>4, <2>6, <2>8
      <3>4. \A t : t \notin gone => id \notin Holders(c, t)
        BY DEF Holders
      <3>5. QED
        BY <2>2, <3>1, <3>2, <3>3, <3>4
    <2> HIDE DEF emptied
    <2>10. ps = [t \in AllTerms(e) |-> Posting(e, t)]
      <3>1. ASSUME NEW t \in AllTerms(e)
            PROVE  (IF t \in DOMAIN document.counts THEN Others(t) ELSE ix.postings[t])
                        = Posting(e, t)
        BY <2>4, <2>6, <2>7, <2>9
      <3>2. QED
        BY <2>8, <2>9, <3>1
    <2>11. SaturatingSub(ix.total, document.length) = Sum(Lengths(e))
      BY <1>0, <2>2, <2>4 DEF SaturatingSub
    <2>12. IndexOf(e) = Index(ds, ps, SaturatingSub(ix.total, document.length))
      BY <2>5, <2>10, <2>11, IndexOfParts
    <2>13. QED
      BY <2>1, <2>2, <2>12 DEF ix, e
  <1>3. QED
    BY <1>1, <1>2

LEMMA WithFacts ==
    ASSUME NEW c, CorpusOK(c), NEW id \in DocumentIds, id \notin DOMAIN c,
           NEW text \in Texts
    PROVE  /\ CorpusOK(With(c, id, text))
           /\ \A t : Holders(With(c, id, text), t)
                        = IF t \in tokenize(text) THEN Holders(c, t) \cup {id} ELSE Holders(c, t)
           /\ Sum(Lengths(With(c, id, text))) = Sum(Lengths(c)) + document_terms(text).length
PROOF
  <1> DEFINE e == With(c, id, text)
  <1>1. DOMAIN e = DOMAIN c \cup {id} /\ e[id] = text /\ \A d \in DOMAIN c : e[d] = c[d]
    BY DEF With
  <1>2. CorpusOK(e)
    <2>1. \A d \in DOMAIN e : e[d] \in Texts
      BY <1>1 DEF CorpusOK
    <2>2. DOMAIN e \in SUBSET DocumentIds
      BY <1>1 DEF CorpusOK
    <2>3. e = [d \in DOMAIN e |-> e[d]]
      BY DEF With
    <2>4. QED
      BY <2>1, <2>2, <2>3 DEF CorpusOK
  <1> HIDE DEF e
  <1>3. ASSUME NEW t
        PROVE  Holders(e, t) = IF t \in tokenize(text) THEN Holders(c, t) \cup {id}
                                                       ELSE Holders(c, t)
    <2>1. \A d : d \in Holders(e, t) <=> d \in DOMAIN c \cup {id} /\ t \in tokenize(e[d])
      BY <1>1 DEF Holders
    <2>2. \A d : d \in Holders(c, t) <=> d \in DOMAIN c /\ t \in tokenize(c[d])
      BY DEF Holders
    <2>3. ASSUME NEW d
          PROVE  d \in Holders(e, t) <=> d \in Holders(c, t) \/ (d = id /\ t \in tokenize(text))
      <3>1. CASE d = id
        BY <1>1, <2>1, <2>2, <3>1
      <3>2. CASE d # id /\ d \in DOMAIN c
        BY <1>1, <2>1, <2>2, <3>2
      <3>3. CASE d # id /\ d \notin DOMAIN c
        BY <1>1, <2>1, <2>2, <3>3
      <3>4. QED
        BY <3>1, <3>2, <3>3
    <2>4. CASE t \in tokenize(text)
      BY <2>3, <2>4
    <2>5. CASE t \notin tokenize(text)
      BY <2>3, <2>5
    <2>6. QED
      BY <2>4, <2>5
  <1>4. Adds(Lengths(e), Lengths(c), DOMAIN c, id)
    <2>1. Lengths(c) \in [DOMAIN c -> Nat] /\ Lengths(e) \in [DOMAIN e -> Nat]
      BY <1>2, CorpusFacts
    <2>2. \A d \in DOMAIN c : Lengths(e)[d] = Lengths(c)[d]
      BY <1>1 DEF Lengths
    <2>3. QED
      BY <1>1, <2>1, <2>2 DEF Adds
  <1>5. Total(Lengths(e)) = Total(Lengths(c)) + Lengths(e)[id]
    BY <1>4, CorpusFacts, TotalWith
  <1>6. Lengths(e)[id] = document_terms(text).length
    BY <1>1 DEF Lengths
  <1>7. QED
    BY <1>2, <1>3, <1>5, <1>6, CorpusFacts DEF e

\* An insertion under a new identity makes the index of the texts with one more.
LEMMA InsertedIndex ==
    ASSUME NEW c, CorpusOK(c), NEW id \in DocumentIds, id \notin DOMAIN c,
           NEW text \in Texts
    PROVE  /\ InsertDocument(IndexOf(c), id, document_terms(text)) = IndexOf(With(c, id, text))
           /\ CorpusOK(With(c, id, text))
PROOF
  <1> DEFINE ix == IndexOf(c)
  <1> DEFINE e == With(c, id, text)
  <1> DEFINE document == document_terms(text)
  <1> DEFINE new == tokenize(text)
  <1> DEFINE Old(t) == IF t \in DOMAIN ix.postings THEN ix.postings[t] ELSE Nothing
  <1> DEFINE Now(t) == IF t \in DOMAIN document.counts THEN With(Old(t), id, document.counts[t])
                                                       ELSE Old(t)
  <1> DEFINE ds == With(ix.documents, id, document)
  <1> DEFINE ps == [t \in DOMAIN ix.postings \cup DOMAIN document.counts |-> Now(t)]
  <1>0. /\ ix.documents = [d \in DOMAIN c |-> document_terms(c[d])]
        /\ ix.postings = [t \in AllTerms(c) |-> Posting(c, t)]
        /\ ix.total = Sum(Lengths(c))
    BY IndexOfParts DEF Index
  <1>1. InsertDocument(ix, id, document) = Index(ds, ps, ix.total + document.length)
    BY DEF InsertDocument
  <1> HIDE DEF ix
  <1>2. /\ CorpusOK(e)
        /\ \A t : Holders(e, t) = IF t \in new THEN Holders(c, t) \cup {id} ELSE Holders(c, t)
        /\ Sum(Lengths(e)) = Sum(Lengths(c)) + document.length
    BY WithFacts
  <1>3. DOMAIN e = DOMAIN c \cup {id} /\ e[id] = text /\ \A d \in DOMAIN c : e[d] = c[d]
    BY DEF With
  <1> HIDE DEF e
  <1>4. DOMAIN document.counts = new
    BY TermsFacts
  <1> HIDE DEF document, new
  <1>5. ds = [d \in DOMAIN e |-> document_terms(e[d])]
    BY <1>0, <1>3 DEF With, document
  <1>6. DOMAIN ix.postings = AllTerms(c)
    BY <1>0
  <1>7. ASSUME NEW t
        PROVE  DOMAIN Old(t) = Holders(c, t)
               /\ \A d \in Holders(c, t) : Old(t)[d] = document_terms(c[d]).counts[t]
    <2>1. CASE t \in AllTerms(c)
      BY <1>0, <2>1 DEF Posting
    <2>2. CASE t \notin AllTerms(c)
      <3>1. Holders(c, t) = {}
        BY <2>2, CorpusFacts
      <3>2. Old(t) = Nothing
        BY <1>6, <2>2
      <3> HIDE DEF Old
      <3>3. QED
        BY <3>1, <3>2 DEF Nothing
    <2>3. QED
      BY <2>1, <2>2
  <1>8. \A t : Old(t) = [d \in DOMAIN Old(t) |-> Old(t)[d]]
    BY <1>0 DEF Posting, Nothing
  <1> HIDE DEF Old
  <1>9. ASSUME NEW t PROVE Now(t) = Posting(e, t)
    <2>1. CASE t \in new
      <3>1. Now(t) = [d \in Holders(c, t) \cup {id} |->
                        IF d = id THEN document.counts[t] ELSE Old(t)[d]]
        BY <1>4, <1>7, <2>1 DEF With
      <3>2. Holders(e, t) = Holders(c, t) \cup {id}
        BY <1>2, <2>1
      <3>3. ASSUME NEW d \in Holders(c, t) \cup {id}
            PROVE  (IF d = id THEN document.counts[t] ELSE Old(t)[d])
                        = document_terms(e[d]).counts[t]
        <4>1. CASE d = id
          BY <1>3, <4>1 DEF document
        <4>2. CASE d # id
          <5>1. d \in Holders(c, t) /\ d \in DOMAIN c
            BY <4>2 DEF Holders
          <5>2. QED
            BY <1>3, <1>7, <4>2, <5>1
        <4>3. QED
          BY <4>1, <4>2
      <3> HIDE DEF Now
      <3>4. QED
        BY <3>1, <3>2, <3>3 DEF Posting
    <2>2. CASE t \notin new
      <3>1. Now(t) = [d \in Holders(c, t) |-> Old(t)[d]]
        BY <1>4, <1>7, <1>8, <2>2
      <3>2. Holders(e, t) = Holders(c, t)
        BY <1>2, <2>2
      <3>3. ASSUME NEW d \in Holders(c, t) PROVE Old(t)[d] = document_terms(e[d]).counts[t]
        BY <1>3, <1>7 DEF Holders
      <3> HIDE DEF Now
      <3>4. QED
        BY <3>1, <3>2, <3>3 DEF Posting
    <2>3. QED
      BY <2>1, <2>2
  <1> HIDE DEF Now
  <1>10. AllTerms(c) \cup new = AllTerms(e)
    <2>1. \A t : t \in AllTerms(e) <=> Holders(e, t) # {}
      BY <1>2, CorpusFacts
    <2>2. \A t : t \in AllTerms(c) <=> Holders(c, t) # {}
      BY CorpusFacts
    <2>3. QED
      BY <1>2, <2>1, <2>2
  <1>11. ps = [t \in AllTerms(e) |-> Posting(e, t)]
    BY <1>4, <1>6, <1>9, <1>10
  <1>12. IndexOf(e) = Index(ds, ps, ix.total + document.length)
    BY <1>0, <1>2, <1>5, <1>11, IndexOfParts
  <1>13. QED
    BY <1>1, <1>2, <1>12 DEF ix, e, document

\* insert over a document that is there is a removal and an insertion, and leaves no trace
\* of the replaced text.
LEMMA ReplacedIndex ==
    ASSUME NEW c, CorpusOK(c), NEW id \in DocumentIds, NEW text \in Texts
    PROVE  InsertText(IndexOf(c), id, text) = IndexOf(With(c, id, text))
           /\ CorpusOK(With(c, id, text))
PROOF
  <1> DEFINE e == Omit(c, id)
  <1>1. RemoveDocument(IndexOf(c), id) = IndexOf(e) /\ CorpusOK(e)
    BY RemovedIndex
  <1>2. id \notin DOMAIN e
    BY DEF Omit
  <1>3. With(e, id, text) = With(c, id, text)
    <2>1. DOMAIN e \cup {id} = DOMAIN c \cup {id} /\ \A d \in DOMAIN c : d # id => e[d] = c[d]
      BY DEF Omit
    <2> HIDE DEF e
    <2>2. QED
      BY <2>1 DEF With
  <1> HIDE DEF e
  <1>4. QED
    BY <1>1, <1>2, <1>3, InsertedIndex DEF InsertText

(***************************************************************************)
(* The inductive invariant: the index is the one its live texts make, and  *)
(* an answer is what it gives to its query.                                *)
(***************************************************************************)
MatchesOK ==
    /\ matches.k \in Nat
    /\ matches.hits = IF matches.k = 0 \/ DOMAIN documents = {} THEN <<>>
                     ELSE RankedDocuments(tokenize(matches.query), matches.k)

TextInv ==
    /\ config \in {"Simple", "Other"}
    /\ CorpusOK(corpus)
    /\ Current = IndexOf(corpus)
    /\ DOMAIN corpus # {} => simple_pipeline
    /\ MatchesOK

LEMMA NothingIndexed == CorpusOK(Nothing) /\ IndexOf(Nothing) = Index(Nothing, Nothing, 0)
PROOF
  <1>1. DOMAIN Nothing = {} /\ Nothing = [id \in DOMAIN Nothing |-> Nothing[id]]
    BY DEF Nothing
  <1>2. CorpusOK(Nothing)
    BY <1>1 DEF CorpusOK
  <1>3. [id \in DOMAIN Nothing |-> document_terms(Nothing[id])] = Nothing
    BY <1>1 DEF Nothing
  <1>4. AllTerms(Nothing) = {}
    BY <1>1 DEF AllTerms
  <1>5. [t \in AllTerms(Nothing) |-> Posting(Nothing, t)] = Nothing
    BY <1>4 DEF Nothing
  <1>6. Sum(Lengths(Nothing)) = 0
    <2>1. DOMAIN Lengths(Nothing) = {} /\ Lengths(Nothing) \in [{} -> Nat]
      BY <1>1 DEF Lengths
    <2>2. QED
      BY <2>1, FS_EmptySet, SumIsTotal, TotalEmpty
  <1>7. QED
    BY <1>2, <1>3, <1>5, <1>6, IndexOfParts

LEMMA InitTextInv == TextInit => TextInv
PROOF
  <1> SUFFICES ASSUME TextInit PROVE TextInv
    OBVIOUS
  <1>1. DOMAIN Nothing = {}
    BY DEF Nothing
  <1>2. MatchesOK
    BY DEF TextInit, MatchesOK, NoMatches
  <1>3. Current = Index(Nothing, Nothing, 0)
    BY DEF TextInit, Current
  <1>4. QED
    BY <1>1, <1>2, <1>3, NothingIndexed DEF TextInit, TextInv

LEMMA BecomesCurrent ==
    ASSUME NEW c, Becomes(IndexOf(c))
    PROVE  Current' = IndexOf(c)
BY IndexOfParts DEF Becomes, Current, Index

LEMMA NextTextInv == TextInv /\ [TextNext]_textVars => TextInv'
PROOF
  <1> SUFFICES ASSUME TextInv, [TextNext]_textVars PROVE TextInv'
    OBVIOUS
  <1>1. ASSUME matches' = NoMatches PROVE MatchesOK'
    BY <1>1 DEF MatchesOK, NoMatches
  <1>2. ASSUME NEW id \in DocumentIds, NEW text \in Texts, TextInsert(id, text) PROVE TextInv'
    <2>1. /\ simple_pipeline /\ config' = config /\ matches' = NoMatches
          /\ Becomes(InsertText(Current, id, text)) /\ corpus' = With(corpus, id, text)
      BY <1>2 DEF TextInsert
    <2>2. InsertText(Current, id, text) = IndexOf(corpus') /\ CorpusOK(corpus')
      BY <2>1, ReplacedIndex DEF TextInv
    <2>3. Current' = IndexOf(corpus')
      BY <2>1, <2>2, BecomesCurrent
    <2>4. QED
      BY <1>1, <2>1, <2>2, <2>3 DEF TextInv, simple_pipeline
  <1>3. ASSUME NEW id \in DocumentIds, TextRemove(id) PROVE TextInv'
    <2>1. /\ simple_pipeline /\ config' = config /\ matches' = NoMatches
          /\ Becomes(RemoveDocument(Current, id)) /\ corpus' = Omit(corpus, id)
      BY <1>3 DEF TextRemove, Omit
    <2>2. RemoveDocument(Current, id) = IndexOf(corpus') /\ CorpusOK(corpus')
      BY <2>1, RemovedIndex DEF TextInv
    <2>3. Current' = IndexOf(corpus')
      BY <2>1, <2>2, BecomesCurrent
    <2>4. QED
      BY <1>1, <2>1, <2>2, <2>3 DEF TextInv, simple_pipeline
  <1>4. ASSUME UNCHANGED <<documents, postings, total_document_terms>>
        PROVE  \A terms, k : RankedDocuments(terms, k)' = RankedDocuments(terms, k)
    BY <1>4 DEF RankedDocuments, Best, Scored, Outranks, DocumentScore, Matching, Contribution
  <1>5. ASSUME NEW text \in Texts, NEW k \in ResultCounts, TextQuery(text, k) PROVE TextInv'
    <2>1. /\ UNCHANGED <<config, documents, postings, total_document_terms, corpus>>
          /\ matches' = [query |-> text, k |-> k,
                        hits |-> IF k = 0 \/ DOMAIN documents = {} THEN <<>>
                                 ELSE RankedDocuments(tokenize(text), k)]
      BY <1>5 DEF TextQuery
    <2>2. matches'.k = k /\ matches'.query = text
          /\ matches'.hits = IF k = 0 \/ DOMAIN documents = {} THEN <<>>
                            ELSE RankedDocuments(tokenize(text), k)
      BY <2>1
    <2>3. k \in Nat
      BY Bm25Assumption
    <2>4. MatchesOK'
      BY <1>4, <2>1, <2>2, <2>3 DEF MatchesOK
    <2>5. Current' = Current
      BY <2>1 DEF Current
    <2>6. QED
      BY <2>1, <2>4, <2>5 DEF TextInv, simple_pipeline
  <1>6. CASE UNCHANGED textVars
    <2>1. UNCHANGED <<config, documents, postings, total_document_terms, matches, corpus>>
      BY <1>6 DEF textVars
    <2>2. MatchesOK'
      BY <1>4, <2>1 DEF MatchesOK, TextInv
    <2>3. Current' = Current
      BY <2>1 DEF Current
    <2>4. QED
      BY <2>1, <2>2, <2>3 DEF TextInv, simple_pipeline
  <1>7. QED
    BY <1>2, <1>3, <1>5, <1>6 DEF TextNext, Refuse

\* Every document of the index, every posting and the total are what the texts make them.
THEOREM TextInvariance == TextSpec => []TextInv
BY InitTextInv, NextTextInv, PTL DEF TextSpec

(***************************************************************************)
(* What the invariant says of the three views.                             *)
(***************************************************************************)
LEMMA Views ==
    ASSUME TextInv
    PROVE  /\ CorpusOK(corpus)
           /\ documents = [id \in DOMAIN corpus |-> document_terms(corpus[id])]
           /\ DOMAIN documents = DOMAIN corpus
           /\ postings = [t \in AllTerms(corpus) |-> Posting(corpus, t)]
           /\ total_document_terms = Sum(Lengths(corpus))
PROOF
  <1>1. Index(documents, postings, total_document_terms)
            = Index([id \in DOMAIN corpus |-> document_terms(corpus[id])],
                    [t \in AllTerms(corpus) |-> Posting(corpus, t)],
                    Sum(Lengths(corpus)))
    BY IndexOfParts DEF TextInv, Current
  <1>2. /\ documents = [id \in DOMAIN corpus |-> document_terms(corpus[id])]
        /\ postings = [t \in AllTerms(corpus) |-> Posting(corpus, t)]
        /\ total_document_terms = Sum(Lengths(corpus))
    BY <1>1 DEF Index
  <1>3. DOMAIN documents = DOMAIN corpus
    BY <1>2
  <1>4. QED
    BY <1>2, <1>3 DEF TextInv

\* The total is at least the length of each live text, and at most that of the longest
\* live text everywhere.
LEMMA TotalFacts ==
    ASSUME TextInv
    PROVE  /\ total_document_terms \in Nat
           /\ \A id \in DOMAIN corpus : document_terms(corpus[id]).length <= total_document_terms
           /\ \E text \in Texts :
                total_document_terms <= Cardinality(DocumentIds) * document_terms(text).length
PROOF
  <1> DEFINE D == DOMAIN corpus
  <1> DEFINE f == Lengths(corpus)
  <1> DEFINE N == Cardinality(DocumentIds)
  <1>1. /\ CorpusOK(corpus)
        /\ IsFiniteSet(D) /\ f \in [D -> Nat]
        /\ total_document_terms = Total(f) /\ Total(f) \in Nat
    BY Views, CorpusFacts
  <1>2. \A id \in D : f[id] = document_terms(corpus[id]).length
    BY DEF Lengths
  <1>3. IsFiniteSet(DocumentIds) /\ D \in SUBSET DocumentIds /\ \A id \in D : corpus[id] \in Texts
    BY <1>1, Bm25Assumption DEF CorpusOK
  <1> HIDE DEF D, f
  <1>4. \A id \in D : f[id] <= Total(f)
    BY <1>1, TotalOver
  <1>5. N \in Nat /\ Cardinality(D) \in Nat /\ Cardinality(D) <= N
    BY <1>1, <1>3, FS_Subset, FS_CardinalityType
  <1> HIDE DEF N
  <1>6. \E text \in Texts : Total(f) <= N * document_terms(text).length
    <2>1. CASE D = {}
      <3>1. PICK text \in Texts : TRUE
        BY Bm25Assumption
      <3>2. Total(f) = 0
        BY <1>1, <2>1, TotalEmpty
      <3> DEFINE m == document_terms(text).length
      <3>3. m \in Nat
        BY <1>1, TermsFacts
      <3> HIDE DEF m
      <3>4. 0 <= N * m
        BY <1>5, <3>3
      <3>5. QED
        BY <3>2, <3>4 DEF m
    <2>2. CASE D # {}
      <3> DEFINE above == {m \in Nat : \A id \in D : f[id] <= m}
      <3>1. Total(f) \in above
        BY <1>1, <1>4
      <3>2. PICK m \in above : \A h \in above : m <= h
        BY <3>1, LeastNatural
      <3>3. m \in Nat /\ \A id \in D : f[id] <= m
        BY <3>2
      <3>4. \E id \in D : f[id] = m
        <4>1. SUFFICES ASSUME \A id \in D : f[id] # m PROVE FALSE
          OBVIOUS
        <4>2. \A id \in D : f[id] \in Nat /\ f[id] < m
          BY <1>1, <3>3, <4>1
        <4>3. PICK id \in D : TRUE
          BY <2>2
        <4> DEFINE h == m - 1
        <4>4. h \in Nat /\ (\A d \in D : f[d] <= h) /\ ~ (m <= h)
          BY <3>3, <4>2, <4>3
        <4> HIDE DEF h
        <4>5. QED
          BY <3>2, <4>4
      <3>5. PICK id \in D : f[id] = m
        BY <3>4
      <3>6. Total(f) <= Cardinality(D) * m
        BY <1>1, <3>3, TotalBound
      <3>7. Cardinality(D) * m <= N * m
        BY <1>5, <3>3
      <3>8. Cardinality(D) * m \in Int /\ N * m \in Int
        BY <1>5, <3>3
      <3>9. Total(f) <= N * m
        BY <1>1, <3>6, <3>7, <3>8
      <3>10. QED
        BY <1>2, <1>3, <3>5, <3>9
    <2>3. QED
      BY <2>1, <2>2
  <1>7. QED
    BY <1>1, <1>2, <1>4, <1>6 DEF D, N

LEMMA TextInvTypeOK == TextInv => TextTypeOK
PROOF
  <1> SUFFICES ASSUME TextInv PROVE TextTypeOK
    OBVIOUS
  <1>1. CorpusOK(corpus)
    BY Views
  <1>2. /\ corpus = [id \in DOMAIN corpus |-> corpus[id]] /\ DOMAIN corpus \in SUBSET DocumentIds
        /\ \A id \in DOMAIN corpus : corpus[id] \in Texts
    BY <1>1 DEF CorpusOK
  <1>3. corpus \in [DOMAIN corpus -> Texts]
    BY <1>2
  <1>4. corpus \in UNION {[D -> Texts] : D \in SUBSET DocumentIds}
    BY <1>2, <1>3
  <1>5. ASSUME NEW id \in DOMAIN documents
        PROVE  /\ DOMAIN documents[id].counts \subseteq Terms
               /\ documents[id].length \in Nat
    <2>1. documents[id] = document_terms(corpus[id]) /\ corpus[id] \in Texts
      BY <1>2, Views
    <2>2. DOMAIN document_terms(corpus[id]).counts = tokenize(corpus[id])
      BY <1>1, <2>1, TermsFacts
    <2>3. tokenize(corpus[id]) \subseteq Terms
      BY <2>1 DEF Terms
    <2>4. document_terms(corpus[id]).length \in Nat
      BY <1>1, <2>1, TermsFacts
    <2>5. QED
      BY <2>1, <2>2, <2>3, <2>4
  <1>6. DOMAIN postings = AllTerms(corpus)
        /\ \A t \in DOMAIN postings : DOMAIN postings[t] = Holders(corpus, t)
    BY Views DEF Posting
  <1>7. DOMAIN postings \subseteq Terms
    BY <1>2, <1>6 DEF AllTerms, Terms
  <1>8. \A t \in DOMAIN postings : DOMAIN postings[t] \subseteq DocumentIds
    BY <1>2, <1>6 DEF Holders
  <1>9. DOMAIN documents \subseteq DocumentIds
    BY <1>2, Views
  <1>10. config \in {"Simple", "Other"}
    BY DEF TextInv
  <1>11. QED
    BY <1>4, <1>5, <1>7, <1>8, <1>9, <1>10, TotalFacts DEF TextTypeOK

LEMMA TextInvReopens == TextInv => EveryIndexReopens
PROOF
  <1> SUFFICES ASSUME TextInv PROVE TextReopens
    BY DEF EveryIndexReopens
  <1>1. /\ CorpusOK(corpus)
        /\ \A id \in DOMAIN corpus : corpus[id] \in Texts
        /\ DOMAIN documents = DOMAIN corpus
        /\ \A id \in DOMAIN documents : documents[id] = document_terms(corpus[id])
    BY Views DEF CorpusOK
  <1>2. ASSUME NEW id \in DOMAIN documents
        PROVE  /\ DOMAIN documents[id].counts = tokenize(corpus[id])
               /\ \A t \in DOMAIN documents[id].counts : t # <<>> /\ documents[id].counts[t] # 0
               /\ Sum(documents[id].counts) = documents[id].length
    <2>1. DOMAIN document_terms(corpus[id]).counts = tokenize(corpus[id])
      BY <1>1, TermsFacts
    <2>2. QED
      BY <1>1, <2>1, TermsFacts
  <1>3. [id \in DOMAIN documents |-> documents[id].length] = Lengths(corpus)
    BY <1>1 DEF Lengths
  <1>4. Sum([id \in DOMAIN documents |-> documents[id].length]) = total_document_terms
    BY <1>3, Views
  <1>5. DOMAIN postings = UNION {DOMAIN documents[id].counts : id \in DOMAIN documents}
    <2>1. DOMAIN postings = AllTerms(corpus)
      BY Views
    <2>2. QED
      BY <1>1, <1>2, <2>1 DEF AllTerms
  <1>6. ASSUME NEW t \in DOMAIN postings
        PROVE  postings[t] = [id \in {d \in DOMAIN documents : t \in DOMAIN documents[d].counts} |->
                                documents[id].counts[t]]
    <2>1. postings[t] = Posting(corpus, t)
      BY Views
    <2>2. {d \in DOMAIN documents : t \in DOMAIN documents[d].counts} = Holders(corpus, t)
      BY <1>1, <1>2 DEF Holders
    <2>3. \A d \in Holders(corpus, t) :
            documents[d].counts[t] = document_terms(corpus[d]).counts[t]
      BY <1>1 DEF Holders
    <2>4. QED
      BY <2>1, <2>2, <2>3 DEF Posting
  <1>7. DOMAIN documents # {} => simple_pipeline
    BY <1>1 DEF TextInv
  <1>8. QED
    BY <1>2, <1>4, <1>5, <1>6, <1>7 DEF TextReopens

(***************************************************************************)
(* Scores: sums of positive contributions, so that documents can be ranked.*)
(***************************************************************************)
LEMMA Quotient ==
    ASSUME NEW a \in Nat, NEW b \in Nat, b > 0
    PROVE  a \div b \in Nat
OBVIOUS

LEMMA Products ==
    ASSUME NEW a \in Nat, NEW b \in Nat
    PROVE  a * b \in Nat
OBVIOUS

\* The formula with its parts as names: the divisor is positive.
LEMMA Weighed ==
    ASSUME NEW weight \in Nat, NEW tf \in Nat, NEW total \in Nat, total > 0,
           NEW length \in Nat, NEW n \in Nat
    PROVE  (weight * 22 * tf * total) \div (10 * tf * total + 3 * total + 9 * length * n) \in Nat
PROOF
  <1> DEFINE a == weight * 22 * tf * total
  <1> DEFINE x == 10 * tf * total
  <1> DEFINE y == 9 * length * n
  <1>1. weight * 22 \in Nat /\ 10 * tf \in Nat /\ 9 * length \in Nat /\ 3 * total \in Nat
        /\ 3 * total > 0
    OBVIOUS
  <1>2. weight * 22 * tf \in Nat
    BY <1>1, Products
  <1>3. a \in Nat /\ x \in Nat /\ y \in Nat
    BY <1>1, <1>2, Products
  <1> HIDE DEF a, x, y
  <1>4. x + 3 * total + y \in Nat /\ x + 3 * total + y > 0
    BY <1>1, <1>3
  <1> DEFINE b == x + 3 * total + y
  <1>5. b \in Nat /\ b > 0
    BY <1>4
  <1> HIDE DEF b
  <1>6. a \div b \in Nat
    BY <1>3, <1>5, Quotient
  <1>7. QED
    BY <1>6 DEF a, b, x, y

\* The terms of a query that a live document has.
LEMMA MatchingFacts ==
    ASSUME TextInv, NEW terms, NEW id \in DOMAIN corpus
    PROVE  /\ Matching(terms, id) = terms \cap tokenize(corpus[id])
           /\ IsFiniteSet(Matching(terms, id))
PROOF
  <1>1. /\ DOMAIN postings = AllTerms(corpus)
        /\ \A t \in DOMAIN postings : DOMAIN postings[t] = Holders(corpus, t)
    BY Views DEF Posting
  <1>2. Matching(terms, id) = terms \cap tokenize(corpus[id])
    <2>1. \A t : t \in tokenize(corpus[id]) <=> id \in Holders(corpus, t)
      BY DEF Holders
    <2>2. \A t : id \in Holders(corpus, t) => t \in AllTerms(corpus)
      BY DEF Holders, AllTerms
    <2>3. QED
      BY <1>1, <2>1, <2>2 DEF Matching
  <1>3. IsFiniteSet(tokenize(corpus[id]))
    BY Views, TermsFacts DEF CorpusOK
  <1>4. QED
    BY <1>2, <1>3, FS_Subset

\* A live document with a term of a query has a length, and so has the index.
LEMMA LengthsPositive ==
    ASSUME TextInv, NEW id \in DOMAIN corpus, tokenize(corpus[id]) # {}
    PROVE  /\ document_terms(corpus[id]).length \in Nat
           /\ total_document_terms \in Nat /\ total_document_terms > 0
PROOF
  <1> DEFINE length == document_terms(corpus[id]).length
  <1>1. length \in Nat /\ length > 0
    BY Views, TermsFacts DEF CorpusOK
  <1>2. total_document_terms \in Nat /\ length <= total_document_terms
    BY TotalFacts
  <1> HIDE DEF length
  <1>3. total_document_terms > 0
    BY <1>1, <1>2
  <1>4. QED
    BY <1>1, <1>2, <1>3 DEF length

LEMMA ContributionType ==
    ASSUME TextInv, NEW id \in DOMAIN corpus, NEW t \in tokenize(corpus[id])
    PROVE  Contribution(id, t) \in Nat
PROOF
  <1> DEFINE n == Cardinality(DOMAIN documents)
  <1> DEFINE F == DOMAIN postings[t]
  <1> DEFINE m == Cardinality(F)
  <1> DEFINE N == Cardinality(DocumentIds)
  <1>1. /\ CorpusOK(corpus)
        /\ DOMAIN documents = DOMAIN corpus
        /\ documents[id] = document_terms(corpus[id])
        /\ postings = [w \in AllTerms(corpus) |-> Posting(corpus, w)]
    BY Views
  <1>2. id \in Holders(corpus, t) /\ t \in AllTerms(corpus)
    BY DEF Holders, AllTerms
  <1>3. /\ F = Holders(corpus, t)
        /\ postings[t][id] = document_terms(corpus[id]).counts[t]
    BY <1>1, <1>2 DEF Posting
  <1>4. DOMAIN documents \in SUBSET DocumentIds /\ F \in SUBSET DOMAIN documents /\ id \in F
    BY <1>1, <1>2, <1>3 DEF CorpusOK, Holders
  <1>5. IsFiniteSet(DocumentIds)
    BY Bm25Assumption
  <1>6. IsFiniteSet(DOMAIN documents) /\ IsFiniteSet(F) /\ n <= N /\ m <= n
    BY <1>4, <1>5, FS_Subset
  <1>7. n \in Nat /\ m \in Nat /\ N \in Nat
    BY <1>5, <1>6, FS_CardinalityType
  <1>8. m # 0
    BY <1>4, <1>6, FS_EmptySet
  <1> HIDE DEF n, m, N
  <1>9. n \in 1..N /\ m \in 1..n
    BY <1>6, <1>7, <1>8
  <1> DEFINE weight == Idf[n][m]
  <1>10. weight \in Nat
    BY <1>9, Bm25Assumption DEF N
  <1> DEFINE tf == postings[t][id]
  <1>11. tf \in Nat
    BY <1>1, <1>3, TermsFacts DEF CorpusOK
  <1> DEFINE length == documents[id].length
  <1> DEFINE total == total_document_terms
  <1>12. length \in Nat /\ total \in Nat /\ total > 0
    BY <1>1, LengthsPositive
  <1>13. Contribution(id, t)
            = (weight * 22 * tf * total) \div (10 * tf * total + 3 * total + 9 * length * n)
    BY DEF Contribution, n, m
  <1> HIDE DEF weight, tf, length, total
  <1>14. QED
    BY <1>7, <1>10, <1>11, <1>12, <1>13, Weighed

LEMMA ScoreType ==
    ASSUME TextInv, NEW terms, NEW id \in DOMAIN corpus
    PROVE  DocumentScore(terms, id) \in Nat
PROOF
  <1> DEFINE D == Matching(terms, id)
  <1> DEFINE f == [t \in D |-> Contribution(id, t)]
  <1>1. IsFiniteSet(D) /\ D = terms \cap tokenize(corpus[id])
    BY MatchingFacts
  <1> HIDE DEF D
  <1>2. \A t \in D : Contribution(id, t) \in Nat
    BY <1>1, ContributionType
  <1>3. f \in [D -> Nat]
    BY <1>2
  <1>4. DocumentScore(terms, id) = Sum(f)
    BY DEF DocumentScore, D
  <1> HIDE DEF f
  <1>5. QED
    BY <1>1, <1>3, <1>4, SumIsTotal

Order(terms, S) == {p \in S \X S : Outranks(terms, p[1], p[2])}

LEMMA OutranksOrders ==
    ASSUME TextInv, NEW terms, NEW S \in SUBSET DOMAIN corpus
    PROVE  /\ StrictOrder(Order(terms, S), S)
           /\ \A i, j \in S : <<i, j>> \in Order(terms, S) <=> Outranks(terms, i, j)
PROOF
  <1> DEFINE R == Order(terms, S)
  <1>1. \A i, j \in S : <<i, j>> \in R <=> Outranks(terms, i, j)
    BY DEF Order
  <1>2. \A i \in S : i \in Int /\ DocumentScore(terms, i) \in Nat
    BY Views, ScoreType, Bm25Assumption DEF CorpusOK
  <1> HIDE DEF R
  <1>3. \A i \in S : ~ Outranks(terms, i, i)
    BY <1>2 DEF Outranks
  <1>4. \A i, j \in S : i # j => Outranks(terms, i, j) \/ Outranks(terms, j, i)
    BY <1>2 DEF Outranks
  <1>5. ASSUME NEW i \in S, NEW j \in S, NEW h \in S,
               Outranks(terms, i, j), Outranks(terms, j, h)
        PROVE  Outranks(terms, i, h)
    BY <1>2, <1>5 DEF Outranks
  <1>6. QED
    BY <1>1, <1>3, <1>4, <1>5 DEF StrictOrder, R

(***************************************************************************)
(* What the results of a query are.                                        *)
(***************************************************************************)
\* The best k of S, each once and in order, and all of S if there are not more.
LEMMA BestFacts ==
    ASSUME TextInv, NEW terms, NEW S \in SUBSET DOMAIN corpus, NEW k \in Nat,
           NEW hits, hits = Best(terms, S, k)
    PROVE  /\ IsFiniteSet(S)
           /\ Len(hits) = Least2(k, Cardinality(S)) /\ DOMAIN hits = 1..Least2(k, Cardinality(S))
           /\ \A p \in DOMAIN hits : hits[p] \in S
           /\ \A p, q \in DOMAIN hits : p < q => Outranks(terms, hits[p], hits[q])
           /\ \A i \in S : \/ \E p \in DOMAIN hits : i = hits[p]
                           \/ \A p \in DOMAIN hits : Outranks(terms, hits[p], i)
PROOF
  <1> DEFINE R == Order(terms, S)
  <1> DEFINE n == Least2(k, Cardinality(S))
  <1>1. IsFiniteSet(S)
    BY Views, CorpusFacts, FS_Subset
  <1>2. StrictOrder(R, S) /\ \A i, j \in S : <<i, j>> \in R <=> Outranks(terms, i, j)
    BY OutranksOrders
  <1> HIDE DEF R
  <1>3. n = Shorter(k, Cardinality(S))
    BY DEF Least2, Shorter
  <1>4. \A i \in S : Rank(R, S, i) = Cardinality({j \in S : Outranks(terms, j, i)})
    <2> SUFFICES ASSUME NEW i \in S
                 PROVE  Rank(R, S, i) = Cardinality({j \in S : Outranks(terms, j, i)})
      OBVIOUS
    <2>1. Ahead(R, S, i) = {j \in S : Outranks(terms, j, i)}
      BY <1>2 DEF Ahead
    <2>2. QED
      BY <2>1 DEF Rank
  <1>5. hits = [p \in 1..n |-> CHOOSE i \in S :
                    Cardinality({j \in S : Outranks(terms, j, i)}) = p - 1]
    BY DEF Best
  <1> HIDE DEF n
  <1>6. ASSUME NEW p \in 1..n, \E i \in S : Rank(R, S, i) = p - 1
        PROVE  hits[p] \in S /\ Rank(R, S, hits[p]) = p - 1
    <2> DEFINE Here(i) == Cardinality({j \in S : Outranks(terms, j, i)}) = p - 1
    <2>1. hits[p] = CHOOSE i \in S : Here(i)
      BY <1>5
    <2>2. \E i \in S : Here(i)
      BY <1>4, <1>6
    <2>3. \A i \in S : Here(i) <=> Rank(R, S, i) = p - 1
      BY <1>4
    <2> HIDE DEF Here
    <2>4. hits[p] \in S /\ Here(hits[p])
      BY <2>1, <2>2
    <2>5. QED
      BY <2>3, <2>4
  <1>7. hits = [p \in 1..n |-> hits[p]]
    BY <1>5
  <1>8. ListsByRank(R, S, n, hits)
    BY <1>6, <1>7 DEF ListsByRank
  <1>9. /\ Len(hits) = n /\ DOMAIN hits = 1..n
        /\ \A p \in 1..n : hits[p] \in S
        /\ \A p, q \in 1..n : p < q => <<hits[p], hits[q]>> \in R
        /\ \A i \in S : \/ \E p \in 1..n : i = hits[p]
                        \/ \A p \in 1..n : <<hits[p], i>> \in R
    BY <1>1, <1>2, <1>3, <1>8, RankedFacts
  <1>10. QED
    BY <1>1, <1>2, <1>9 DEF n

LEMMA TextInvMatches == TextInv => MatchesAreExact
PROOF
  <1> SUFFICES ASSUME TextInv PROVE MatchesAreExact
    OBVIOUS
  <1> DEFINE hits == matches.hits
  <1> DEFINE found == {hits[p] : p \in DOMAIN hits}
  <1> DEFINE terms == tokenize(matches.query)
  <1> DEFINE matching == {id \in DOMAIN corpus : tokenize(corpus[id]) \cap terms # {}}
  <1> DEFINE Exact ==
        /\ found \subseteq matching
        /\ Len(hits) = Least2(matches.k, Cardinality(matching))
        /\ found # {} => total_document_terms > 0
        /\ \A p, q \in DOMAIN hits : p < q => Outranks(terms, hits[p], hits[q])
        /\ \A id \in matching \ found, p \in DOMAIN hits : Outranks(terms, hits[p], id)
  <1>1. /\ matches.k \in Nat /\ DOMAIN documents = DOMAIN corpus
        /\ hits = IF matches.k = 0 \/ DOMAIN corpus = {} THEN <<>>
                  ELSE RankedDocuments(terms, matches.k)
    BY Views DEF TextInv, MatchesOK
  <1>2. matching \in SUBSET DOMAIN corpus /\ IsFiniteSet(matching)
    <2>1. IsFiniteSet(DOMAIN corpus) /\ matching \in SUBSET DOMAIN corpus
      BY Views, CorpusFacts
    <2> HIDE DEF matching
    <2>2. QED
      BY <2>1, FS_Subset
  <1>3. Scored(terms) = matching
    <2>1. \A id \in DOMAIN corpus : Matching(terms, id) = terms \cap tokenize(corpus[id])
      BY MatchingFacts
    <2>2. QED
      BY <1>1, <2>1 DEF Scored
  <1>4. \A id \in matching : total_document_terms > 0
    BY LengthsPositive
  <1>5. CASE matches.k = 0 \/ DOMAIN corpus = {}
    <2>1. hits = <<>>
      BY <1>1, <1>5
    <2>2. DOMAIN hits = {} /\ Len(hits) = 0 /\ found = {}
      BY <2>1
    <2>3. Least2(matches.k, Cardinality(matching)) = 0
      <3>1. CASE matches.k = 0
        <4>1. Cardinality(matching) \in Nat
          BY <1>2, FS_CardinalityType
        <4>2. QED
          BY <3>1, <4>1 DEF Least2
      <3>2. CASE DOMAIN corpus = {}
        <4>1. matching = {}
          BY <3>2
        <4>2. Cardinality(matching) = 0
          BY <4>1, FS_EmptySet
        <4> HIDE DEF matching
        <4>3. QED
          BY <1>1, <4>2 DEF Least2
      <3>3. QED
        BY <1>5, <3>1, <3>2
    <2> HIDE DEF hits, found, terms, matching
    <2>4. Exact
      BY <2>2, <2>3
    <2>5. QED
      BY <2>4 DEF MatchesAreExact, hits, found, terms, matching
  <1>6. CASE ~ (matches.k = 0 \/ DOMAIN corpus = {})
    <2>1. hits = Best(terms, matching, matches.k)
      BY <1>1, <1>3, <1>6 DEF RankedDocuments
    <2> HIDE DEF hits, terms, matching
    <2>2. /\ Len(hits) = Least2(matches.k, Cardinality(matching))
          /\ \A p \in DOMAIN hits : hits[p] \in matching
          /\ \A p, q \in DOMAIN hits : p < q => Outranks(terms, hits[p], hits[q])
          /\ \A i \in matching : \/ \E p \in DOMAIN hits : i = hits[p]
                                 \/ \A p \in DOMAIN hits : Outranks(terms, hits[p], i)
      BY <1>1, <1>2, <2>1, BestFacts
    <2>3. Exact
      BY <1>4, <2>2
    <2>4. QED
      BY <2>3 DEF MatchesAreExact, hits, terms, matching
  <1>7. QED
    BY <1>5, <1>6

(***************************************************************************)
(* Whatever was inserted, replaced and removed, the text index is the one  *)
(* its documents make, the decoder of its own snapshot accepts it, and a   *)
(* query returns exactly the best of the documents that have one of its    *)
(* tokens (Bm25Index::try_from, query).                                    *)
(***************************************************************************)
THEOREM TextIndexKept == TextSpec => []TextIndexIsItsDocuments
PROOF
  <1>1. TextInv => TextIndexIsItsDocuments
    BY TextInvTypeOK, TextInvReopens, TextInvMatches
       DEF TextIndexIsItsDocuments, HistoryIndependent, TextInv
  <1>2. QED
    BY <1>1, TextInvariance, PTL

(***************************************************************************)
(* The fusion of rankings.  Rounding first: Nearest and Round are monotone *)
(* and Round rounds what it has rounded no further.                        *)
(***************************************************************************)

\* The nearest is the quotient or the next.
LEMMA NearestType ==
    ASSUME NEW n \in Nat, NEW d \in Nat, d > 0
    PROVE  /\ Nearest(n, d) \in Nat
           /\ n \div d <= Nearest(n, d) /\ Nearest(n, d) <= (n \div d) + 1
PROOF
  BY DivMod DEF Nearest

\* More over less is not less.
LEMMA NearestOrder ==
    ASSUME NEW n \in Nat, NEW m \in Nat, NEW d \in Nat, NEW c \in Nat,
           n <= m, c <= d, c > 0
    PROVE  Nearest(n, d) <= Nearest(m, c)
PROOF
  <1> DEFINE q == n \div d
  <1> DEFINE u == m \div c
  <1> DEFINE r == n % d
  <1> DEFINE w == m % c
  <1>1. /\ q \in Nat /\ r \in Nat /\ n = d * q + r
        /\ u \in Nat /\ w \in Nat /\ m = c * u + w
        /\ q <= u
    BY DivMod, QuotientOrder
  <1>2. /\ Nearest(n, d) = IF 2 * r > d \/ (2 * r = d /\ q % 2 = 1) THEN q + 1 ELSE q
        /\ Nearest(m, c) = IF 2 * w > c \/ (2 * w = c /\ u % 2 = 1) THEN u + 1 ELSE u
    BY DEF Nearest
  <1> HIDE DEF q, u, r, w
  <1>3. CASE q < u
    BY <1>1, <1>2, <1>3
  <1>4. CASE q = u
    <2>1. q * c <= q * d /\ q * c \in Nat /\ q * d \in Nat
      BY <1>1, TimesOrder
    <2>2. c * u = q * c /\ d * q = q * d
      BY <1>1, <1>4
    <2>3. r <= w
      BY <1>1, <2>1, <2>2
    <2>4. QED
      BY <1>1, <1>2, <1>4, <2>3
  <1>5. QED
    BY <1>1, <1>3, <1>4

\* A multiple is divided exactly.
LEMMA NearestExact ==
    ASSUME NEW c \in Nat, NEW d \in Nat, d > 0
    PROVE  Nearest(c * d, d) = c
PROOF
  <1> DEFINE n == c * d
  <1> DEFINE q == n \div d
  <1> DEFINE r == n % d
  <1>1. n \in Nat
    OBVIOUS
  <1>2. q \in Nat /\ r \in Nat /\ r < d /\ n = d * q + r
    BY <1>1, DivMod
  <1>3. n = d * c
    OBVIOUS
  <1>4. Nearest(n, d) = IF 2 * r > d \/ (2 * r = d /\ q % 2 = 1) THEN q + 1 ELSE q
    BY DEF Nearest
  <1> HIDE DEF n, q, r
  <1>5. q = c
    <2>1. CASE q < c
      <3>1. d * (q + 1) <= d * c /\ d * (q + 1) = d * q + d /\ d * q \in Nat /\ d * c \in Nat
        BY <1>2, <2>1, TimesOrder
      <3>2. QED
        BY <1>2, <1>3, <3>1
    <2>2. CASE q > c
      <3>1. d * (c + 1) <= d * q /\ d * (c + 1) = d * c + d /\ d * q \in Nat /\ d * c \in Nat
        BY <1>2, <2>2, TimesOrder
      <3>2. QED
        BY <1>2, <1>3, <3>1
    <2>3. QED
      BY <1>2, <2>1, <2>2
  <1>6. r = 0
    BY <1>2, <1>3, <1>5
  <1>7. QED
    BY <1>4, <1>5, <1>6 DEF n


(***************************************************************************)
(* Round.                                                                  *)
(***************************************************************************)
\* A quotient that some exponent leaves p bits.
InRange(n, d, p) ==
    /\ n \in Nat /\ d \in Nat /\ d > 0 /\ p \in Nat /\ p > 0
    /\ n < d * 2^(MaxExponent + p)

\* The least exponent with bits enough is the one.
LEMMA ExponentFits ==
    ASSUME NEW n, NEW d, NEW p, InRange(n, d, p)
    PROVE  Exponent(n, d, p) \in 0..MaxExponent /\ FitsAt(n, d, p, Exponent(n, d, p))
PROOF
  <1>1. n \in Nat /\ d \in Nat /\ d > 0 /\ p \in Nat /\ p > 0 /\ MaxExponent \in Nat
    BY FusionAssumption DEF InRange
  <1> DEFINE S == {x \in Nat : n < d * 2^(x + p)}
  <1>2. MaxExponent \in S /\ S \in SUBSET Nat
    BY <1>1 DEF InRange
  <1> HIDE DEF S
  <1>3. PICK e \in S : \A y \in S : e <= y
    BY <1>2, LeastNatural
  <1>4. e \in Nat /\ e <= MaxExponent /\ n < d * 2^(e + p)
    BY <1>2, <1>3 DEF S
  <1>5. ASSUME e > 0 PROVE n >= d * 2^(e + p - 1)
    <2> DEFINE y == e - 1
    <2>1. y \in Nat /\ ~ (e <= y) /\ y + p = e + p - 1
      BY <1>1, <1>4, <1>5
    <2> HIDE DEF y
    <2>2. y \notin S
      BY <1>3, <2>1
    <2> DEFINE u == 2^(y + p)
    <2>3. ~ (n < d * u)
      BY <2>1, <2>2 DEF S
    <2>4. u \in Nat
      BY <1>1, <2>1, PowerType
    <2>5. u = 2^(e + p - 1)
      BY <2>1
    <2> HIDE DEF u
    <2>6. d * u \in Nat
      BY <1>1, <2>4
    <2>7. n >= d * u
      BY <1>1, <2>3, <2>6
    <2>8. QED
      BY <2>5, <2>7
  <1>6. e \in 0..MaxExponent /\ FitsAt(n, d, p, e)
    BY <1>1, <1>4, <1>5 DEF FitsAt
  <1>7. QED
    BY <1>6 DEF Exponent

\* What fits at an exponent, nearest to it, has at most p bits, and no fewer above the
\* least exponent.
LEMMA NearestBits ==
    ASSUME NEW n \in Nat, NEW d \in Nat, d > 0, NEW p \in Nat, p > 0,
           NEW e \in Nat, FitsAt(n, d, p, e)
    PROVE  /\ Nearest(n, d * 2^e) \in Nat /\ Nearest(n, d * 2^e) <= 2^p
           /\ e > 0 => Nearest(n, d * 2^e) >= 2^(p - 1)
PROOF
  <1> DEFINE T == 2^e
  <1> DEFINE P == 2^p
  <1> DEFINE H == 2^(p - 1)
  <1> DEFINE D == d * T
  <1>1. T \in Nat /\ T >= 1 /\ P \in Nat /\ H \in Nat
    BY PowerType
  <1>2. 2^(e + p) = T * P
    BY PowerOfSum
  <1>3. 2^(e + p - 1) = T * H
    <2>1. e + p - 1 = e + (p - 1) /\ p - 1 \in Nat
      OBVIOUS
    <2>2. QED
      BY <2>1, PowerOfSum
  <1>4. n < d * (T * P) /\ (e > 0 => n >= d * (T * H))
    BY <1>2, <1>3 DEF FitsAt
  <1> HIDE DEF T, P, H
  <1>5. D \in Nat /\ D > 0 /\ d * (T * P) = P * D /\ d * (T * H) = H * D
    BY <1>1
  <1> HIDE DEF D
  <1>6. P * D \in Nat /\ H * D \in Nat
    BY <1>1, <1>5
  <1>7. Nearest(P * D, D) = P /\ Nearest(H * D, D) = H
    BY <1>1, <1>5, NearestExact
  <1>8. Nearest(n, D) \in Nat
    BY <1>5, NearestType
  <1>9. Nearest(n, D) <= P
    <2>1. n <= P * D
      BY <1>4, <1>5, <1>6
    <2>2. Nearest(n, D) <= Nearest(P * D, D)
      BY <1>5, <1>6, <2>1, NearestOrder
    <2>3. QED
      BY <1>7, <2>2
  <1>10. ASSUME e > 0 PROVE Nearest(n, D) >= H
    <2>1. H * D <= n
      BY <1>4, <1>5, <1>6, <1>10
    <2>2. Nearest(H * D, D) <= Nearest(n, D)
      BY <1>5, <1>6, <2>1, NearestOrder
    <2>3. QED
      BY <1>1, <1>7, <1>8, <2>2
  <1>11. QED
    BY <1>8, <1>9, <1>10 DEF T, P, H, D

\* The exponent of more over less is not less.
LEMMA ExponentOrder ==
    ASSUME NEW n \in Nat, NEW d \in Nat, d > 0, NEW m \in Nat, NEW c \in Nat, c > 0,
           NEW p \in Nat, p > 0, NEW e \in Nat, NEW f \in Nat,
           FitsAt(n, d, p, e), FitsAt(m, c, p, f), n <= m, c <= d
    PROVE  e <= f
PROOF
  <1>1. SUFFICES ASSUME f < e PROVE FALSE
    OBVIOUS
  <1> DEFINE a == f + p
  <1> DEFINE b == e + p - 1
  <1> DEFINE A == 2^a
  <1> DEFINE B == 2^b
  <1>2. a \in Nat /\ b \in Nat /\ (a = b \/ a < b)
    BY <1>1
  <1>3. m < c * A /\ n >= d * B
    BY <1>1 DEF FitsAt
  <1> HIDE DEF a, b
  <1>4. A \in Nat /\ B \in Nat
    BY <1>2, PowerType
  <1>5. a < b => B >= 2 * A
    BY <1>2, PowerOrder
  <1>6. a = b => B = A
    OBVIOUS
  <1> HIDE DEF A, B
  <1>7. A <= B
    BY <1>2, <1>4, <1>5, <1>6
  <1>8. c * A <= d * B /\ c * A \in Nat /\ d * B \in Nat
    BY <1>4, <1>7, TimesOrder
  <1>9. QED
    BY <1>3, <1>8

\* Rounded, more over less is not less.
LEMMA RoundOrder ==
    ASSUME NEW n, NEW d, NEW m, NEW c, NEW p, InRange(n, d, p), InRange(m, c, p),
           n <= m, c <= d
    PROVE  Round(n, d, p) \in Nat /\ Round(m, c, p) \in Nat /\ Round(n, d, p) <= Round(m, c, p)
PROOF
  <1> DEFINE e == Exponent(n, d, p)
  <1> DEFINE f == Exponent(m, c, p)
  <1>1. /\ n \in Nat /\ d \in Nat /\ d > 0 /\ m \in Nat /\ c \in Nat /\ c > 0
        /\ p \in Nat /\ p > 0 /\ MaxExponent \in Nat
    BY FusionAssumption DEF InRange
  <1>2. e \in Nat /\ f \in Nat /\ FitsAt(n, d, p, e) /\ FitsAt(m, c, p, f)
    BY <1>1, ExponentFits
  <1>3. Round(n, d, p) = Nearest(n, d * 2^e) * 2^e /\ Round(m, c, p) = Nearest(m, c * 2^f) * 2^f
    BY DEF Round
  <1> HIDE DEF e, f
  <1> DEFINE T == 2^e
  <1> DEFINE U == 2^f
  <1> DEFINE N == Nearest(n, d * T)
  <1> DEFINE M == Nearest(m, c * U)
  <1> DEFINE P == 2^p
  <1> DEFINE H == 2^(p - 1)
  <1>4. /\ T \in Nat /\ T >= 1 /\ U \in Nat /\ U >= 1 /\ P \in Nat /\ H \in Nat
    BY <1>1, <1>2, PowerType
  <1>5. P = 2 * H
    <2>1. p - 1 \in Nat /\ p = (p - 1) + 1
      BY <1>1
    <2>2. QED
      BY <2>1, PowerDoubles
  <1>6. N \in Nat /\ N <= P /\ M \in Nat /\ (f > 0 => M >= H)
    BY <1>1, <1>2, NearestBits
  <1>7. e < f => U >= 2 * T
    BY <1>2, PowerOrder
  <1>8. e <= f
    BY <1>1, <1>2, ExponentOrder
  <1>9. CASE e = f
    <2>1. T = U
      BY <1>9
    <2> HIDE DEF T, U
    <2>2. c * U <= d * T /\ c * U \in Nat /\ d * T \in Nat /\ c * U > 0
      BY <1>1, <1>4, <2>1, TimesOrder
    <2>3. N <= M
      BY <1>1, <2>2, NearestOrder
    <2> HIDE DEF N, M
    <2>4. N * T <= M * U /\ N * T \in Nat /\ M * U \in Nat
      BY <1>4, <1>6, <2>1, <2>3, TimesOrder
    <2>5. QED
      BY <1>3, <2>4 DEF N, M, T, U
  <1>10. CASE e < f
    <2> HIDE DEF N, M, T, U, P, H
    <2>1. N * T <= P * T /\ P * T \in Nat /\ N * T \in Nat
      BY <1>4, <1>6, TimesOrder
    <2>2. P * T = H * (2 * T)
      BY <1>4, <1>5
    <2>3. H * (2 * T) <= M * U /\ M * U \in Nat
      BY <1>2, <1>4, <1>6, <1>7, <1>10, TimesOrder
    <2>4. N * T <= M * U
      BY <2>1, <2>2, <2>3
    <2>5. QED
      BY <1>3, <2>1, <2>3, <2>4 DEF N, M, T, U
  <1>11. QED
    BY <1>2, <1>8, <1>9, <1>10


\* Nothing is below zero but zero, and a whole is one.
LEMMA RoundWhole ==
    ASSUME NEW n, NEW d, NEW p, InRange(n, d, p)
    PROVE  Round(n, d, p) \in Nat /\ (n >= d => Round(n, d, p) >= 1)
PROOF
  <1> DEFINE e == Exponent(n, d, p)
  <1>1. n \in Nat /\ d \in Nat /\ d > 0 /\ p \in Nat /\ p > 0 /\ MaxExponent \in Nat
    BY FusionAssumption DEF InRange
  <1>2. e \in Nat /\ FitsAt(n, d, p, e) /\ Round(n, d, p) = Nearest(n, d * 2^e) * 2^e
    BY <1>1, ExponentFits DEF Round
  <1> HIDE DEF e
  <1> DEFINE T == 2^e
  <1> DEFINE N == Nearest(n, d * T)
  <1> DEFINE H == 2^(p - 1)
  <1>3. T \in Nat /\ T >= 1 /\ H \in Nat /\ H >= 1
    BY <1>1, <1>2, PowerType
  <1>4. N \in Nat /\ (e > 0 => N >= H)
    BY <1>1, <1>2, NearestBits
  <1>5. ASSUME n >= d, e = 0 PROVE N >= 1
    <2>1. d * T = d
      <3>1. 2^0 = 1
        OBVIOUS
      <3>2. QED
        BY <1>1, <1>5, <3>1
    <2>2. Nearest(1 * d, d) = 1
      BY <1>1, NearestExact
    <2>3. Nearest(d, d) <= Nearest(n, d)
      BY <1>1, <1>5, NearestOrder
    <2>4. 1 * d = d
      BY <1>1
    <2>5. QED
      BY <2>1, <2>2, <2>3, <2>4
  <1> HIDE DEF N, H, T
  <1>6. n >= d => N >= 1
    BY <1>2, <1>3, <1>4, <1>5
  <1>7. N * T \in Nat /\ (N >= 1 => 1 * 1 <= N * T)
    BY <1>3, <1>4, TimesOrder
  <1>8. QED
    BY <1>2, <1>6, <1>7 DEF N, T

\* What is rounded is rounded no further.
LEMMA RoundAgain ==
    ASSUME NEW n, NEW d, NEW p, InRange(n, d, p), InRange(Round(n, d, p), 1, p)
    PROVE  Round(Round(n, d, p), 1, p) = Round(n, d, p)
PROOF
  <1> DEFINE e == Exponent(n, d, p)
  <1> DEFINE T == 2^e
  <1> DEFINE N == Nearest(n, d * T)
  <1> DEFINE P == 2^p
  <1> DEFINE H == 2^(p - 1)
  <1> DEFINE v == Round(n, d, p)
  <1> DEFINE f == Exponent(v, 1, p)
  <1>1. n \in Nat /\ d \in Nat /\ d > 0 /\ p \in Nat /\ p > 0 /\ MaxExponent \in Nat
    BY FusionAssumption DEF InRange
  <1>2. e \in Nat /\ FitsAt(n, d, p, e) /\ v = N * T
    BY <1>1, ExponentFits DEF Round
  <1>3. f \in Nat /\ FitsAt(v, 1, p, f) /\ v \in Nat
    BY <1>1, ExponentFits DEF InRange
  <1>4. Round(v, 1, p) = Nearest(v, 1 * 2^f) * 2^f
    BY DEF Round
  <1> HIDE DEF e, f, v
  <1>5. T \in Nat /\ T >= 1 /\ P \in Nat /\ H \in Nat
    BY <1>1, <1>2, PowerType
  <1>6. N \in Nat /\ N <= P /\ (e > 0 => N >= H)
    BY <1>1, <1>2, NearestBits
  <1>7. P = 2 * H
    <2>1. p - 1 \in Nat /\ p = (p - 1) + 1
      BY <1>1
    <2>2. QED
      BY <2>1, PowerDoubles
  <1>8. 2^(e + p) = T * P
    BY <1>1, <1>2, PowerOfSum
  <1>9. 2^(e + p - 1) = T * H
    <2>1. e + p - 1 = e + (p - 1) /\ p - 1 \in Nat
      BY <1>1, <1>2
    <2>2. QED
      BY <1>2, <2>1, PowerOfSum
  <1>10. 2^(e + 1) = 2 * T
    BY <1>2, PowerDoubles
  <1> DEFINE c == IF N < P THEN N ELSE H
  <1> DEFINE g == IF N < P THEN e ELSE e + 1
  <1> DEFINE G == 2^g
  <1>11. g \in Nat /\ c \in Nat /\ c * G = v /\ FitsAt(v, 1, p, g) /\ G \in Nat /\ G > 0
    <2>1. CASE N < P
      <3>1. g = e /\ c = N /\ G = T
        BY <2>1
      <3> HIDE DEF T, N, P, H, c, G, g
      <3>2. (N + 1) * T <= P * T /\ (N + 1) * T = N * T + T /\ P * T = T * P /\ N * T \in Nat
            /\ T * P \in Nat
        BY <1>5, <1>6, <2>1, TimesOrder
      <3>3. v < 1 * 2^(e + p)
        BY <1>2, <1>5, <1>8, <3>2
      <3>4. e > 0 => H * T <= N * T /\ H * T = T * H /\ T * H \in Nat
        BY <1>5, <1>6, TimesOrder
      <3>5. e > 0 => v >= 1 * 2^(e + p - 1)
        BY <1>2, <1>9, <3>2, <3>4
      <3>6. FitsAt(v, 1, p, e)
        BY <3>3, <3>5 DEF FitsAt
      <3>7. QED
        BY <1>2, <1>5, <1>6, <3>1, <3>6
    <2>2. CASE ~ (N < P)
      <3>1. g = e + 1 /\ c = H /\ G = 2 * T /\ N = P
        BY <1>5, <1>6, <1>10, <2>2
      <3>2. v = T * P
        <4> HIDE DEF T, N, P
        <4>1. QED
          BY <1>2, <1>5, <3>1
      <3>3. e + 1 + p = (e + p) + 1 /\ e + 1 + p - 1 = e + p /\ e + p \in Nat
        BY <1>1, <1>2
      <3>4. 2^(e + 1 + p) = 2 * (T * P)
        BY <1>8, <3>3, PowerDoubles
      <3>5. 2^(e + 1 + p - 1) = T * P
        BY <1>8, <3>3
      <3>6. P >= 1
        BY <1>1, PowerType
      <3> HIDE DEF T, N, P, H, c, G
      <3>7. T * P \in Nat /\ 1 * 1 <= T * P
        BY <1>5, <3>6, TimesOrder
      <3>8. FitsAt(v, 1, p, e + 1)
        BY <3>2, <3>4, <3>5, <3>7 DEF FitsAt
      <3>9. c * G = T * P
        BY <1>5, <1>7, <3>1
      <3>10. QED
        BY <1>2, <1>5, <3>1, <3>2, <3>8, <3>9
    <2>3. QED
      BY <2>1, <2>2
  <1> HIDE DEF T, N, P, H, c, g
  <1>12. f = g
    <2>1. f <= g /\ g <= f
      BY <1>1, <1>3, <1>11, ExponentOrder
    <2>2. QED
      BY <1>3, <1>11, <2>1
  <1>13. Nearest(v, G) = c
    <2> HIDE DEF G
    <2>1. Nearest(c * G, G) = c
      BY <1>11, NearestExact
    <2>2. QED
      BY <1>11, <2>1
  <1>14. 1 * G = G
    <2> HIDE DEF G
    <2>1. QED
      BY <1>11
  <1>15. Round(v, 1, p) = v
    BY <1>4, <1>11, <1>12, <1>13, <1>14
  <1>16. QED
    BY <1>15 DEF v


\* Zero is zero.
LEMMA RoundZero ==
    ASSUME NEW p, InRange(0, 1, p)
    PROVE  Round(0, 1, p) = 0
PROOF
  <1> DEFINE e == Exponent(0, 1, p)
  <1> DEFINE T == 2^e
  <1>1. e \in Nat /\ MaxExponent \in Nat
    BY ExponentFits, FusionAssumption
  <1>2. Round(0, 1, p) = Nearest(0, 1 * T) * T
    BY DEF Round
  <1> HIDE DEF e
  <1>3. T \in Nat /\ T >= 1
    BY <1>1, PowerType
  <1> HIDE DEF T
  <1>4. 1 * T = T /\ 0 * T = 0
    BY <1>3
  <1>5. Nearest(0 * T, T) = 0
    BY <1>3, NearestExact
  <1>6. QED
    BY <1>2, <1>4, <1>5

\* What is below the limit is in range of scores and of public scores.
LEMMA BelowLimit ==
    ASSUME NEW n \in Nat, n < Limit, NEW d \in Nat, d > 0
    PROVE  InRange(n, d, Precision) /\ InRange(n, d, PublicPrecision)
PROOF
  <1> DEFINE a == MaxExponent + PublicPrecision
  <1> DEFINE b == MaxExponent + Precision
  <1> DEFINE A == 2^a
  <1> DEFINE B == 2^b
  <1>1. /\ Precision \in Nat /\ Precision > 0 /\ PublicPrecision \in Nat /\ PublicPrecision > 0
        /\ a \in Nat /\ b \in Nat /\ (a = b \/ a < b) /\ n < A
    BY FusionAssumption DEF Limit
  <1>2. InRange(n, d, Precision) <=> n < d * B
    BY <1>1 DEF InRange
  <1>3. InRange(n, d, PublicPrecision) <=> n < d * A
    BY <1>1 DEF InRange
  <1> HIDE DEF a, b
  <1>4. A \in Nat /\ B \in Nat
    BY <1>1, PowerType
  <1>5. a < b => B >= 2 * A
    BY <1>1, PowerOrder
  <1>6. a = b => A = B
    OBVIOUS
  <1> HIDE DEF A, B
  <1>7. A <= B
    BY <1>1, <1>4, <1>5, <1>6
  <1>8. 1 * A <= d * A /\ 1 * A <= d * B /\ d * A \in Nat /\ d * B \in Nat
    BY <1>4, <1>7, TimesOrder
  <1>9. QED
    BY <1>1, <1>2, <1>3, <1>4, <1>8

(***************************************************************************)
(* Terms.                                                                  *)
(***************************************************************************)
\* A number that a score may be.
Rounded(a) == a \in Nat /\ a < Limit /\ Round(a, 1, Precision) = a

LEMMA AddOrder ==
    ASSUME NEW a \in Nat, NEW b \in Nat, NEW c \in Nat, NEW d \in Nat,
           a <= c, b <= d, c + d < Limit
    PROVE  Add(a, b) \in Nat /\ Add(c, d) \in Nat /\ Add(a, b) <= Add(c, d)
PROOF
  <1> DEFINE n == a + b
  <1> DEFINE m == c + d
  <1>1. n \in Nat /\ m \in Nat /\ n <= m /\ m < Limit /\ Limit \in Int
    <2>1. Limit \in Nat
      BY FusionAssumption, PowerType DEF Limit
    <2>2. QED
      BY <2>1
  <1> HIDE DEF n, m
  <1>2. n < Limit
    BY <1>1
  <1>3. InRange(n, 1, Precision) /\ InRange(m, 1, Precision)
    BY <1>1, <1>2, BelowLimit
  <1>4. Round(n, 1, Precision) \in Nat /\ Round(m, 1, Precision) \in Nat
        /\ Round(n, 1, Precision) <= Round(m, 1, Precision)
    BY <1>1, <1>3, RoundOrder
  <1>5. QED
    BY <1>4 DEF Add, n, m

\* A sum is not below what it adds to, and a sum below the limit may be a score.
LEMMA AddGrows ==
    ASSUME NEW a, Rounded(a), NEW b \in Nat, a + b < Limit
    PROVE  /\ Add(a, b) \in Nat /\ Add(a, b) >= a
           /\ b >= 1 => Add(a, b) >= 1
           /\ Add(a, b) < Limit => Rounded(Add(a, b))
PROOF
  <1> DEFINE m == a + b
  <1>0. Limit \in Nat
    BY FusionAssumption, PowerType DEF Limit
  <1>1. a \in Nat /\ a < Limit /\ m \in Nat /\ a <= m /\ m < Limit /\ (b >= 1 => m >= 1)
    BY DEF Rounded
  <1>2. Add(a, b) = Round(m, 1, Precision)
    BY DEF Add
  <1> HIDE DEF m
  <1>3. InRange(m, 1, Precision) /\ InRange(a, 1, Precision)
    BY <1>1, BelowLimit
  <1>4. Round(m, 1, Precision) \in Nat /\ Round(a, 1, Precision) <= Round(m, 1, Precision)
    BY <1>1, <1>3, RoundOrder
  <1>5. m >= 1 => Round(m, 1, Precision) >= 1
    BY <1>3, RoundWhole
  <1>6. ASSUME Round(m, 1, Precision) < Limit PROVE Rounded(Round(m, 1, Precision))
    <2>1. InRange(Round(m, 1, Precision), 1, Precision)
      BY <1>4, <1>6, BelowLimit
    <2>2. QED
      BY <1>3, <1>4, <1>6, <2>1, RoundAgain DEF Rounded
  <1>7. QED
    BY <1>1, <1>2, <1>4, <1>5, <1>6 DEF Rounded

LEMMA PlaceFits ==
    ASSUME NEW k \in KConstants, k > 0, NEW p \in Places
    PROVE  /\ k \in Nat /\ p \in Nat /\ p >= 1 /\ One \in Nat
           /\ k + One * p \in Nat /\ k + One * p >= 1 /\ k + One * p < Limit
           /\ Dampened(k, p) <= Unit
PROOF
  <1>1. p \in Nat /\ p >= 1
    <2>1. CASE p = 1
      BY <2>1
    <2>2. CASE p # 1
      <3>1. PICK ranking \in Rankings : p \in DOMAIN ranking
        BY <2>2 DEF Places
      <3>2. p \in 1..Len(ranking) /\ Len(ranking) \in Nat
        BY <3>1, FusionAssumption
      <3>3. QED
        BY <3>2
    <2>3. QED
      BY <2>1, <2>2
  <1>2. k \in Nat /\ One \in Nat
    BY FusionAssumption
  <1>3. k + One * p < Limit /\ Dampened(k, p) <= Unit
    BY FusionAssumption
  <1>4. One * p \in Nat
    BY <1>1, <1>2
  <1>5. QED
    BY <1>1, <1>2, <1>3, <1>4

\* A later place gains less, and no place nothing.
LEMMA ReciprocalOrder ==
    ASSUME NEW k \in KConstants, k > 0, NEW p \in Places, NEW q \in Places, p <= q
    PROVE  /\ Reciprocal(k, p) \in Nat /\ Reciprocal(k, q) \in Nat
           /\ Reciprocal(k, q) >= 1 /\ Reciprocal(k, q) <= Reciprocal(k, p)
PROOF
  <1> DEFINE m == k + One * p
  <1> DEFINE n == k + One * q
  <1> DEFINE M == Dampened(k, p)
  <1> DEFINE N == Dampened(k, q)
  <1>1. /\ m \in Nat /\ n \in Nat /\ m >= 1 /\ n >= 1
        /\ m < Limit /\ n < Limit /\ M <= Unit /\ N <= Unit
    BY PlaceFits
  <1>2. m <= n
    <2>1. k \in Nat /\ One \in Nat /\ p \in Nat /\ q \in Nat
      BY PlaceFits
    <2>2. One * p \in Nat /\ One * q \in Nat /\ One * p <= One * q
      BY <2>1, TimesOrder
    <2>3. QED
      BY <2>1, <2>2
  <1>3. /\ M = Round(m, 1, Precision) /\ N = Round(n, 1, Precision)
        /\ Reciprocal(k, p) = Round(Unit, M, Precision)
        /\ Reciprocal(k, q) = Round(Unit, N, Precision)
    BY DEF Reciprocal, Dampened
  <1> HIDE DEF m, n, M, N
  <1>4. InRange(m, 1, Precision) /\ InRange(n, 1, Precision)
    BY <1>1, BelowLimit
  <1>5. M \in Nat /\ N \in Nat /\ M <= N
    BY <1>1, <1>2, <1>3, <1>4, RoundOrder
  <1>6. M >= 1
    BY <1>1, <1>3, <1>4, RoundWhole
  <1>7. Unit \in Nat /\ Unit < Limit
    BY FusionAssumption
  <1>8. N >= 1
    BY <1>5, <1>6
  <1>9. InRange(Unit, M, Precision) /\ InRange(Unit, N, Precision)
    BY <1>5, <1>6, <1>7, <1>8, BelowLimit
  <1>10. Round(Unit, N, Precision) \in Nat /\ Round(Unit, M, Precision) \in Nat
         /\ Round(Unit, N, Precision) <= Round(Unit, M, Precision)
    BY <1>5, <1>7, <1>9, RoundOrder
  <1>11. Round(Unit, N, Precision) >= 1
    BY <1>1, <1>5, <1>7, <1>9, RoundWhole
  <1>12. QED
    BY <1>3, <1>10, <1>11

(***************************************************************************)
(* The greatest sums.                                                      *)
(***************************************************************************)
SumsUpto(g, m, c) == g = [n \in 0..m |-> IF n = 0 THEN 0 ELSE Add(g[n - 1], c)]

LEMMA SumsExist ==
    ASSUME NEW m \in Nat, NEW c
    PROVE  \E g : SumsUpto(g, m, c)
PROOF
  <1> DEFINE S == {n \in Nat : ~ \E g : SumsUpto(g, n, c)}
  <1>1. 0 \notin S
    <2> DEFINE g == [n \in 0..0 |-> 0]
    <2>1. g = [n \in 0..0 |-> IF n = 0 THEN 0 ELSE Add(g[n - 1], c)]
      OBVIOUS
    <2> HIDE DEF g
    <2>2. SumsUpto(g, 0, c)
      BY <2>1 DEF SumsUpto
    <2>3. QED
      BY <2>2
  <1>2. ASSUME NEW n \in Nat, n + 1 \in S PROVE n \in S
    <2>1. SUFFICES ASSUME NEW g, SumsUpto(g, n, c) PROVE FALSE
      OBVIOUS
    <2> DEFINE h == [x \in 0..(n + 1) |-> IF x = n + 1 THEN Add(g[n], c) ELSE g[x]]
    <2>2. g = [x \in 0..n |-> IF x = 0 THEN 0 ELSE Add(g[x - 1], c)]
      BY <2>1 DEF SumsUpto
    <2>3. ASSUME NEW x \in 0..(n + 1) PROVE h[x] = IF x = 0 THEN 0 ELSE Add(h[x - 1], c)
      <3>1. CASE x = n + 1
        <4>1. x # 0 /\ x - 1 = n /\ x - 1 # n + 1 /\ x - 1 \in 0..(n + 1)
          BY <3>1
        <4>2. h[x] = Add(g[n], c) /\ h[x - 1] = g[x - 1]
          BY <3>1, <4>1
        <4>3. QED
          BY <4>1, <4>2
      <3>2. CASE x # n + 1
        <4>1. x \in 0..n /\ h[x] = g[x]
          BY <3>2
        <4>2. CASE x = 0
          BY <2>2, <4>1, <4>2
        <4>3. CASE x # 0
          <5>1. x - 1 \in 0..(n + 1) /\ x - 1 # n + 1
            BY <4>1, <4>3
          <5>2. h[x - 1] = g[x - 1]
            BY <5>1
          <5>3. g[x] = Add(g[x - 1], c)
            BY <2>2, <4>1, <4>3
          <5>4. QED
            BY <4>1, <4>3, <5>2, <5>3
        <4>4. QED
          BY <4>2, <4>3
      <3>3. QED
        BY <3>1, <3>2
    <2>4. h = [x \in 0..(n + 1) |-> h[x]]
      OBVIOUS
    <2> HIDE DEF h
    <2>5. h = [x \in 0..(n + 1) |-> IF x = 0 THEN 0 ELSE Add(h[x - 1], c)]
      BY <2>3, <2>4
    <2>6. SumsUpto(h, n + 1, c)
      BY <2>5 DEF SumsUpto
    <2>7. QED
      BY <1>2, <2>6
  <1> HIDE DEF S
  <1>3. S = {}
    <2>1. S \in SUBSET Nat
      BY DEF S
    <2>2. QED
      BY <1>1, <1>2, <2>1, NoException
  <1>4. QED
    BY <1>3 DEF S

LEMMA GreatestSums ==
    ASSUME NEW k
    PROVE  SumsUpto(Greatest(k), MaxRankings, Reciprocal(k, 1))
PROOF
  <1> DEFINE c == Reciprocal(k, 1)
  <1>1. \E g : SumsUpto(g, MaxRankings, c)
    BY SumsExist, FusionAssumption
  <1>2. Greatest(k) = CHOOSE g : SumsUpto(g, MaxRankings, c)
    BY DEF Greatest, SumsUpto
  <1>3. QED
    BY <1>1, <1>2

\* Each is a score, below the limit with another term, and not below the one before.
LEMMA GreatestGrows ==
    ASSUME NEW k \in KConstants, k > 0
    PROVE  /\ Greatest(k)[0] = 0
           /\ \A n \in 0..MaxRankings :
                Rounded(Greatest(k)[n]) /\ Greatest(k)[n] + Reciprocal(k, 1) < Limit
           /\ \A n \in Nat : n < MaxRankings =>
                /\ Greatest(k)[n + 1] = Add(Greatest(k)[n], Reciprocal(k, 1))
                /\ Greatest(k)[n] <= Greatest(k)[n + 1]
PROOF
  <1> DEFINE c == Reciprocal(k, 1)
  <1> DEFINE g == Greatest(k)
  <1>1. MaxRankings \in Nat /\ \A n \in 0..MaxRankings : g[n] + c < Limit
    BY FusionAssumption
  <1>2. c \in Nat
    <2>1. 1 \in Places
      BY DEF Places
    <2>2. QED
      BY <2>1, ReciprocalOrder
  <1>3. g = [n \in 0..MaxRankings |-> IF n = 0 THEN 0 ELSE Add(g[n - 1], c)]
    BY GreatestSums DEF SumsUpto
  <1>4. Limit \in Nat
    BY FusionAssumption, PowerType DEF Limit
  <1> HIDE DEF g, c
  <1>5. g[0] = 0
    BY <1>1, <1>3
  <1>6. ASSUME NEW n \in Nat, n < MaxRankings PROVE g[n + 1] = Add(g[n], c)
    <2> DEFINE m == n + 1
    <2>1. m \in 0..MaxRankings /\ m # 0 /\ m - 1 = n
      BY <1>1, <1>6
    <2> HIDE DEF m
    <2>2. g[m] = IF m = 0 THEN 0 ELSE Add(g[m - 1], c)
      BY <1>3, <2>1
    <2>3. g[m] = Add(g[n], c)
      BY <2>1, <2>2
    <2>4. QED
      BY <2>3 DEF m
  <1>7. Rounded(0)
    <2>1. 0 < Limit
      BY <1>1, <1>2, <1>4, <1>5
    <2>2. InRange(0, 1, Precision)
      BY <2>1, BelowLimit
    <2>3. QED
      BY <2>1, <2>2, RoundZero DEF Rounded
  <1>8. ASSUME NEW n \in Nat, n < MaxRankings, Rounded(g[n])
        PROVE  Rounded(g[n + 1]) /\ g[n] <= g[n + 1]
    <2>1. g[n] + c < Limit /\ g[n + 1] + c < Limit
      BY <1>1, <1>8
    <2>2. Add(g[n], c) \in Nat /\ Add(g[n], c) >= g[n]
          /\ (Add(g[n], c) < Limit => Rounded(Add(g[n], c)))
      BY <1>2, <1>8, <2>1, AddGrows
    <2>3. g[n + 1] \in Nat /\ g[n + 1] < Limit /\ g[n] \in Nat
      BY <1>2, <1>4, <1>6, <1>8, <2>1, <2>2 DEF Rounded
    <2>4. QED
      BY <1>6, <1>8, <2>2, <2>3
  <1> DEFINE S == {n \in Nat : n <= MaxRankings /\ ~ Rounded(g[n])}
  <1>9. 0 \notin S
    BY <1>5, <1>7
  <1>10. ASSUME NEW n \in Nat, n + 1 \in S PROVE n \in S
    BY <1>1, <1>8, <1>10
  <1> HIDE DEF S
  <1>11. S = {}
    <2>1. S \in SUBSET Nat
      BY DEF S
    <2>2. QED
      BY <1>9, <1>10, <2>1, NoException
  <1>12. \A n \in 0..MaxRankings : Rounded(g[n])
    BY <1>1, <1>11 DEF S
  <1>13. \A n \in Nat : n < MaxRankings => g[n] <= g[n + 1]
    BY <1>1, <1>8, <1>12
  <1>14. QED
    BY <1>1, <1>5, <1>6, <1>12, <1>13 DEF g, c


(***************************************************************************)
(* One more ranking.                                                       *)
(***************************************************************************)
LEMMA FirstPlaceFacts ==
    ASSUME NEW ranking \in Rankings, NEW i \in Listed(ranking)
    PROVE  /\ FirstPlace(ranking, i) \in DOMAIN ranking
           /\ FirstPlace(ranking, i) \in Places
           /\ ranking[FirstPlace(ranking, i)] = i
           /\ \A q \in DOMAIN ranking : ranking[q] = i => FirstPlace(ranking, i) <= q
PROOF
  <1> DEFINE S == {p \in DOMAIN ranking : ranking[p] = i}
  <1>1. Len(ranking) \in Nat /\ DOMAIN ranking = 1..Len(ranking)
    BY FusionAssumption
  <1>2. S \in SUBSET Nat /\ S # {}
    BY <1>1 DEF Listed
  <1> HIDE DEF S
  <1>3. PICK x \in S : \A y \in S : x <= y
    BY <1>2, LeastNatural
  <1>4. x \in DOMAIN ranking /\ ranking[x] = i /\ \A q \in 1..(x - 1) : ranking[q] # i
    <2>1. x \in DOMAIN ranking /\ ranking[x] = i
      BY <1>3 DEF S
    <2>2. ASSUME NEW q \in 1..(x - 1) PROVE ranking[q] # i
      <3>1. q \in DOMAIN ranking /\ ~ (x <= q)
        BY <1>1, <2>1
      <3>2. q \notin S
        BY <1>3, <3>1
      <3>3. QED
        BY <3>1, <3>2 DEF S
    <2>3. QED
      BY <2>1, <2>2
  <1> DEFINE p == FirstPlace(ranking, i)
  <1>5. p \in DOMAIN ranking /\ ranking[p] = i /\ \A q \in 1..(p - 1) : ranking[q] # i
    BY <1>4 DEF FirstPlace
  <1> HIDE DEF p
  <1>6. ASSUME NEW q \in DOMAIN ranking, ranking[q] = i PROVE p <= q
    BY <1>1, <1>5, <1>6
  <1>7. p \in Places
    BY <1>5 DEF Places
  <1>8. QED
    BY <1>5, <1>6, <1>7 DEF p

LEMMA ListedIsFinite ==
    ASSUME NEW ranking \in Rankings
    PROVE  IsFiniteSet(Listed(ranking)) /\ Listed(ranking) \subseteq Identities
PROOF
  <1>1. Len(ranking) \in Nat /\ DOMAIN ranking = 1..Len(ranking)
        /\ \A p \in DOMAIN ranking : ranking[p] \in Identities
    BY FusionAssumption
  <1> DEFINE D == DOMAIN ranking
  <1> DEFINE L == Listed(ranking)
  <1> DEFINE f == [p \in D |-> ranking[p]]
  <1>2. f \in Surjection(D, L)
    BY DEF Surjection, Listed
  <1>3. IsFiniteSet(D)
    BY <1>1, FS_Interval
  <1>4. L \subseteq Identities
    BY <1>1 DEF Listed
  <1> HIDE DEF D, L, f
  <1>5. IsFiniteSet(L)
    BY <1>2, <1>3, FS_Surjection
  <1>6. QED
    BY <1>4, <1>5 DEF L

\* Scores that n rankings may have given.
ScoresFit(s, k, n) ==
    /\ s = [i \in DOMAIN s |-> s[i]]
    /\ DOMAIN s \subseteq Identities /\ IsFiniteSet(DOMAIN s)
    /\ \A i \in DOMAIN s : Rounded(s[i]) /\ s[i] >= 1 /\ s[i] <= Greatest(k)[n]

\* A score, or none, has room for another term.
LEMMA ScoreHasRoom ==
    ASSUME NEW k \in KConstants, k > 0, NEW n \in 0..MaxRankings,
           NEW s, ScoresFit(s, k, n), NEW i
    PROVE  /\ Rounded(ScoreOf(s, i)) /\ ScoreOf(s, i) <= Greatest(k)[n]
           /\ ScoreOf(s, i) + Reciprocal(k, 1) < Limit
PROOF
  <1>1. Limit \in Nat
    BY FusionAssumption, PowerType DEF Limit
  <1>2. 1 \in Places
    BY DEF Places
  <1>3. Reciprocal(k, 1) \in Nat
    BY <1>2, ReciprocalOrder
  <1>4. Rounded(Greatest(k)[n]) /\ Greatest(k)[n] + Reciprocal(k, 1) < Limit
    BY GreatestGrows
  <1>5. 0 \in 0..MaxRankings /\ Greatest(k)[0] = 0
    BY FusionAssumption, GreatestGrows
  <1>6. Rounded(0)
    BY <1>5, GreatestGrows
  <1>7. Rounded(ScoreOf(s, i)) /\ ScoreOf(s, i) <= Greatest(k)[n]
    BY <1>4, <1>6 DEF ScoresFit, ScoreOf, Rounded
  <1>8. QED
    BY <1>1, <1>3, <1>4, <1>7 DEF Rounded

\* The scores t are s with the terms of a ranking.
Gains(s, t, ranking, k) ==
    /\ \A i : ScoreOf(t, i) = IF i \in Listed(ranking)
                              THEN Add(ScoreOf(s, i), Reciprocal(k, FirstPlace(ranking, i)))
                              ELSE ScoreOf(s, i)
    /\ \A i : ScoreOf(t, i) >= ScoreOf(s, i)

\* What a ranking makes of them: each that it lists gains the term of its first place.
LEMMA AccumulateFits ==
    ASSUME NEW k \in KConstants, k > 0, NEW n \in Nat, n < MaxRankings,
           NEW s, ScoresFit(s, k, n), NEW ranking \in Rankings
    PROVE  /\ ScoresFit(Accumulate(s, ranking, k), k, n + 1)
           /\ DOMAIN Accumulate(s, ranking, k) = DOMAIN s \cup Listed(ranking)
           /\ Gains(s, Accumulate(s, ranking, k), ranking, k)
PROOF
  <1> DEFINE t == Accumulate(s, ranking, k)
  <1> DEFINE c == Reciprocal(k, 1)
  <1> DEFINE D == DOMAIN s \cup Listed(ranking)
  <1> DEFINE a(i) == ScoreOf(s, i)
  <1> DEFINE r(i) == Reciprocal(k, FirstPlace(ranking, i))
  <1>0. Limit \in Nat /\ MaxRankings \in Nat
    BY FusionAssumption, PowerType DEF Limit
  <1>1. t = [i \in D |-> IF i \in Listed(ranking) THEN Add(a(i), r(i)) ELSE s[i]]
    BY DEF Accumulate
  <1>2. /\ DOMAIN t = D /\ t = [i \in D |-> t[i]]
        /\ \A i \in D : t[i] = IF i \in Listed(ranking) THEN Add(a(i), r(i)) ELSE s[i]
    <2> HIDE DEF t, a, r, D
    <2>1. QED
      BY <1>1
  <1>3. \A i : ScoreOf(t, i) = IF i \in Listed(ranking) THEN Add(a(i), r(i)) ELSE a(i)
    <2> HIDE DEF t, r
    <2>1. QED
      BY <1>2 DEF ScoreOf
  <1>4. D \subseteq Identities /\ IsFiniteSet(D)
    <2>1. IsFiniteSet(Listed(ranking)) /\ Listed(ranking) \subseteq Identities
      BY ListedIsFinite
    <2>2. IsFiniteSet(DOMAIN s) /\ DOMAIN s \subseteq Identities
      BY DEF ScoresFit
    <2>3. QED
      BY <2>1, <2>2, FS_Union
  <1>5. /\ c \in Nat
        /\ Rounded(Greatest(k)[n]) /\ Rounded(Greatest(k)[n + 1])
        /\ Greatest(k)[n] + c < Limit
        /\ Greatest(k)[n + 1] = Add(Greatest(k)[n], c) /\ Greatest(k)[n] <= Greatest(k)[n + 1]
    <2>1. 1 \in Places
      BY DEF Places
    <2>2. n \in 0..MaxRankings /\ n + 1 \in 0..MaxRankings
      BY <1>0
    <2>3. QED
      BY <2>1, <2>2, ReciprocalOrder, GreatestGrows
  <1>6. \A i : Rounded(a(i)) /\ a(i) <= Greatest(k)[n] /\ a(i) + c < Limit
    <2>1. n \in 0..MaxRankings
      BY <1>0
    <2>2. QED
      BY <2>1, ScoreHasRoom
  <1>7. \A i \in Listed(ranking) : r(i) \in Nat /\ r(i) >= 1 /\ r(i) <= c
    <2>1. TAKE i \in Listed(ranking)
    <2> DEFINE p == FirstPlace(ranking, i)
    <2>2. p \in Places /\ 1 \in Places
      BY FirstPlaceFacts DEF Places
    <2> HIDE DEF p
    <2>3. p \in Nat /\ p >= 1
      BY <2>2, PlaceFits
    <2>4. Reciprocal(k, p) \in Nat /\ Reciprocal(k, p) >= 1 /\ Reciprocal(k, p) <= Reciprocal(k, 1)
      BY <2>2, <2>3, ReciprocalOrder
    <2>5. QED
      BY <2>4 DEF p
  <1> HIDE DEF t, a, r, c, D
  <1>8. ASSUME NEW i \in Listed(ranking)
        PROVE  /\ Rounded(Add(a(i), r(i))) /\ Add(a(i), r(i)) >= 1
               /\ Add(a(i), r(i)) <= Greatest(k)[n + 1] /\ Add(a(i), r(i)) >= a(i)
    <2> DEFINE x == a(i)
    <2> DEFINE y == r(i)
    <2> DEFINE g == Greatest(k)[n]
    <2> DEFINE h == Greatest(k)[n + 1]
    <2>1. /\ Rounded(x) /\ x \in Nat /\ y \in Nat /\ y >= 1 /\ y <= c /\ x <= g
          /\ g \in Nat /\ g + c < Limit /\ h \in Nat /\ h < Limit /\ h = Add(g, c)
      BY <1>5, <1>6, <1>7 DEF Rounded
    <2> HIDE DEF x, y, g, h
    <2>2. x + y < Limit
      BY <1>0, <1>5, <2>1
    <2>3. Add(x, y) \in Nat /\ Add(x, y) <= Add(g, c)
      BY <1>5, <2>1, AddOrder
    <2>4. Add(x, y) < Limit
      BY <1>0, <2>1, <2>3
    <2>5. Rounded(Add(x, y)) /\ Add(x, y) >= 1 /\ Add(x, y) >= x
      BY <2>1, <2>2, <2>4, AddGrows
    <2>6. QED
      BY <2>1, <2>3, <2>5 DEF x, y, h
  <1>9. \A i \in DOMAIN s : s[i] = a(i) /\ s[i] >= 1
    BY DEF ScoresFit, ScoreOf, a
  <1>10. ASSUME NEW i \in D PROVE Rounded(t[i]) /\ t[i] >= 1 /\ t[i] <= Greatest(k)[n + 1]
    <2>1. CASE i \in Listed(ranking)
      BY <1>2, <1>8, <2>1
    <2>2. CASE i \notin Listed(ranking)
      <3>1. i \in DOMAIN s /\ t[i] = a(i) /\ t[i] >= 1
        BY <1>2, <1>9, <2>2 DEF D
      <3>2. QED
        BY <1>5, <1>6, <3>1 DEF Rounded
    <2>3. QED
      BY <2>1, <2>2
  <1>11. ScoresFit(t, k, n + 1)
    BY <1>2, <1>4, <1>10 DEF ScoresFit
  <1>12. \A i : ScoreOf(t, i) >= a(i)
    BY <1>3, <1>6, <1>8 DEF Rounded
  <1>13. Gains(s, t, ranking, k)
    BY <1>3, <1>12 DEF Gains, a, r
  <1>14. QED
    BY <1>2, <1>11, <1>13 DEF t, D

\* What a ranking prefers, and had no less before, has no less after.
LEMMA AccumulateKeepsOrder ==
    ASSUME NEW k \in KConstants, k > 0, NEW n \in Nat, n < MaxRankings,
           NEW s, ScoresFit(s, k, n), NEW ranking \in Rankings,
           NEW i, NEW j, ScoreOf(s, j) <= ScoreOf(s, i),
           \A q \in Ranks(j, ranking) : \E p \in Ranks(i, ranking) : p < q
    PROVE  ScoreOf(Accumulate(s, ranking, k), j) <= ScoreOf(Accumulate(s, ranking, k), i)
PROOF
  <1> DEFINE t == Accumulate(s, ranking, k)
  <1> DEFINE a(x) == ScoreOf(s, x)
  <1> DEFINE r(x) == Reciprocal(k, FirstPlace(ranking, x))
  <1> DEFINE c == Reciprocal(k, 1)
  <1>0. Limit \in Nat /\ MaxRankings \in Nat
    BY FusionAssumption, PowerType DEF Limit
  <1>1. /\ \A x : ScoreOf(t, x) = IF x \in Listed(ranking) THEN Add(a(x), r(x)) ELSE a(x)
        /\ \A x : ScoreOf(t, x) >= a(x)
    <2>1. Gains(s, t, ranking, k)
      BY AccumulateFits
    <2> HIDE DEF t
    <2>2. QED
      BY <2>1 DEF Gains
  <1>2. \A x : a(x) \in Nat /\ a(x) + c < Limit
    <2>1. n \in 0..MaxRankings
      BY <1>0
    <2>2. QED
      BY <2>1, ScoreHasRoom DEF Rounded
  <1>3. \A x : ScoreOf(t, x) \in Int
    <2> DEFINE m == n + 1
    <2>0. m \in 0..MaxRankings
      BY <1>0
    <2>1. ScoresFit(t, k, m)
      BY AccumulateFits
    <2> HIDE DEF t, m
    <2>2. \A x : Rounded(ScoreOf(t, x))
      BY <2>0, <2>1, ScoreHasRoom
    <2>3. QED
      BY <2>2 DEF Rounded
  <1>4. CASE j \notin Listed(ranking)
    <2> HIDE DEF t, a, r, c
    <2>1. ScoreOf(t, j) = a(j) /\ a(j) <= a(i) /\ ScoreOf(t, i) >= a(i)
      BY <1>1, <1>4 DEF a
    <2>2. QED
      BY <1>2, <1>3, <2>1 DEF t
  <1>5. CASE j \in Listed(ranking)
    <2> DEFINE p == FirstPlace(ranking, i)
    <2> DEFINE q == FirstPlace(ranking, j)
    <2>1. DOMAIN ranking \subseteq Nat
      BY FusionAssumption
    <2>2. q \in DOMAIN ranking /\ q \in Places /\ ranking[q] = j
      BY <1>5, FirstPlaceFacts
    <2>3. PICK x \in Ranks(i, ranking) : x < q
      BY <2>2 DEF Ranks
    <2>4. x \in DOMAIN ranking /\ ranking[x] = i /\ i \in Listed(ranking)
      BY <2>3 DEF Ranks, Listed
    <2>5. p \in DOMAIN ranking /\ p \in Places /\ p <= x
      BY <2>4, FirstPlaceFacts
    <2>6. r(j) = Reciprocal(k, q) /\ r(i) = Reciprocal(k, p) /\ 1 \in Places
      BY DEF Places
    <2> HIDE DEF p, q
    <2>7. p \in Nat /\ q \in Nat /\ p <= q /\ p >= 1
      <3>1. p \in Nat /\ q \in Nat /\ x \in Nat
        BY <2>1, <2>2, <2>4, <2>5
      <3>2. p >= 1
        BY <2>5, PlaceFits
      <3>3. QED
        BY <2>3, <2>5, <3>1, <3>2
    <2>8. Reciprocal(k, p) \in Nat /\ Reciprocal(k, q) \in Nat
          /\ Reciprocal(k, q) <= Reciprocal(k, p) /\ Reciprocal(k, p) <= c /\ c \in Nat
      BY <2>2, <2>5, <2>6, <2>7, ReciprocalOrder
    <2> HIDE DEF t, r, c
    <2> DEFINE u == a(i)
    <2> DEFINE v == a(j)
    <2>9. u \in Nat /\ v \in Nat /\ v <= u /\ u + c < Limit
      BY <1>2
    <2> DEFINE x1 == r(i)
    <2> DEFINE x2 == r(j)
    <2>10. x1 \in Nat /\ x2 \in Nat /\ x2 <= x1 /\ x1 <= c
      BY <2>6, <2>8
    <2> HIDE DEF u, v, x1, x2
    <2>11. u + x1 < Limit
      BY <1>0, <2>8, <2>9, <2>10
    <2>12. Add(v, x2) <= Add(u, x1)
      BY <2>9, <2>10, <2>11, AddOrder
    <2> HIDE DEF a
    <2>13. QED
      BY <1>1, <1>5, <2>4, <2>12 DEF u, v, x1, x2, t
  <1>6. QED
    BY <1>4, <1>5


(***************************************************************************)
(* The order.                                                              *)
(***************************************************************************)
\* Ordered lists every identity once, the higher first.
LEMMA OrderedLists ==
    ASSUME NEW s, IsFiniteSet(DOMAIN s), DOMAIN s \subseteq Int,
           \A i \in DOMAIN s : s[i] \in Nat
    PROVE  /\ DOMAIN Ordered(s) = 1..Cardinality(DOMAIN s) /\ Cardinality(DOMAIN s) \in Nat
           /\ \A p \in DOMAIN Ordered(s) : Ordered(s)[p] \in DOMAIN s
           /\ \A i \in DOMAIN s : \E p \in DOMAIN Ordered(s) : Ordered(s)[p] = i
           /\ \A p, q \in DOMAIN Ordered(s) : p < q => Above(s, Ordered(s)[p], Ordered(s)[q])
PROOF
  <1> DEFINE S == DOMAIN s
  <1> DEFINE N == Cardinality(S)
  <1> DEFINE R == {x \in S \X S : Above(s, x[1], x[2])}
  <1> DEFINE order == Ordered(s)
  <1>1. N \in Nat
    BY FS_CardinalityType
  <1>2. \A i, j \in S : <<i, j>> \in R <=> Above(s, i, j)
    OBVIOUS
  <1>3. order = [p \in 1..N |-> CHOOSE i \in S : Cardinality({j \in S : Above(s, j, i)}) = p - 1]
    BY DEF Ordered
  <1>4. IsFiniteSet(S) /\ S \subseteq Int /\ \A i \in S : s[i] \in Nat
    OBVIOUS
  <1> HIDE DEF R, S, order
  <1>5. StrictOrder(R, S)
    <2>1. \A i \in S : <<i, i>> \notin R
      BY <1>2, <1>4 DEF Above
    <2>2. \A i, j \in S : i # j => <<i, j>> \in R \/ <<j, i>> \in R
      BY <1>2, <1>4 DEF Above
    <2>3. \A i, j, k \in S : <<i, j>> \in R /\ <<j, k>> \in R => <<i, k>> \in R
      BY <1>2, <1>4 DEF Above
    <2>4. QED
      BY <2>1, <2>2, <2>3 DEF StrictOrder
  <1>6. \A i \in S : Rank(R, S, i) = Cardinality({j \in S : Above(s, j, i)})
    <2>1. \A i \in S : Ahead(R, S, i) = {j \in S : Above(s, j, i)}
      BY <1>2 DEF Ahead
    <2>2. QED
      BY <2>1 DEF Rank
  <1>7. /\ \A i \in S : Rank(R, S, i) \in 0..(N - 1)
        /\ \A i, j \in S : <<i, j>> \in R => Rank(R, S, i) < Rank(R, S, j)
        /\ \A i, j \in S : Rank(R, S, i) = Rank(R, S, j) => i = j
    BY <1>4, <1>5, RankOrder
  <1>8. \A x \in 0..(Cardinality(S) - 1) : \E i \in S : Rank(R, S, i) = x
    <2> HIDE DEF N
    <2>1. QED
      BY <1>4, <1>5, RankTaken
  <1>9. ASSUME NEW p \in 1..N
        PROVE  order[p] \in S /\ Rank(R, S, order[p]) = p - 1
    <2> DEFINE Here(i) == Cardinality({j \in S : Above(s, j, i)}) = p - 1
    <2> DEFINE q == p - 1
    <2>1. order[p] = CHOOSE i \in S : Here(i)
      BY <1>3
    <2>2. q \in 0..(Cardinality(S) - 1)
      BY <1>1
    <2>3. \A i \in S : Here(i) <=> Rank(R, S, i) = q
      BY <1>6
    <2> HIDE DEF Here, N, q
    <2>4. \E i \in S : Rank(R, S, i) = q
      BY <1>8, <2>2
    <2>5. \E i \in S : Here(i)
      BY <2>3, <2>4
    <2>6. order[p] \in S /\ Here(order[p])
      BY <2>1, <2>5
    <2>7. QED
      BY <2>3, <2>6 DEF q
  <1>10. ASSUME NEW i \in S PROVE \E p \in 1..N : order[p] = i
    <2> DEFINE p == Rank(R, S, i) + 1
    <2>1. p \in 1..N /\ Rank(R, S, i) = p - 1
      BY <1>1, <1>7
    <2> HIDE DEF p
    <2>2. order[p] \in S /\ Rank(R, S, order[p]) = Rank(R, S, i)
      BY <1>9, <2>1
    <2>3. QED
      BY <1>7, <2>1, <2>2
  <1>11. ASSUME NEW p \in 1..N, NEW q \in 1..N, p < q PROVE Above(s, order[p], order[q])
    <2> DEFINE i == order[p]
    <2> DEFINE j == order[q]
    <2>1. i \in S /\ j \in S /\ Rank(R, S, i) = p - 1 /\ Rank(R, S, j) = q - 1
      BY <1>9
    <2> HIDE DEF i, j
    <2>2. i # j /\ ~ (Rank(R, S, j) < Rank(R, S, i))
      BY <1>11, <2>1
    <2>3. <<i, j>> \in R
      BY <1>5, <1>7, <2>1, <2>2 DEF StrictOrder
    <2>4. QED
      BY <1>2, <2>1, <2>3 DEF i, j
  <1>12. DOMAIN order = 1..N
    BY <1>3
  <1>13. QED
    BY <1>1, <1>9, <1>10, <1>11, <1>12 DEF S, order

\* What Fused says of scores that are rounded sums: their order and public scores.
LEMMA FusedLists ==
    ASSUME NEW s, IsFiniteSet(DOMAIN s), DOMAIN s \subseteq Identities,
           \A i \in DOMAIN s : Rounded(s[i])
    PROVE  /\ DOMAIN Fused(s) = DOMAIN Ordered(s)
           /\ \A p \in DOMAIN Fused(s) :
                Fused(s)[p] \in Identities \X Nat /\ Fused(s)[p][1] = Ordered(s)[p]
PROOF
  <1> DEFINE order == Ordered(s)
  <1> DEFINE D == DOMAIN order
  <1>1. \A p \in D : order[p] \in DOMAIN s
    <2>1. DOMAIN s \subseteq Int /\ \A i \in DOMAIN s : s[i] \in Nat
      BY FusionAssumption DEF Rounded
    <2>2. QED
      BY <2>1, OrderedLists
  <1>2. Fused(s) = [p \in D |-> <<order[p], Round(s[order[p]], 1, PublicPrecision)>>]
    BY DEF Fused
  <1> HIDE DEF order, D
  <1>3. ASSUME NEW p \in D
        PROVE  Round(s[order[p]], 1, PublicPrecision) \in Nat /\ order[p] \in Identities
    <2> DEFINE n == s[order[p]]
    <2>1. n \in Nat /\ n < Limit
      BY <1>1 DEF Rounded
    <2> HIDE DEF n
    <2>2. InRange(n, 1, PublicPrecision)
      BY <2>1, BelowLimit
    <2>3. Round(n, 1, PublicPrecision) \in Nat
      BY <2>2, RoundWhole
    <2>4. QED
      BY <1>1, <2>3 DEF n
  <1>4. QED
    BY <1>2, <1>3 DEF order, D


(***************************************************************************)
(* The invariant.                                                          *)
(***************************************************************************)
FirstScores ==
    /\ Len(rankings) = 0 => scores = NoScores
    /\ Len(rankings) = 1 => scores = Accumulate(NoScores, rankings[1], k_constant)
    /\ Len(rankings) = 2 =>
        scores = Accumulate(Accumulate(NoScores, rankings[1], k_constant), rankings[2], k_constant)

ScoresKeepOrder ==
    \A i, j \in Identities : Dominates(i, j) => ScoreOf(scores, j) <= ScoreOf(scores, i)

FusionInv ==
    /\ k_constant \in KConstants \cup {NotFinite}
    /\ rankings \in Seq(Rankings) /\ Len(rankings) <= MaxRankings
    /\ rankings # <<>> \/ outcome = "fused" => IsValid(k_constant)
    /\ ScoresFit(scores, k_constant, Len(rankings))
    /\ ScoresKeepOrder
    /\ FirstScores
    /\ outcome \in {"running", "fused", "InvalidKConstant"}
    /\ fused = IF outcome = "fused" THEN Fused(scores) ELSE <<>>


\* No scores yet.
LEMMA NoScoresFit ==
    ASSUME NEW k
    PROVE  ScoresFit(NoScores, k, 0) /\ \A i : ScoreOf(NoScores, i) = 0
PROOF
  <1> DEFINE s == NoScores
  <1>1. DOMAIN s = {} /\ s = [i \in DOMAIN s |-> s[i]]
    BY DEF NoScores
  <1> HIDE DEF s
  <1>2. IsFiniteSet(DOMAIN s)
    BY <1>1, FS_EmptySet
  <1>3. ScoresFit(s, k, 0)
    BY <1>1, <1>2 DEF ScoresFit
  <1>4. \A i : ScoreOf(s, i) = 0
    BY <1>1 DEF ScoreOf
  <1>5. QED
    BY <1>3, <1>4 DEF s

\* A call begins with nothing.
LEMMA CallBegins ==
    ASSUME k_constant \in KConstants \cup {NotFinite}, rankings = <<>>, scores = NoScores,
           outcome = "running", fused = <<>>
    PROVE  FusionInv
PROOF
  <1>1. rankings \in Seq(Rankings) /\ Len(rankings) = 0
    OBVIOUS
  <1>2. Len(rankings) <= MaxRankings
    BY <1>1, FusionAssumption
  <1>3. ScoresFit(scores, k_constant, Len(rankings))
    BY <1>1, NoScoresFit
  <1>4. ScoresKeepOrder
    BY NoScoresFit DEF ScoresKeepOrder
  <1>5. FirstScores
    BY <1>1 DEF FirstScores
  <1>6. QED
    BY <1>1, <1>2, <1>3, <1>4, <1>5 DEF FusionInv

\* One more ranking.
LEMMA RankingFuses ==
    ASSUME FusionInv, NEW ranking \in Rankings, FuseRanking(ranking)
    PROVE  FusionInv'
PROOF
  <1> DEFINE k == k_constant
  <1> DEFINE n == Len(rankings)
  <1> DEFINE t == Accumulate(scores, ranking, k)
  <1>1. /\ k \in KConstants /\ k > 0
        /\ rankings \in Seq(Rankings) /\ n \in Nat /\ n < MaxRankings
        /\ ScoresFit(scores, k, n) /\ ScoresKeepOrder /\ FirstScores
        /\ outcome = "running" /\ fused = <<>>
    BY DEF FusionInv, FuseRanking, IsValid
  <1>2. /\ rankings' = Append(rankings, ranking) /\ scores' = t
        /\ k_constant' = k_constant /\ outcome' = outcome /\ fused' = fused
    BY DEF FuseRanking
  <1>3. /\ rankings' \in Seq(Rankings) /\ Len(rankings') = n + 1 /\ n + 1 <= MaxRankings
        /\ \A x \in 1..n : rankings'[x] = rankings[x]
        /\ rankings'[n + 1] = ranking
        /\ DOMAIN rankings = 1..n /\ DOMAIN rankings' = 1..(n + 1)
    BY <1>1, <1>2, FusionAssumption
  <1> DEFINE m == n + 1
  <1>4. ScoresFit(t, k, m)
    BY <1>1, AccumulateFits
  <1>5. IsValid(k)'
    BY <1>1, <1>2, FusionAssumption DEF IsValid
  <1>6. ScoresKeepOrder'
    <2>1. SUFFICES ASSUME NEW i \in Identities, NEW j \in Identities, Dominates(i, j)'
                   PROVE  ScoreOf(t, j) <= ScoreOf(t, i)
      BY <1>2 DEF ScoresKeepOrder
    <2>2. \A x \in 1..m : \A q \in Ranks(j, rankings'[x]) : \E p \in Ranks(i, rankings'[x]) : p < q
      BY <1>3, <2>1 DEF Dominates
    <2>3. Dominates(i, j)
      <3>1. ASSUME NEW x \in DOMAIN rankings, NEW q \in Ranks(j, rankings[x])
            PROVE  \E p \in Ranks(i, rankings[x]) : p < q
        <4>1. x \in 1..m /\ rankings'[x] = rankings[x]
          BY <1>1, <1>3, <3>1
        <4> HIDE DEF m
        <4>2. QED
          BY <2>2, <3>1, <4>1
      <3>2. QED
        BY <3>1 DEF Dominates
    <2>4. \A q \in Ranks(j, ranking) : \E p \in Ranks(i, ranking) : p < q
      <3>1. m \in 1..m /\ rankings'[m] = ranking
        BY <1>1, <1>3
      <3> HIDE DEF m
      <3>2. QED
        BY <2>2, <3>1
    <2>5. ScoreOf(scores, j) <= ScoreOf(scores, i)
      BY <1>1, <2>3 DEF ScoresKeepOrder
    <2> HIDE DEF k, n
    <2>6. QED
      BY <1>1, <2>4, <2>5, AccumulateKeepsOrder
  <1>7. FirstScores'
    <2>1. n + 1 = 1 => scores = NoScores /\ rankings'[1] = ranking
      BY <1>1, <1>3 DEF FirstScores
    <2>2. n + 1 = 2 => scores = Accumulate(NoScores, rankings'[1], k) /\ rankings'[2] = ranking
      BY <1>1, <1>3 DEF FirstScores
    <2>3. n + 1 # 0
      BY <1>1
    <2>4. QED
      BY <1>2, <1>3, <2>1, <2>2, <2>3 DEF FirstScores
  <1>8. QED
    <2>1. k_constant' \in KConstants \cup {NotFinite}
      BY <1>1, <1>2
    <2>2. ScoresFit(scores, k_constant, Len(rankings))'
      BY <1>2, <1>3, <1>4
    <2>3. outcome' = "running" /\ fused' = <<>>
      BY <1>1, <1>2
    <2>4. IsValid(k_constant)'
      BY <1>5
    <2>5. rankings' \in Seq(Rankings) /\ Len(rankings') <= MaxRankings
      BY <1>3
    <2>6. QED
      BY <1>6, <1>7, <2>1, <2>2, <2>3, <2>4, <2>5 DEF FusionInv

LEMMA FusionStep ==
    ASSUME FusionInv, [FusionNext]_fusionVars
    PROVE  FusionInv'
PROOF
  <1>1. CASE RefuseConstant
    <2>1. /\ k_constant' = k_constant /\ rankings' = rankings /\ scores' = scores
          /\ fused' = fused /\ outcome' = "InvalidKConstant" /\ outcome = "running"
      BY <1>1 DEF RefuseConstant
    <2>2. ScoresKeepOrder' /\ FirstScores'
      BY <2>1 DEF FusionInv, ScoresKeepOrder, FirstScores, Dominates
    <2>3. QED
      BY <2>1, <2>2 DEF FusionInv, IsValid
  <1>2. ASSUME NEW ranking \in Rankings, FuseRanking(ranking) PROVE FusionInv'
    BY <1>2, RankingFuses
  <1>3. CASE Finish
    <2>1. /\ k_constant' = k_constant /\ rankings' = rankings /\ scores' = scores
          /\ fused' = Fused(scores) /\ outcome' = "fused" /\ IsValid(k_constant)
      BY <1>3 DEF Finish
    <2>2. ScoresKeepOrder' /\ FirstScores'
      BY <2>1 DEF FusionInv, ScoresKeepOrder, FirstScores, Dominates
    <2>3. QED
      BY <2>1, <2>2 DEF FusionInv, IsValid
  <1>4. CASE CallAgain
    <2>1. /\ (k_constant \in KConstants \cup {NotFinite})' /\ (rankings = <<>>)'
          /\ (scores = NoScores)' /\ (outcome = "running")' /\ (fused = <<>>)'
      BY <1>4 DEF CallAgain, NoScores
    <2>2. QED
      BY <2>1, CallBegins, PTL
  <1>5. CASE UNCHANGED fusionVars
    <2>1. /\ k_constant' = k_constant /\ rankings' = rankings /\ scores' = scores
          /\ fused' = fused /\ outcome' = outcome
      BY <1>5 DEF fusionVars
    <2>2. ScoresKeepOrder' /\ FirstScores'
      BY <2>1 DEF FusionInv, ScoresKeepOrder, FirstScores, Dominates
    <2>3. QED
      BY <2>1, <2>2 DEF FusionInv, IsValid
  <1>6. QED
    BY <1>1, <1>2, <1>3, <1>4, <1>5 DEF FusionNext

\* The invariant of the fusion of rankings (fuse, rrf).
THEOREM FusionInvariance == FusionSpec => []FusionInv
PROOF
  <1>1. FusionInit => FusionInv
    BY CallBegins DEF FusionInit
  <1>2. FusionInv /\ [FusionNext]_fusionVars => FusionInv'
    BY FusionStep
  <1>3. QED
    BY <1>1, <1>2, PTL DEF FusionSpec


(***************************************************************************)
(* Two rankings.                                                           *)
(***************************************************************************)
\* A term may be a score.
LEMMA ReciprocalRounded ==
    ASSUME NEW k \in KConstants, k > 0, NEW p \in Places
    PROVE  Rounded(Reciprocal(k, p))
PROOF
  <1> DEFINE m == k + One * p
  <1> DEFINE M == Dampened(k, p)
  <1> DEFINE v == Reciprocal(k, p)
  <1> DEFINE c == Reciprocal(k, 1)
  <1>1. m \in Nat /\ m >= 1 /\ m < Limit /\ p \in Nat /\ p >= 1
    BY PlaceFits
  <1>2. M \in Nat /\ M >= 1
    <2>1. M = Round(m, 1, Precision)
      BY DEF Dampened
    <2> HIDE DEF m, M
    <2>2. InRange(m, 1, Precision)
      BY <1>1, BelowLimit
    <2>3. QED
      BY <1>1, <2>1, <2>2, RoundWhole
  <1>3. v \in Nat /\ c \in Nat /\ v <= c
    <2>1. 1 \in Places
      BY DEF Places
    <2>2. QED
      BY <1>1, <2>1, ReciprocalOrder
  <1>4. c < Limit /\ Limit \in Nat
    <2>1. 0 \in 0..MaxRankings /\ Limit \in Nat
      BY FusionAssumption, PowerType DEF Limit
    <2>2. Greatest(k)[0] = 0 /\ Greatest(k)[0] + c < Limit
      BY <2>1, GreatestGrows
    <2>3. QED
      BY <1>3, <2>1, <2>2
  <1>5. v = Round(Unit, M, Precision)
    BY DEF Reciprocal
  <1> HIDE DEF M, v, c
  <1>6. v < Limit
    BY <1>3, <1>4
  <1>7. InRange(Unit, M, Precision) /\ InRange(v, 1, Precision)
    BY <1>2, <1>3, <1>6, BelowLimit, FusionAssumption
  <1>8. Round(v, 1, Precision) = v
    BY <1>5, <1>7, RoundAgain
  <1>9. QED
    BY <1>3, <1>6, <1>8 DEF Rounded, v

LEMMA FirstRanking ==
    ASSUME NEW k \in KConstants, k > 0, 0 < MaxRankings, NEW ranking \in Rankings
    PROVE  /\ ScoresFit(Accumulate(NoScores, ranking, k), k, 1)
           /\ DOMAIN Accumulate(NoScores, ranking, k) = Listed(ranking)
           /\ Gains(NoScores, Accumulate(NoScores, ranking, k), ranking, k)
PROOF
  <1> DEFINE s == NoScores
  <1> DEFINE t == Accumulate(s, ranking, k)
  <1> DEFINE n == 0
  <1> DEFINE m == n + 1
  <1>1. ScoresFit(s, k, n) /\ DOMAIN s = {} /\ n \in Nat /\ n < MaxRankings /\ m = 1
    BY NoScoresFit DEF NoScores
  <1> HIDE DEF n, s
  <1>2. ScoresFit(t, k, m) /\ DOMAIN t = DOMAIN s \cup Listed(ranking) /\ Gains(s, t, ranking, k)
    BY <1>1, AccumulateFits
  <1> HIDE DEF m, t
  <1>3. QED
    BY <1>1, <1>2 DEF t, s

\* Whichever comes first.
LEMMA PairCommutes ==
    ASSUME NEW k \in KConstants, k > 0, MaxRankings >= 2,
           NEW r1 \in Rankings, NEW r2 \in Rankings
    PROVE  Accumulate(Accumulate(NoScores, r1, k), r2, k)
              = Accumulate(Accumulate(NoScores, r2, k), r1, k)
PROOF
  <1> DEFINE L1 == Listed(r1)
  <1> DEFINE L2 == Listed(r2)
  <1> DEFINE x(i) == Reciprocal(k, FirstPlace(r1, i))
  <1> DEFINE y(i) == Reciprocal(k, FirstPlace(r2, i))
  <1> DEFINE s1 == Accumulate(NoScores, r1, k)
  <1> DEFINE s2 == Accumulate(NoScores, r2, k)
  <1> DEFINE t1 == Accumulate(s1, r2, k)
  <1> DEFINE t2 == Accumulate(s2, r1, k)
  <1>0. 0 < MaxRankings /\ 1 \in Nat /\ 1 < MaxRankings
    BY FusionAssumption
  <1>1. \A i : ScoreOf(NoScores, i) = 0
    BY NoScoresFit
  <1>2. ScoresFit(s1, k, 1) /\ DOMAIN s1 = L1 /\ Gains(NoScores, s1, r1, k)
    BY <1>0, FirstRanking
  <1>3. ScoresFit(s2, k, 1) /\ DOMAIN s2 = L2 /\ Gains(NoScores, s2, r2, k)
    BY <1>0, FirstRanking
  <1> DEFINE n2 == 1 + 1
  <1> HIDE DEF s1, s2, L1, L2
  <1>4. ScoresFit(t1, k, n2) /\ DOMAIN t1 = DOMAIN s1 \cup L2 /\ Gains(s1, t1, r2, k)
    BY <1>0, <1>2, AccumulateFits DEF L2
  <1>5. ScoresFit(t2, k, n2) /\ DOMAIN t2 = DOMAIN s2 \cup L1 /\ Gains(s2, t2, r1, k)
    BY <1>0, <1>3, AccumulateFits DEF L1
  <1> HIDE DEF t1, t2
  <1> USE DEF L1, L2
  <1>6. \A i : /\ i \in L1 => Rounded(x(i)) /\ x(i) \in Nat /\ Add(0, x(i)) = x(i)
               /\ i \in L2 => Rounded(y(i)) /\ y(i) \in Nat /\ Add(0, y(i)) = y(i)
    <2>1. \A i : (i \in L1 => Rounded(x(i))) /\ (i \in L2 => Rounded(y(i)))
      BY FirstPlaceFacts, ReciprocalRounded
    <2>2. ASSUME NEW v, Rounded(v) PROVE v \in Nat /\ Add(0, v) = v
      <3>1. v \in Nat /\ 0 + v = v
        BY <2>2 DEF Rounded
      <3>2. QED
        BY <2>2, <3>1 DEF Add, Rounded
    <2> HIDE DEF x, y
    <2>3. QED
      BY <2>1, <2>2
  <1>7. \A i : ScoreOf(s1, i) =
                IF i \in L1 THEN Add(ScoreOf(NoScores, i), x(i)) ELSE ScoreOf(NoScores, i)
    BY <1>2 DEF Gains
  <1>8. \A i : ScoreOf(s2, i) =
                IF i \in L2 THEN Add(ScoreOf(NoScores, i), y(i)) ELSE ScoreOf(NoScores, i)
    BY <1>3 DEF Gains
  <1>9. \A i : ScoreOf(t1, i) = IF i \in L2 THEN Add(ScoreOf(s1, i), y(i)) ELSE ScoreOf(s1, i)
    BY <1>4 DEF Gains
  <1>10. \A i : ScoreOf(t2, i) = IF i \in L1 THEN Add(ScoreOf(s2, i), x(i)) ELSE ScoreOf(s2, i)
    BY <1>5 DEF Gains
  <1>11. \A a, b \in Nat : Add(a, b) = Add(b, a)
    <2>1. \A a, b \in Nat : a + b = b + a
      OBVIOUS
    <2>2. QED
      BY <2>1 DEF Add
  <1>12. DOMAIN t1 = DOMAIN t2
    BY <1>1, <1>2, <1>3, <1>4, <1>5
  <1>13. t1 = [i \in DOMAIN t1 |-> t1[i]] /\ t2 = [i \in DOMAIN t2 |-> t2[i]]
    BY <1>4, <1>5 DEF ScoresFit
  <1> HIDE DEF L1, L2, x, y
  <1>14. ASSUME NEW i PROVE ScoreOf(t1, i) = ScoreOf(t2, i)
    <2>1. CASE i \in L1 /\ i \in L2
      <3>1. ScoreOf(s1, i) = x(i) /\ ScoreOf(s2, i) = y(i) /\ x(i) \in Nat /\ y(i) \in Nat
        BY <1>1, <1>6, <1>7, <1>8, <2>1
      <3>2. ScoreOf(t1, i) = Add(x(i), y(i)) /\ ScoreOf(t2, i) = Add(y(i), x(i))
        BY <1>9, <1>10, <2>1, <3>1
      <3>3. QED
        BY <1>11, <3>1, <3>2
    <2>2. CASE i \in L1 /\ i \notin L2
      BY <1>7, <1>8, <1>9, <1>10, <2>2
    <2>3. CASE i \notin L1 /\ i \in L2
      BY <1>7, <1>8, <1>9, <1>10, <2>3
    <2>4. CASE i \notin L1 /\ i \notin L2
      BY <1>1, <1>7, <1>8, <1>9, <1>10, <2>4
    <2>5. QED
      BY <2>1, <2>2, <2>3, <2>4
  <1>15. ASSUME NEW i \in DOMAIN t1 PROVE t1[i] = t2[i]
    BY <1>12, <1>14 DEF ScoreOf
  <1>16. t1 = t2
    BY <1>12, <1>13, <1>15
  <1>17. QED
    BY <1>16 DEF t1, t2, s1, s2

ScoresUpto(g, m, perm) ==
    g = [n \in 0..m |-> IF n = 0 THEN NoScores
                        ELSE Accumulate(g[n - 1], rankings[perm[n]], k_constant)]

LEMMA RearrangedPair ==
    ASSUME Len(rankings) \in 0..2, NEW perm
    PROVE  /\ Len(rankings) = 0 => Rearranged(perm) = Fused(NoScores)
           /\ Len(rankings) = 1 =>
                Rearranged(perm) = Fused(Accumulate(NoScores, rankings[perm[1]], k_constant))
           /\ Len(rankings) = 2 =>
                Rearranged(perm) =
                    Fused(Accumulate(Accumulate(NoScores, rankings[perm[1]], k_constant),
                                     rankings[perm[2]], k_constant))
PROOF
  <1> DEFINE m == Len(rankings)
  <1> DEFINE s1 == Accumulate(NoScores, rankings[perm[1]], k_constant)
  <1> DEFINE s2 == Accumulate(s1, rankings[perm[2]], k_constant)
  <1> DEFINE h == [n \in 0..m |-> IF n = 0 THEN NoScores ELSE IF n = 1 THEN s1 ELSE s2]
  <1> DEFINE g == CHOOSE f : ScoresUpto(f, m, perm)
  <1>1. Rearranged(perm) = Fused(g[m])
    BY DEF Rearranged, ScoresUpto
  <1>2. ScoresUpto(h, m, perm)
    <2>1. ASSUME NEW n \in 0..m
          PROVE  h[n] = IF n = 0 THEN NoScores
                        ELSE Accumulate(h[n - 1], rankings[perm[n]], k_constant)
      <3>1. CASE n = 0
        BY <3>1
      <3>2. CASE n = 1
        <4>1. n - 1 = 0 /\ 0 \in 0..m /\ n # 0
          BY <3>2
        <4> HIDE DEF m
        <4>2. h[n] = s1 /\ h[n - 1] = NoScores
          BY <3>2, <4>1
        <4> HIDE DEF h
        <4>3. QED
          BY <3>2, <4>1, <4>2
      <3>3. CASE n = 2
        <4>1. n - 1 = 1 /\ 1 \in 0..m /\ n # 0 /\ n # 1 /\ 1 # 0
          BY <3>3
        <4> HIDE DEF m, s1, s2
        <4>2. h[n] = s2 /\ h[n - 1] = s1
          BY <3>3, <4>1
        <4> HIDE DEF h
        <4>3. QED
          BY <3>3, <4>1, <4>2 DEF s2
      <3>4. n = 0 \/ n = 1 \/ n = 2
        OBVIOUS
      <3>5. QED
        BY <3>1, <3>2, <3>3, <3>4
    <2>2. h = [n \in 0..m |-> h[n]]
      OBVIOUS
    <2> HIDE DEF h, m
    <2>3. QED
      BY <2>1, <2>2 DEF ScoresUpto
  <1> HIDE DEF h, m
  <1>3. ScoresUpto(g, m, perm)
    BY <1>2
  <1> HIDE DEF g
  <1>4. g = [n \in 0..m |-> IF n = 0 THEN NoScores
                            ELSE Accumulate(g[n - 1], rankings[perm[n]], k_constant)]
    BY <1>3 DEF ScoresUpto
  <1>5. m \in 0..2
    BY DEF m
  <1>6. g[0] = NoScores
    BY <1>4, <1>5
  <1>7. m >= 1 => g[1] = s1
    <2>1. m >= 1 => 1 \in 0..m /\ 1 # 0 /\ 1 - 1 = 0
      BY <1>5
    <2>2. m >= 1 => g[1] = Accumulate(g[0], rankings[perm[1]], k_constant)
      BY <1>4, <2>1
    <2>3. QED
      BY <1>6, <2>2
  <1>8. m = 2 => g[2] = s2
    <2>1. m = 2 => 2 \in 0..m /\ 2 # 0 /\ 2 - 1 = 1 /\ m >= 1
      BY <1>5
    <2>2. m = 2 => g[2] = Accumulate(g[1], rankings[perm[2]], k_constant)
      BY <1>4, <2>1
    <2>3. QED
      BY <1>7, <2>1, <2>2
  <1>9. QED
    <2>1. m = 1 => m >= 1
      OBVIOUS
    <2>2. QED
      BY <1>1, <1>6, <1>7, <1>8, <2>1 DEF m


LEMMA PairsAlike ==
    ASSUME FusionInv
    PROVE  PairsFuseAlike
PROOF
  <1>1. SUFFICES ASSUME outcome = "fused", Len(rankings) <= 2, NEW perm \in Arrangements
                 PROVE  Rearranged(perm) = fused
    BY DEF PairsFuseAlike
  <1> DEFINE k == k_constant
  <1> DEFINE n == Len(rankings)
  <1>2. /\ k \in KConstants /\ k > 0 /\ rankings \in Seq(Rankings) /\ n <= MaxRankings
        /\ FirstScores /\ fused = Fused(scores)
    BY <1>1 DEF FusionInv, IsValid
  <1>3. n \in 0..2 /\ DOMAIN rankings = 1..n
    <2>1. n \in Nat /\ DOMAIN rankings = 1..n
      BY <1>2
    <2>2. n <= 2
      BY <1>1
    <2> HIDE DEF n
    <2>3. QED
      BY <2>1, <2>2
  <1>4. perm \in [1..n -> 1..n] /\ \A x, y \in 1..n : x # y => perm[x] # perm[y]
    BY <1>3 DEF Arrangements
  <1>5. CASE n = 0
    BY <1>2, <1>3, <1>5, RearrangedPair DEF FirstScores
  <1>6. CASE n = 1
    <2>1. perm[1] = 1
      BY <1>4, <1>6
    <2>2. scores = Accumulate(NoScores, rankings[perm[1]], k)
      BY <1>2, <1>6, <2>1 DEF FirstScores
    <2>3. QED
      BY <1>2, <1>3, <1>6, <2>2, RearrangedPair
  <1>7. CASE n = 2
    <2> DEFINE r1 == rankings[1]
    <2> DEFINE r2 == rankings[2]
    <2>1. perm[1] \in 1..2 /\ perm[2] \in 1..2 /\ perm[1] # perm[2]
      BY <1>4, <1>7
    <2>2. (perm[1] = 1 /\ perm[2] = 2) \/ (perm[1] = 2 /\ perm[2] = 1)
      BY <2>1
    <2>3. r1 \in Rankings /\ r2 \in Rankings /\ MaxRankings >= 2
      <3>1. r1 \in Rankings /\ r2 \in Rankings
        BY <1>2, <1>7
      <3>2. MaxRankings \in Nat
        BY FusionAssumption
      <3>3. QED
        BY <1>2, <1>7, <3>1, <3>2
    <2>4. scores = Accumulate(Accumulate(NoScores, r1, k), r2, k)
      BY <1>2, <1>7 DEF FirstScores
    <2>5. Rearranged(perm) = Fused(Accumulate(Accumulate(NoScores, rankings[perm[1]], k),
                                              rankings[perm[2]], k))
      BY <1>3, <1>7, RearrangedPair
    <2> HIDE DEF k
    <2>6. Accumulate(Accumulate(NoScores, r1, k), r2, k)
             = Accumulate(Accumulate(NoScores, r2, k), r1, k)
      <3> HIDE DEF r1, r2
      <3>1. QED
        BY <1>2, <2>3, PairCommutes
    <2>7. CASE perm[1] = 1 /\ perm[2] = 2
      BY <1>2, <2>4, <2>5, <2>7
    <2>8. CASE perm[1] = 2 /\ perm[2] = 1
      BY <1>2, <2>4, <2>5, <2>6, <2>8
    <2>9. QED
      BY <2>2, <2>7, <2>8
  <1>8. QED
    BY <1>3, <1>5, <1>6, <1>7

(***************************************************************************)
(* The property.                                                           *)
(***************************************************************************)
\* What the order says of the scores.
LEMMA FusedFacts ==
    ASSUME FusionInv, outcome = "fused"
    PROVE  /\ \A p \in DOMAIN fused : fused[p] \in Identities \X Nat
           /\ \A p \in DOMAIN fused : fused[p][1] \in DOMAIN scores
           /\ \A i \in DOMAIN scores : \E p \in DOMAIN fused : fused[p][1] = i
           /\ \A p, q \in DOMAIN fused : p < q => Above(scores, fused[p][1], fused[q][1])
           /\ DOMAIN fused \subseteq Nat
PROOF
  <1> DEFINE order == Ordered(scores)
  <1> DEFINE s == scores
  <1>1. fused = Fused(s) /\ ScoresFit(s, k_constant, Len(rankings))
    BY DEF FusionInv
  <1>2. IsFiniteSet(DOMAIN s) /\ DOMAIN s \subseteq Identities /\ \A i \in DOMAIN s : Rounded(s[i])
    BY <1>1 DEF ScoresFit
  <1>3. DOMAIN s \subseteq Int /\ \A i \in DOMAIN s : s[i] \in Nat
    BY <1>2, FusionAssumption DEF Rounded
  <1>4. /\ DOMAIN order = 1..Cardinality(DOMAIN s) /\ Cardinality(DOMAIN s) \in Nat
        /\ \A p \in DOMAIN order : order[p] \in DOMAIN s
        /\ \A i \in DOMAIN s : \E p \in DOMAIN order : order[p] = i
        /\ \A p, q \in DOMAIN order : p < q => Above(s, order[p], order[q])
    BY <1>2, <1>3, OrderedLists
  <1>5. /\ DOMAIN fused = DOMAIN order
        /\ \A p \in DOMAIN order : fused[p] \in Identities \X Nat /\ fused[p][1] = order[p]
    BY <1>1, <1>2, FusedLists
  <1> HIDE DEF order
  <1>6. DOMAIN fused \subseteq Nat
    BY <1>4, <1>5
  <1>7. QED
    BY <1>4, <1>5, <1>6

LEMMA DominatedBelow ==
    ASSUME FusionInv
    PROVE  DominanceRespected
PROOF
  <1>1. SUFFICES ASSUME outcome = "fused", NEW i \in DOMAIN scores, NEW j \in DOMAIN scores,
                        i # j, Dominates(i, j)
                 PROVE  /\ scores[i] >= scores[j]
                        /\ Place(i) > Place(j) => scores[i] = scores[j] /\ j < i
    BY DEF DominanceRespected
  <1>2. ScoresFit(scores, k_constant, Len(rankings)) /\ ScoresKeepOrder
    BY DEF FusionInv
  <1>3. i \in Identities /\ j \in Identities /\ scores[i] \in Nat /\ scores[j] \in Nat
    BY <1>1, <1>2 DEF ScoresFit, Rounded
  <1>4. scores[i] >= scores[j]
    BY <1>1, <1>2, <1>3 DEF ScoresKeepOrder, ScoreOf
  <1>5. \A x \in DOMAIN scores : Place(x) \in DOMAIN fused /\ fused[Place(x)][1] = x
    BY <1>1, FusedFacts DEF Place
  <1>6. ASSUME Place(i) > Place(j) PROVE scores[i] = scores[j] /\ j < i
    <2> DEFINE p == Place(i)
    <2> DEFINE q == Place(j)
    <2>1. p \in DOMAIN fused /\ q \in DOMAIN fused /\ fused[p][1] = i /\ fused[q][1] = j
      BY <1>1, <1>5
    <2>2. p \in Nat /\ q \in Nat
      BY <1>1, <2>1, FusedFacts
    <2>3. q < p
      BY <1>6, <2>2
    <2> HIDE DEF p, q
    <2>4. Above(scores, j, i)
      BY <1>1, <2>1, <2>3, FusedFacts
    <2>5. QED
      BY <1>3, <1>4, <2>4 DEF Above
  <1>7. QED
    BY <1>4, <1>6

(***************************************************************************)
(* However the sums round, an identity that every ranking prefers is never *)
(* fused below the one it is preferred to; every score is at least one     *)
(* unit and at most that of an identity all rankings put first; and two    *)
(* rankings fuse to the same result in either order (fuse, rrf).           *)
(***************************************************************************)
THEOREM FusionOrderKept == FusionSpec => []FusionKeepsOrder
PROOF
  <1>1. FusionInv => FusionTypeOK
    <2>1. SUFFICES ASSUME FusionInv PROVE FusionTypeOK
      OBVIOUS
    <2>2. \A n \in DOMAIN rankings : rankings[n] \in Rankings
      BY <2>1 DEF FusionInv
    <2>3. \A p \in DOMAIN fused : fused[p] \in Identities \X Nat
      <3>1. CASE outcome = "fused"
        BY <2>1, <3>1, FusedFacts
      <3>2. CASE outcome # "fused"
        BY <2>1, <3>2 DEF FusionInv
      <3>3. QED
        BY <3>1, <3>2
    <2>4. /\ DOMAIN scores \subseteq Identities
          /\ \A i \in DOMAIN scores : scores[i] \in 1..Greatest(k_constant)[Len(rankings)]
      <3> DEFINE g == Greatest(k_constant)[Len(rankings)]
      <3>1. ScoresFit(scores, k_constant, Len(rankings))
        BY <2>1 DEF FusionInv
      <3>2. DOMAIN scores \subseteq Identities
            /\ \A i \in DOMAIN scores : scores[i] \in Nat /\ scores[i] >= 1 /\ scores[i] <= g
        BY <3>1 DEF ScoresFit, Rounded
      <3>3. ASSUME NEW i \in DOMAIN scores PROVE g \in Int
        <4>1. rankings # <<>>
          <5>1. SUFFICES ASSUME rankings = <<>> PROVE FALSE
            OBVIOUS
          <5>2. scores = NoScores
            BY <2>1, <5>1 DEF FusionInv, FirstScores
          <5>3. QED
            BY <5>2 DEF NoScores
        <4>2. k_constant \in KConstants /\ k_constant > 0 /\ Len(rankings) \in 0..MaxRankings
          BY <2>1, <4>1, FusionAssumption DEF FusionInv, IsValid
        <4>3. QED
          BY <4>2, GreatestGrows DEF Rounded
      <3> HIDE DEF g
      <3>4. \A i \in DOMAIN scores : scores[i] \in 1..g
        BY <3>2, <3>3
      <3>5. QED
        BY <3>2, <3>4 DEF g
    <2>5. QED
      BY <2>1, <2>2, <2>3, <2>4 DEF FusionInv, FusionTypeOK
  <1>2. FusionInv => FusionKeepsOrder
    BY <1>1, DominatedBelow, PairsAlike DEF FusionKeepsOrder
  <1>3. QED
    BY <1>2, FusionInvariance, PTL
=============================================================================
