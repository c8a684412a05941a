------------------------------ MODULE HnswGraph ------------------------------
(***************************************************************************)
(* The vector engine of heurema (hnsw/engine.rs): a layered graph of       *)
(* degree-limited links, a cycle of backbone links below it that is never  *)
(* pruned, and an entry point.                                             *)
(*                                                                         *)
(* insert, remove and query run one at a time (they borrow the index), but *)
(* each is a chain of loops over a graph it is changing.  A step here is   *)
(* one turn of a loop: one greedy move, one expansion of search_layer, one *)
(* call of link.  What a call keeps on its stack is `call'.                *)
(*                                                                         *)
(* A vector is a point on a line: the graph only compares distances.  The  *)
(* level of a node comes from a pseudo-random generator and is any level   *)
(* here.  A public score is a coarser number than a distance, as an f32 is *)
(* than an f64, and may not hold it at all, on either side of zero.        *)
(*                                                                         *)
(* A float is the integer that total_cmp orders it by: n is n, and -n,     *)
(* with -0.0 among them, is -1 - n.                                        *)
(***************************************************************************)
EXTENDS Integers, FiniteSets, Sequences

CONSTANTS
    Ids,                \* member identities, ordered as integers
    Vectors,            \* the vectors the index is given, as floats
    Queries,            \* the vectors it is queried with, as floats
    m_neighbours,       \* HnswConfig::m_neighbours
    ef_construction,    \* HnswConfig::ef_construction
    TopLevel,           \* the highest level of a node (16 in the code)
    Answers,            \* how many results a query may ask for
    Resolution,         \* how many distances share one public score
    MaxScore,           \* the size of the largest public score (f32::MAX)
    None                \* no node, no call

ASSUME HnswAssumption ==
    /\ Ids \subseteq Int /\ IsFiniteSet(Ids)
    /\ Vectors \cup Queries \subseteq Int
    /\ m_neighbours \in Nat \ {0}
    /\ ef_construction \in Nat \ {0}
    /\ TopLevel \in Nat
    /\ Answers \subseteq Nat
    /\ Resolution \in Nat \ {0}
    /\ MaxScore \in Nat
    /\ None \notin Ids

VectorDistance == {"L2", "Cosine", "InnerProduct"}

VARIABLES
    distance,       \* HnswConfig::distance
    nodes,          \* HnswIndex::nodes
    entry_point,    \* HnswIndex::entry_point
    max_level,      \* HnswIndex::max_level
    pc,             \* the loop the call under way is in
    call,           \* that call's arguments and locals
    answer          \* what the last query returned

graph == <<nodes, entry_point, max_level>>
vars == <<distance, graph, pc, call, answer>>

(***************************************************************************)
(* Distances.                                                              *)
(***************************************************************************)
Float(negative, size) == IF negative THEN -1 - size ELSE size

Negative(x) == x < 0

Size(x) == IF x < 0 THEN -1 - x ELSE x

\* The number a float stands for, which is the same of both zeros.
Number(x) == IF x < 0 THEN x + 1 ELSE x

\* A product is negative where the signs differ, and an inner product is its negation:
\* zero keeps a sign in both, as it does in Rust's sums, which begin at -0.0.
Distance(v, w) ==
    CASE distance = "L2"           -> (Number(v) - Number(w)) * (Number(v) - Number(w))
      [] distance = "InnerProduct" -> Float(Negative(v) = Negative(w), Size(v) * Size(w))
      [] distance = "Cosine"       ->
            IF Size(v) = 0 /\ Size(w) = 0 THEN 0
            ELSE IF Size(v) = 0 \/ Size(w) = 0 THEN 1
            ELSE IF Negative(v) = Negative(w) THEN 0 ELSE 2

\* compare_ids_by_distance is less: the distance, then the identity.
Closer(ns, v, i, j) ==
    LET d == Distance(v, ns[i].vector)
        e == Distance(v, ns[j].vector)
    IN  d < e \/ (d = e /\ i < j)

\* The first n of S, the closest first.
Closest(ns, v, S, n) ==
    {i \in S : Cardinality({j \in S : Closer(ns, v, j, i)}) < n}

(***************************************************************************)
(* Links.                                                                  *)
(***************************************************************************)
degree_limit(l) == IF l = 0 THEN 2 * m_neighbours ELSE m_neighbours

\* Dropping links from one side only.
PruneOneSided(ns, id, l) ==
    [ns EXCEPT ![id].neighbours[l] = Closest(ns, ns[id].vector, @, degree_limit(l))]

Prune(ns, id, l) ==
    LET retained == Closest(ns, ns[id].vector, ns[id].neighbours[l], degree_limit(l))
        removed == ns[id].neighbours[l] \ retained
    IN  [i \in DOMAIN ns |->
            IF i = id THEN [ns[i] EXCEPT !.neighbours[l] = retained]
            ELSE IF i \in removed THEN [ns[i] EXCEPT !.neighbours[l] = @ \ {id}]
            ELSE ns[i]]

Joined(ns, a, b, l) ==
    [ns EXCEPT ![a].neighbours[l] = @ \cup {b}, ![b].neighbours[l] = @ \cup {a}]

Link(ns, a, b, l) ==
    IF a = b THEN ns ELSE Prune(Prune(Joined(ns, a, b, l), a, l), b, l)

(***************************************************************************)
(* The backbone.                                                           *)
(***************************************************************************)
Connect(ns, a, b) ==
    [ns EXCEPT ![a].backbone = @ \cup {b}, ![b].backbone = @ \cup {a}]

Disconnect(ns, a, b) ==
    [ns EXCEPT ![a].backbone = @ \ {b}, ![b].backbone = @ \ {a}]

Least(S) == CHOOSE i \in S : \A j \in S : i <= j

\* A splice that leaves the edge it was to replace.
SpliceKeepingEdge(ns, id, anchor) ==
    LET joined == Connect(ns, anchor, id)
    IN  IF ns[anchor].backbone = {} THEN joined
        ELSE Connect(joined, id, Least(ns[anchor].backbone))

Splice(ns, id, anchor) ==
    LET around == ns[anchor].backbone
        successor == Least(around)
    IN  CASE around = {}              -> Connect(ns, id, anchor)
          [] Cardinality(around) = 1  -> Connect(Connect(ns, anchor, id), id, successor)
          [] OTHER                    ->
                Connect(Connect(Disconnect(ns, anchor, successor), anchor, id), id, successor)

\* The graph without a node: nobody links to it, and its two backbone neighbours,
\* when it has two, are joined past it.
Without(ns, id) ==
    LET around == ns[id].backbone
        Bypass(i) == IF i \in around /\ Cardinality(around) = 2 THEN around \ {i} ELSE {}
    IN  [i \in DOMAIN ns \ {id} |->
            [ns[i] EXCEPT !.neighbours = [l \in DOMAIN @ |-> @[l] \ {id}],
                          !.backbone = (@ \ {id}) \cup Bypass(i)]]

(***************************************************************************)
(* The entry point: the least identity of the highest level.               *)
(***************************************************************************)
HighestLevel(ns) ==
    IF DOMAIN ns = {} THEN 0
    ELSE CHOOSE l \in 0..TopLevel :
            /\ \E i \in DOMAIN ns : ns[i].level = l
            /\ \A i \in DOMAIN ns : ns[i].level <= l

SelectEntry(ns) ==
    IF DOMAIN ns = {} THEN None
    ELSE Least({i \in DOMAIN ns : ns[i].level = HighestLevel(ns)})

IsNewEntry(id, level) ==
    \/ entry_point = None
    \/ level > max_level
    \/ level = max_level /\ id < entry_point

(***************************************************************************)
(* Calls.                                                                  *)
(***************************************************************************)
NoSearch == [frontier |-> {}, visited |-> {}, results |-> {}]

Idle ==
    [op |-> None, id |-> None, vector |-> None, level |-> 0, k |-> 0,
     at |-> None, layer |-> 0, steps |-> 0, search |-> NoSearch, todo |-> {}]

\* The arguments of the query just answered and what it returned.
NoAnswer == [vector |-> None, k |-> 0, failed |-> FALSE, hits |-> <<>>]

Started(op) == [Idle EXCEPT !.op = op]

Return ==
    /\ pc' = "idle"
    /\ call' = Idle

Max2(a, b) == IF a >= b THEN a ELSE b

\* How much of a layer a call may visit: the construction budget, or query_beam.
Budget ==
    IF call.op = "query" THEN Max2(call.k, 8 * m_neighbours)
    ELSE Max2(ef_construction, m_neighbours)

\* A traversal of the base that follows pruned links alone.
AroundWithoutBackbone(i, layer) == nodes[i].neighbours[layer]

\* What a step of a traversal sees from a node: its links at the layer and, at the
\* base, its backbone.
Around(i, layer) ==
    nodes[i].neighbours[layer] \cup (IF layer = 0 THEN nodes[i].backbone ELSE {})

Init ==
    /\ distance \in VectorDistance
    /\ nodes = [i \in {} |-> None]
    /\ entry_point = None
    /\ max_level = 0
    /\ pc = "idle"
    /\ call = Idle
    /\ answer = NoAnswer

\* remove_node up to its links: the node goes, its neighbours are to be linked to each
\* other, and a new entry is selected when it was the entry.  The code bypasses it in
\* the backbone and selects the entry after the links; link reads neither.
RemoveNode(id) ==
    LET rest == Without(nodes, id)
    IN  /\ nodes' = rest
        /\ \/ /\ id = entry_point \/ DOMAIN rest = {}
              /\ max_level' = HighestLevel(rest)
              /\ entry_point' = SelectEntry(rest)
           \/ /\ id # entry_point /\ DOMAIN rest # {}
              /\ UNCHANGED <<entry_point, max_level>>

Relinks(id) ==
    {t \in Ids \X Ids \X (0..TopLevel) :
        /\ t[3] <= nodes[id].level
        /\ {t[1], t[2]} \subseteq nodes[id].neighbours[t[3]]
        /\ t[1] < t[2]}

Remove(id) ==
    /\ pc = "idle"
    /\ id \in DOMAIN nodes
    /\ RemoveNode(id)
    /\ pc' = "relink"
    /\ call' = [Started("remove") EXCEPT !.id = id, !.todo = Relinks(id)]
    /\ answer' = NoAnswer
    /\ UNCHANGED distance

Insert(id, v) ==
    /\ pc = "idle"
    /\ \/ /\ id \in DOMAIN nodes
          /\ RemoveNode(id)
          /\ pc' = "relink"
          /\ call' = [Started("insert") EXCEPT !.id = id, !.vector = v, !.todo = Relinks(id)]
       \/ /\ id \notin DOMAIN nodes
          /\ pc' = "add"
          /\ call' = [Started("insert") EXCEPT !.id = id, !.vector = v]
          /\ UNCHANGED graph
    /\ answer' = NoAnswer
    /\ UNCHANGED distance

\* link, for the next pair: of a removed node, level by level in the order of the
\* identities; of a new node, the closest candidate first.
IsNextLink(t) ==
    \A u \in call.todo \ {t} :
        IF pc = "relink"
        THEN \/ t[3] < u[3]
             \/ t[3] = u[3] /\ t[1] < u[1]
             \/ t[3] = u[3] /\ t[1] = u[1] /\ t[2] < u[2]
        ELSE Closer(nodes, call.vector, t[2], u[2])

LinkNext ==
    /\ pc \in {"relink", "link"}
    /\ \E t \in call.todo :
        /\ IsNextLink(t)
        /\ nodes' = Link(nodes, t[1], t[2], t[3])
        /\ call' = [call EXCEPT !.todo = @ \ {t}]
    /\ UNCHANGED <<distance, entry_point, max_level, pc, answer>>

Relinked ==
    /\ pc = "relink"
    /\ call.todo = {}
    /\ \/ call.op = "insert" /\ pc' = "add" /\ UNCHANGED call
       \/ call.op = "remove" /\ Return
    /\ UNCHANGED <<distance, graph, answer>>

SearchFrom(at) == [frontier |-> {at}, visited |-> {}, results |-> {}]

\* The next loop of a descent: a greedy walk above the level to search, a search there.
Descend(c, layer, floor) ==
    \/ /\ layer > floor
       /\ pc' = "greedy"
       /\ call' = [c EXCEPT !.layer = layer, !.steps = 0]
    \/ /\ layer <= floor
       /\ pc' = "search"
       /\ call' = [c EXCEPT !.layer = layer, !.search = SearchFrom(c.at)]

\* A node with no room for links at its top layer.
NewNodeShort(v, level) ==
    [vector |-> v, level |-> level, neighbours |-> [l \in 0..(level - 1) |-> {}], backbone |-> {}]

NewNode(v, level) ==
    [vector |-> v, level |-> level, neighbours |-> [l \in 0..level |-> {}], backbone |-> {}]

\* The rest of insert up to its loops: the node, spliced into the backbone at the entry.
AddNode ==
    /\ pc = "add"
    /\ \E level \in 0..TopLevel :
        LET id == call.id
            grown == [i \in DOMAIN nodes \cup {id} |->
                        IF i = id THEN NewNode(call.vector, level) ELSE nodes[i]]
        IN  \/ /\ entry_point = None
               /\ nodes' = grown
               /\ entry_point' = id
               /\ max_level' = level
               /\ Return
            \/ /\ entry_point # None
               /\ nodes' = Splice(grown, id, entry_point)
               /\ Descend([call EXCEPT !.level = level, !.at = entry_point], max_level, level)
               /\ UNCHANGED <<entry_point, max_level>>
    /\ UNCHANGED <<distance, answer>>

Query(v, k) ==
    /\ pc = "idle"
    /\ \/ /\ k = 0 \/ entry_point = None
          /\ answer' = [NoAnswer EXCEPT !.vector = v, !.k = k]
          /\ UNCHANGED <<pc, call>>
       \/ /\ k > 0 /\ entry_point # None
          /\ Descend([Started("query") EXCEPT !.vector = v, !.k = k, !.at = entry_point],
                     max_level, 0)
          /\ answer' = NoAnswer
    /\ UNCHANGED <<distance, graph>>

(***************************************************************************)
(* The loops.                                                              *)
(***************************************************************************)
\* consider_new_entry, at the end of insert.
FinishInsert ==
    /\ \/ /\ IsNewEntry(call.id, call.level)
          /\ entry_point' = call.id
          /\ max_level' = call.level
       \/ /\ ~ IsNewEntry(call.id, call.level)
          /\ UNCHANGED <<entry_point, max_level>>
    /\ Return
    /\ UNCHANGED nodes

\* greedy_at_level, one turn: move to the closest of the node and its neighbours; the
\* walk ends where no neighbour is closer or when its budget is spent.
Greedy ==
    /\ pc = "greedy"
    /\ \E next \in Closest(nodes, call.vector, {call.at} \cup Around(call.at, call.layer), 1) :
        \/ /\ next # call.at
           /\ call.steps + 1 < Budget
           /\ call' = [call EXCEPT !.at = next, !.steps = @ + 1]
           /\ UNCHANGED <<pc, graph>>
        \/ /\ next = call.at \/ call.steps + 1 >= Budget
           /\ \/ /\ call.layer > 0
                 /\ Descend([call EXCEPT !.at = next], call.layer - 1,
                            IF call.op = "query" THEN 0 ELSE call.level)
                 /\ UNCHANGED graph
              \/ /\ call.layer = 0
                 /\ FinishInsert
    /\ UNCHANGED <<distance, answer>>

\* The loop of search_layer goes on: something to visit, budget left, and not worse
\* than everything retained.
Worst(S) ==
    CHOOSE i \in S : \A j \in S : i = j \/ Closer(nodes, call.vector, j, i)

SearchGoesOn ==
    /\ call.search.frontier # {}
    /\ Cardinality(call.search.visited) < Budget
    /\ \E next \in Closest(nodes, call.vector, call.search.frontier, 1) :
        Cardinality(call.search.results) >= Budget =>
            Closer(nodes, call.vector, next, Worst(call.search.results))

\* A search that forgets which nodes it has visited.
SearchForgettingVisits ==
    /\ pc = "search"
    /\ SearchGoesOn
    /\ \E next \in Closest(nodes, call.vector, call.search.frontier, 1) :
        call' = [call EXCEPT !.search.frontier = (@ \ {next}) \cup Around(next, call.layer)]
    /\ UNCHANGED <<distance, graph, pc, answer>>

Search ==
    /\ pc = "search"
    /\ SearchGoesOn
    /\ \E next \in Closest(nodes, call.vector, call.search.frontier, 1) :
        LET visited == call.search.visited \cup {next}
        IN  call' = [call EXCEPT !.search =
                [frontier |-> ((@.frontier \ {next}) \cup Around(next, call.layer)) \ visited,
                 visited  |-> visited,
                 results  |-> Closest(nodes, call.vector, @.results \cup {next}, Budget)]]
    /\ UNCHANGED <<distance, graph, pc, answer>>

\* The candidates of a layer are found: the closest are to be linked to the new node.
Candidates ==
    /\ pc = "search"
    /\ ~ SearchGoesOn
    /\ call.op = "insert"
    /\ pc' = "link"
    /\ call' = [call EXCEPT
            !.search = NoSearch,
            !.todo = {<<call.id, c, call.layer>> :
                        c \in Closest(nodes, call.vector, call.search.results,
                                      degree_limit(call.layer))}]
    /\ UNCHANGED <<distance, graph, answer>>

Linked ==
    /\ pc = "link"
    /\ call.todo = {}
    /\ pc' = "greedy"
    /\ call' = [call EXCEPT !.steps = 0]
    /\ UNCHANGED <<distance, graph, answer>>

\* What a query returns for the nodes it has found: scores in the public domain, in the
\* order of total_cmp and then of the identities, the first k.  A score keeps the sign of
\* its distance, and so does one too small for the public domain, which is a zero.
Score(v, i) ==
    LET d == Distance(v, nodes[i].vector) IN Float(Negative(d), Size(d) \div Resolution)

Before(v, i, j) == Score(v, i) < Score(v, j) \/ (Score(v, i) = Score(v, j) /\ i < j)

Ranked(v, S, k) ==
    [p \in 1..(IF k < Cardinality(S) THEN k ELSE Cardinality(S)) |->
        CHOOSE i \in S : Cardinality({j \in S : Before(v, j, i)}) = p - 1]

\* A bound above alone: a score of minus infinity would be returned.
BoundedAbove(v, i) == Score(v, i) <= MaxScore

\* The score is finite: neither infinity.
Representable(v, i) == Size(Score(v, i)) <= MaxScore

\* The outcome of a query that found S: one distance that does not fit fails it.
Outcome(v, S, k) ==
    LET ok == \A i \in S : Representable(v, i)
    IN  [vector |-> v, k |-> k, failed |-> ~ ok, hits |-> IF ok THEN Ranked(v, S, k) ELSE <<>>]

Answer ==
    /\ pc = "search"
    /\ ~ SearchGoesOn
    /\ call.op = "query"
    /\ answer' = Outcome(call.vector, call.search.results, call.k)
    /\ Return
    /\ UNCHANGED <<distance, graph>>

Step == LinkNext \/ Relinked \/ AddNode \/ Greedy \/ Search \/ Candidates \/ Linked \/ Answer

Next ==
    \/ \E id \in Ids, v \in Vectors : Insert(id, v)
    \/ \E id \in Ids : Remove(id)
    \/ \E v \in Queries, k \in Answers : Query(v, k)
    \/ Step

Spec == Init /\ [][Next]_vars

(***************************************************************************)
(* Properties.                                                             *)
(***************************************************************************)
Node == [vector : Vectors, level : 0..TopLevel,
         neighbours : UNION {[0..l -> SUBSET Ids] : l \in 0..TopLevel},
         backbone : SUBSET Ids]

\* Type correctness of the index and of the locals of the call under way.
TypeOK ==
    /\ distance \in VectorDistance
    /\ DOMAIN nodes \subseteq Ids
    /\ \A i \in DOMAIN nodes :
        /\ nodes[i] \in Node
        /\ DOMAIN nodes[i].neighbours = 0..nodes[i].level
    /\ entry_point \in Ids \cup {None}
    /\ max_level \in 0..TopLevel
    /\ pc \in {"idle", "relink", "add", "greedy", "search", "link"}
    /\ call.op \in {"insert", "remove", "query", None}
    /\ call.todo \subseteq Ids \X Ids \X (0..TopLevel)

(***************************************************************************)
(* Links are between nodes the index holds, tall enough for the layer, and *)
(* each is stored at both ends: in every state, the ones between two calls *)
(* of link and prune included, since every loop indexes the node it finds  *)
(* behind a link without a check (engine.rs, `neighbours[level]').         *)
(***************************************************************************)
LinksReciprocal ==
    \A i \in DOMAIN nodes : \A l \in 0..nodes[i].level : \A j \in nodes[i].neighbours[l] :
        /\ j # i
        /\ j \in DOMAIN nodes
        /\ l <= nodes[j].level
        /\ i \in nodes[j].neighbours[l]

(***************************************************************************)
(* What try_from refuses when the index is read back from its bytes, in    *)
(* its order.                                                              *)
(***************************************************************************)
BackboneReach ==
    LET grow[n \in 0..Cardinality(DOMAIN nodes)] ==
            IF n = 0 THEN {Least(DOMAIN nodes)}
            ELSE grow[n - 1] \cup UNION {nodes[i].backbone : i \in grow[n - 1]}
    IN  grow[Cardinality(DOMAIN nodes)]

ExpectedDegree ==
    CASE Cardinality(DOMAIN nodes) = 1 -> 0
      [] Cardinality(DOMAIN nodes) = 2 -> 1
      [] OTHER -> 2

Reopens ==
    /\ entry_point = SelectEntry(nodes)
    /\ max_level = HighestLevel(nodes)
    /\ \A i \in DOMAIN nodes :
        /\ DOMAIN nodes[i].neighbours = 0..nodes[i].level
        /\ \A l \in 0..nodes[i].level : Cardinality(nodes[i].neighbours[l]) <= degree_limit(l)
        /\ \A j \in nodes[i].backbone :
            j # i /\ j \in DOMAIN nodes /\ i \in nodes[j].backbone
        /\ Cardinality(nodes[i].backbone) = ExpectedDegree
    /\ LinksReciprocal
    /\ DOMAIN nodes # {} => BackboneReach = DOMAIN nodes

(***************************************************************************)
(* Whatever was inserted, replaced and removed, the index is well typed,   *)
(* and the one an insert or a remove leaves is one that its own snapshot   *)
(* decoder accepts: canonical entry point, degree limits, links stored at  *)
(* both ends, and a backbone that is one cycle through every member.       *)
(***************************************************************************)
EveryGraphReopens == TypeOK /\ (pc = "idle" => Reopens)

(***************************************************************************)
(* A query over an index no larger than its beam returns exactly the k     *)
(* best members by public score, in the order of total_cmp, and identity:  *)
(* the traversal misses no member, whatever links were pruned, and a cut   *)
(* at k never depends on distances that the scores do not tell apart.  It  *)
(* fails exactly when the score of some member is not finite, of a         *)
(* distance too large or one too far below zero.                           *)
(***************************************************************************)
AnswersAreExact ==
    LET v == answer.vector
        hits == answer.hits
        found == {hits[p] : p \in DOMAIN hits}
    IN  answer # NoAnswer /\ answer.k > 0 /\ Cardinality(DOMAIN nodes) <= 8 * m_neighbours =>
        /\ answer.failed <=> \E i \in DOMAIN nodes : Size(Score(v, i)) > MaxScore
        /\ ~ answer.failed =>
            /\ found \subseteq DOMAIN nodes
            /\ Len(hits) = IF answer.k < Cardinality(DOMAIN nodes)
                           THEN answer.k ELSE Cardinality(DOMAIN nodes)
            /\ \A p, q \in DOMAIN hits : p < q => Before(v, hits[p], hits[q])
            /\ \A i \in DOMAIN nodes \ found, p \in DOMAIN hits : Before(v, hits[p], i)

(***************************************************************************)
(* Equal scores are ordered by ascending identity, as the contract of      *)
(* VectorIndex::query says of them (hnsw.rs).  Scores are equal when they  *)
(* are one number: the two zeros are.                                      *)
(***************************************************************************)
EqualScoresByIdentity ==
    \A p, q \in DOMAIN answer.hits :
        p < q /\ Number(Score(answer.vector, answer.hits[p]))
                    = Number(Score(answer.vector, answer.hits[q]))
            => answer.hits[p] < answer.hits[q]

(***************************************************************************)
(* What a call still has before it, the loops after this one first: the    *)
(* stage of the call, the layer, the loop at that layer, and its turns.    *)
(***************************************************************************)
Remaining ==
    CASE pc = "relink" -> <<3, 0, 0, Cardinality(call.todo)>>
      [] pc = "add"    -> <<2, 0, 0, 0>>
      [] pc = "search" -> <<1, call.layer, 3, Budget - Cardinality(call.search.visited)>>
      [] pc = "link"   -> <<1, call.layer, 2, Cardinality(call.todo)>>
      [] pc = "greedy" -> <<1, call.layer, 1, Budget - call.steps>>
      [] pc = "idle"   -> <<0, 0, 0, 0>>

Less(a, b) == \E n \in 1..4 : a[n] < b[n] /\ \A m \in 1..(n - 1) : a[m] = b[m]

(***************************************************************************)
(* Every call returns, over a graph full of cycles: each turn of each loop *)
(* leaves less to do, by what the loop has visited, its budget, the links  *)
(* left to make or the layers left to descend, and none of these is        *)
(* negative.  With no state in which a call is stuck (deadlock is          *)
(* checked), that is the end of it.                                        *)
(***************************************************************************)
TurnCounts ==
    pc # "idle" => Less(Remaining', Remaining) /\ \A n \in 1..4 : Remaining'[n] >= 0

\* Each turn of a loop of insert, remove and query leaves its call less to do.
TurnsCount == [][TurnCounts]_vars
==============================================================================
