---------------------------- MODULE MCLifecycle ----------------------------
(***************************************************************************)
(* Small instances of the lifecycle: one index, two members, one key  *)
(* per operation and one key asked for with two contents.                  *)
(***************************************************************************)
EXTENDS LifecycleSafety, TLC

CONSTANTS i1, m1, m2, p1, p2, r1

MCConfigs == {[family |-> "Vector", dimension |-> d, tuning |-> 0] : d \in {2, 3}}
Config(d) == [family |-> "Vector", dimension |-> d, tuning |-> 0]
Vec(d, x) == [family |-> "Vector", dimension |-> d, data |-> x]
MCContents == {Vec(d, x) : d \in {2, 3}, x \in {0, 1}}

NoItems == [m \in Members |-> None]
Item(d, x, p) == [content |-> Vec(d, x), provenance |-> p]

Request(i, k, transition) ==
    [index |-> i, key |-> k, transition |-> transition, config |-> None,
     items |-> NoItems, ids |-> {}, retention |-> None]

Create(i, k) == [Request(i, k, "Create") EXCEPT !.config = Config(2)]
Insert(i, k, items) == [Request(i, k, "Insert") EXCEPT !.items = items]
Remove(i, k, ids) == [Request(i, k, "Remove") EXCEPT !.ids = ids]
Rebuild(i, k, d, items) ==
    [Request(i, k, "Rebuild") EXCEPT !.config = Config(d), !.items = items]
Destroy(i, k) == [Request(i, k, "Destroy") EXCEPT !.retention = r1]

OneItem(p, x) == (m1 :> Item(2, x, p)) @@ NoItems

\* Create, an insert, the same key asked for with other content, and a destroy.
RetryOperations ==
    {Create(i1, "c"), Insert(i1, "a", OneItem(p1, 0)), Insert(i1, "a", OneItem(p2, 1)),
     Destroy(i1, "d")}

\* Writers that race each other for one version.
RaceOperations ==
    {Create(i1, "c"), Insert(i1, "a", OneItem(p1, 0)), Destroy(i1, "d")}

\* Every kind of change: insert, replace, remove with an absent member, rebuild.
HistoryOperations ==
    {Create(i1, "c"),
     Insert(i1, "a", OneItem(p1, 0)),
     Insert(i1, "b", (m1 :> Item(2, 1, p2)) @@ (m2 :> Item(2, 0, p2)) @@ NoItems),
     Remove(i1, "r", {m1, m2}),
     Rebuild(i1, "x", 3, (m2 :> Item(3, 1, p1)) @@ NoItems),
     Insert(i1, "y", (m1 :> Item(3, 0, p1)) @@ NoItems),
     Destroy(i1, "d")}

\* One operation and the same one asked for again by another writer.
FencingOperations == {Create(i1, "c")}

WriterSymmetry == Permutations(Writers)
=============================================================================
