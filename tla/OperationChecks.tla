--------------------------- MODULE OperationChecks ---------------------------
(***************************************************************************)
(* The checks of one lifecycle operation before any backend write          *)
(* (lifecycle/validate.rs): the stateless ones of CheckedOperation::check  *)
(* in their order, those of permit against the current record, and then    *)
(* the engine's own checks as the operation is applied.                    *)
(*                                                                         *)
(* Batches are lists here, in the order the caller wrote them and possibly *)
(* naming a member twice.  A consumer value is known by what the checks    *)
(* tell apart: whether the canonical encoder takes it, how deep its JSON   *)
(* nests and whether that JSON reads back as the same value.               *)
(***************************************************************************)
EXTENDS Integers, Sequences, FiniteSets, Functions

CONSTANTS
    Ids,            \* member identities, in their order
    NotAKey,        \* those that encode as neither a string nor an integer
    KeyMisread,     \* those a JSON object key reads back as another identity
    ValueMisread,   \* those a JSON value reads back as another identity
    Items,          \* batch members: [id, provenance, content]
    Values,         \* provenance and retention values: [canonical, depth, stable]
    Configs,        \* [family, dimension, m_neighbours, ef_construction, pipeline]
    Indexes,        \* index identities
    MaxBatch,       \* the longest list a caller sends
    MaxDepth        \* MAX_CONSUMER_JSON_DEPTH

ASSUME ChecksAssumption ==
    /\ Ids \subseteq Nat \ {0}
    /\ NotAKey \cup KeyMisread \cup ValueMisread \subseteq Ids
    /\ \A item \in Items :
        /\ item.id \in Ids /\ item.provenance \in Values
        /\ item.content.family \in {"Vector", "Fts"} /\ item.content.dimension \in Nat
    /\ \A value \in Values : value.depth \in Nat
    /\ \A config \in Configs : config.family \in {"Vector", "Fts"}
    /\ MaxBatch \in Nat /\ MaxDepth \in Nat

VARIABLES
    record,     \* the index's current record
    engine,     \* content by member of its active version
    table,      \* provenance by member of its active version
    op,         \* the operation being checked and applied
    outcome     \* the refusal of the call in progress, once it has one

vars == <<record, engine, table, op, outcome>>

(***************************************************************************)
(* Refusals: the error, the member or dimension it names, and the reason   *)
(* or expected family it gives.                                            *)
(***************************************************************************)
Refusal(kind, subject, detail) ==
    [kind |-> kind, subject |-> subject, detail |-> detail]

Accepted == Refusal("Accepted", 0, "")

\* The `?' after each check: the first refusal of a list of results.
First(results) ==
    LET refused == {i \in DOMAIN results : results[i] # Accepted}
    IN  IF refused = {} THEN Accepted
        ELSE results[CHOOSE i \in refused : \A j \in refused : i <= j]

\* try_for_each over a list.
ForEach(list, Check(_)) == First([i \in DOMAIN list |-> Check(list[i])])

\* The members in the order the caller listed them in.
MembersAsListed(members) == members

member_ids(members) == [i \in DOMAIN members |-> members[i].id]

\* The positions that sort before position i, by identity.  The code leaves the order
\* of equal identities open, and refuses them; here it is that of their positions.
Before(ids, i) ==
    {j \in DOMAIN ids : ids[j] < ids[i] \/ (ids[j] = ids[i] /\ j < i)}

\* The position that comes to stand at place k.
Position(ids, k) == CHOOSE i \in DOMAIN ids : Cardinality(Before(ids, i)) = k - 1

sorted_ids(ids) == [k \in DOMAIN ids |-> ids[Position(ids, k)]]

sorted_members(members) ==
    [k \in DOMAIN members |-> members[Position(member_ids(members), k)]]

\* The identity that stands twice in a sorted list, and each one's encodings.
check_member_identities(ids) ==
    LET IdentityRefusal(id) ==
            IF id \in NotAKey \cup KeyMisread \cup ValueMisread
            THEN Refusal("InvalidIdentifier", id,
                     IF id \in NotAKey THEN "encoding"
                     ELSE IF id \in KeyMisread THEN "json key" ELSE "json value")
            ELSE Accepted
        twice == {i \in 1 .. Len(ids) - 1 : ids[i] = ids[i + 1]}
    IN  IF twice # {}
        THEN Refusal("DuplicateMember",
                     ids[CHOOSE i \in twice : \A j \in twice : i <= j], "")
        ELSE ForEach(ids, IdentityRefusal)

(***************************************************************************)
(* The engines' own checks, which validation calls as well.                *)
(***************************************************************************)
check_config(config) ==
    IF 0 \in {config.dimension, config.m_neighbours, config.ef_construction}
    THEN Refusal("InvalidHnswConfig", 0, "") ELSE Accepted

require_simple_pipeline(config) ==
    IF config.pipeline # "Simple" THEN Refusal("NotYetImplemented", 0, "") ELSE Accepted

check_finite(content) ==
    IF content.finite THEN Accepted ELSE Refusal("InvalidVector", 0, "")

check_vector(config, content) ==
    First(<<check_config(config),
            IF content.dimension # config.dimension
            THEN Refusal("DimensionMismatch", content.dimension, "") ELSE Accepted,
            check_finite(content)>>)

\* A configuration taken as it comes.
ConfigUnchecked(config) == Accepted

check_index_config(config) ==
    IF config.family = "Vector" THEN check_config(config)
    ELSE require_simple_pipeline(config)

FamilyCheck(expected, content) ==
    IF content.family = expected THEN Accepted ELSE Refusal("FamilyMismatch", 0, expected)

\* check_content, and the engine's insert: they are one function in the code.
check_content(config, content) ==
    IF config.family # content.family THEN FamilyCheck(config.family, content)
    ELSE IF config.family = "Vector" THEN check_vector(config, content)
    ELSE require_simple_pipeline(config)

(***************************************************************************)
(* Checks of a whole sorted batch.                                         *)
(***************************************************************************)
check_finite_vectors(members) ==
    LET Finite(m) == IF m.content.family = "Vector" THEN check_finite(m.content) ELSE Accepted
    IN  ForEach(members, Finite)

check_single_family(members) ==
    LET Same(m) == FamilyCheck(members[1].content.family, m.content)
    IN  ForEach(members, Same)

\* A check that leaves the dimensions to the engine.
FamiliesOnly(config, members) ==
    LET Family(m) == FamilyCheck(config.family, m.content)
    IN  ForEach(members, Family)

check_members_fit(config, members) ==
    LET Family(m) == FamilyCheck(config.family, m.content)
        Content(m) == check_content(config, m.content)
    IN  First(<<ForEach(members, Family), ForEach(members, Content)>>)

\* A round trip that does not limit the depth.
RoundTripOfAnyDepth(value) ==
    IF ~ value.stable THEN Refusal("UnencodableOperation", 0, "misread") ELSE Accepted

json_round_trip(value) ==
    IF value.depth > MaxDepth THEN Refusal("UnencodableOperation", 0, "too deep")
    ELSE IF ~ value.stable THEN Refusal("UnencodableOperation", 0, "misread")
    ELSE Accepted

EmptyBatch(list) == IF list = <<>> THEN Refusal("EmptyBatch", 0, "") ELSE Accepted

(***************************************************************************)
(* CheckedOperation::check: the change, its digest, then what it stores.   *)
(***************************************************************************)
check_change(change) ==
    LET members == sorted_members(change.members)
    IN  CASE change.transition = "Create" -> check_index_config(change.config)
          [] change.transition = "Insert" ->
                First(<<EmptyBatch(change.members),
                        check_member_identities(member_ids(members)),
                        check_finite_vectors(members),
                        check_single_family(members)>>)
          [] change.transition = "Remove" ->
                First(<<EmptyBatch(change.ids),
                        check_member_identities(sorted_ids(change.ids))>>)
          [] change.transition = "Rebuild" ->
                First(<<check_member_identities(member_ids(members)),
                        check_finite_vectors(members),
                        check_index_config(change.config),
                        check_members_fit(change.config, members)>>)
          [] OTHER -> Accepted

\* The stored values of a change, in the order the checks and the digest visit them.
StoredValues(change) ==
    CASE change.transition \in {"Insert", "Rebuild"} ->
            LET members == sorted_members(change.members)
            IN  [i \in DOMAIN members |->
                    [of |-> members[i].id, value |-> members[i].provenance]]
      [] change.transition = "Destroy" -> <<[of |-> 0, value |-> change.retention]>>
      [] OTHER -> <<>>

\* operation_digest: the only refusal left is a value without a canonical encoding.
DigestRefusal(change) ==
    LET Canonical(v) == IF v.value.canonical THEN Accepted
                        ELSE Refusal("UnencodableOperation", 0, "no canonical encoding")
    IN  ForEach(StoredValues(change), Canonical)

check_stored_values(change) ==
    LET Stored(v) == [json_round_trip(v.value) EXCEPT
                        !.subject = IF json_round_trip(v.value) = Accepted THEN 0 ELSE v.of]
    IN  ForEach(StoredValues(change), Stored)

check(operation) ==
    First(<<check_change(operation.change), DigestRefusal(operation.change),
            check_stored_values(operation.change)>>)

(***************************************************************************)
(* CheckedOperation::permit.                                               *)
(***************************************************************************)
Absent == [state |-> "Absent"]
Active(index, config) == [state |-> "Active", identity |-> index, config |-> config]
Destroyed(current, retention) ==
    [state |-> "Destroyed", identity |-> current.identity, config |-> current.config,
     retention |-> retention]

is_permitted_from(transition, state) ==
    IF transition = "Create" THEN state = "Absent" ELSE state = "Active"

check_against_record(change, config) ==
    CASE change.transition = "Insert" ->
            check_members_fit(config, sorted_members(change.members))
      [] change.transition = "Rebuild" -> FamilyCheck(config.family, change.config)
      [] OTHER -> Accepted

permit(operation, current) ==
    IF current.state # "Absent" /\ current.identity # operation.index
    THEN Refusal("RecordMismatch", 0, "")
    ELSE IF ~ is_permitted_from(operation.change.transition, current.state)
         THEN Refusal("TransitionNotPermitted", 0, current.state)
    ELSE IF current.state = "Absent" THEN Accepted
    ELSE check_against_record(operation.change, current.config)

(***************************************************************************)
(* The engine a permitted change builds: every insert passes the engine's  *)
(* own check, and the first refusal ends the operation with nothing        *)
(* written.                                                                *)
(***************************************************************************)
Empty == [id \in {} |-> 0]

\* `over' with `field' of each listed member.
Written(over, members, Field(_)) ==
    [id \in DOMAIN over \cup {members[i].id : i \in DOMAIN members} |->
        IF \E i \in DOMAIN members : members[i].id = id
        THEN Field(members[CHOOSE i \in DOMAIN members : members[i].id = id])
        ELSE over[id]]

Without(over, ids) == [id \in DOMAIN over \ Range(ids) |-> over[id]]

EngineRefusal(config, members) ==
    LET Insert(m) == check_content(config, m.content) IN ForEach(members, Insert)

ContentOf(m) == m.content
ProvenanceOf(m) == m.provenance

Idle == [index |-> "none", change |-> [transition |-> "None"]]

Init ==
    /\ record = Absent
    /\ engine = Empty
    /\ table = Empty
    /\ op = Idle
    /\ outcome = Accepted

\* CheckedOperation::check, before anything is read.
Check(operation) ==
    /\ op = Idle
    /\ outcome = Accepted
    /\ op' = operation
    /\ outcome' = check(operation)
    /\ UNCHANGED <<record, engine, table>>

\* permit refuses what check accepted.
Forbid ==
    /\ op # Idle
    /\ outcome = Accepted
    /\ permit(op, record) # Accepted
    /\ outcome' = permit(op, record)
    /\ UNCHANGED <<record, engine, table, op>>

\* The caller has its refusal.
Return ==
    /\ outcome # Accepted
    /\ op' = Idle
    /\ outcome' = Accepted
    /\ UNCHANGED <<record, engine, table>>

Permitted(transition) ==
    /\ op.change.transition = transition
    /\ outcome = Accepted
    /\ permit(op, record) = Accepted

Publish(current, contents, provenances) ==
    /\ record' = current
    /\ engine' = contents
    /\ table' = provenances
    /\ op' = Idle
    /\ UNCHANGED outcome

\* The engine refuses a member: the operation ends and writes nothing.
EngineRefuses(refusal) ==
    /\ outcome' = [refusal EXCEPT !.detail = "engine"]
    /\ UNCHANGED <<record, engine, table, op>>

\* A create that takes the name of the index from the record, which has none.
CreateUnnamed ==
    /\ Permitted("Create")
    /\ Publish(Active("none", op.change.config), Empty, Empty)

Create ==
    /\ Permitted("Create")
    /\ Publish(Active(op.index, op.change.config), Empty, Empty)

Insert ==
    LET members == sorted_members(op.change.members)
        refusal == EngineRefusal(record.config, members)
    IN  /\ Permitted("Insert")
        /\ IF refusal = Accepted
           THEN Publish(record, Written(engine, members, ContentOf),
                        Written(table, members, ProvenanceOf))
           ELSE EngineRefuses(refusal)

\* A remove that leaves the members in the engine.
RemoveFromTableOnly ==
    /\ Permitted("Remove")
    /\ Publish(record, engine, Without(table, op.change.ids))

Remove ==
    /\ Permitted("Remove")
    /\ Publish(record, Without(engine, op.change.ids), Without(table, op.change.ids))

Rebuild ==
    LET members == sorted_members(op.change.members)
        refusal == EngineRefusal(op.change.config, members)
    IN  /\ Permitted("Rebuild")
        /\ IF refusal = Accepted
           THEN Publish(Active(record.identity, op.change.config),
                        Written(Empty, members, ContentOf),
                        Written(Empty, members, ProvenanceOf))
           ELSE EngineRefuses(refusal)

Destroy ==
    /\ Permitted("Destroy")
    /\ Publish(Destroyed(record, op.change.retention), Empty, Empty)

\* PublishedIndex::query_vector and query_text: the family, the engine's checks of
\* the query, and the provenance of whatever members the engine ranks.
Hits(ranked) ==
    IF ranked \subseteq DOMAIN table THEN Accepted ELSE Refusal("CorruptSnapshot", 0, "")

Query(content) ==
    /\ op = Idle
    /\ outcome = Accepted
    /\ record.state = "Active"
    /\ \E ranked \in SUBSET DOMAIN engine :
        outcome' = First(<<check_content(record.config, content), Hits(ranked)>>)
    /\ UNCHANGED <<record, engine, table, op>>

Lists(S) == UNION {[1 .. n -> S] : n \in 0 .. MaxBatch}

Changes ==
    [transition : {"Create"}, config : Configs]
    \cup [transition : {"Insert"}, members : Lists(Items)]
    \cup [transition : {"Remove"}, ids : Lists(Ids)]
    \cup [transition : {"Rebuild"}, config : Configs, members : Lists(Items)]
    \cup [transition : {"Destroy"}, retention : Values]

LifecycleOperation == [index : Indexes, change : Changes]

Next ==
    \/ \E operation \in LifecycleOperation : Check(operation)
    \/ Forbid \/ Return
    \/ Create \/ Insert \/ Remove \/ Rebuild \/ Destroy
    \/ \E item \in Items : Query(item.content)

Spec == Init /\ [][Next]_vars

(***************************************************************************)
(* Properties.                                                             *)
(***************************************************************************)
\* The current record and what its version holds.
TypeOK ==
    /\ record.state \in {"Absent", "Active", "Destroyed"}
    /\ record.state # "Absent" => record.identity \in Indexes /\ record.config \in Configs
    /\ DOMAIN engine \subseteq Ids /\ DOMAIN table \subseteq Ids
    /\ Range(table) \subseteq Values
    /\ outcome.subject \in Nat

\* A query of a published version never meets a ranked member without provenance,
\* through any sequence of changes: the engine and the member table are kept apart
\* and change together (PublishedIndex::hits).
HitsHaveProvenance == outcome.kind # "CorruptSnapshot"

\* The same change with its list in another order.
Relisted(change, order) ==
    CASE change.transition \in {"Insert", "Rebuild"} ->
            [change EXCEPT !.members = [i \in DOMAIN @ |-> @[order[i]]]]
      [] change.transition = "Remove" ->
            [change EXCEPT !.ids = [i \in DOMAIN @ |-> @[order[i]]]]
      [] OTHER -> change

Rearrangements(S) == {f \in [S -> S] : \A i, j \in S : f[i] = f[j] => i = j}

Orders(change) ==
    CASE change.transition \in {"Insert", "Rebuild"} -> Rearrangements(DOMAIN change.members)
      [] change.transition = "Remove" -> Rearrangements(DOMAIN change.ids)
      [] OTHER -> {<<>>}

\* Which refusal an operation meets, and the member it names, do not depend on
\* the order the caller listed its members in: neither in the stateless checks
\* nor against the current record (check and permit).
RefusalsIgnoreOrder ==
    op # Idle =>
        \A order \in Orders(op.change) :
            LET relisted == [op EXCEPT !.change = Relisted(@, order)]
            IN  /\ check(relisted) = check(op)
                /\ check(op) = Accepted => permit(relisted, record) = permit(op, record)

\* An operation that passed check and permit is not refused by the engine that
\* applies it, so nothing is refused halfway through a batch (check_content,
\* VersionEngine::insert).
ValidatedIsApplied == outcome.detail # "engine"

\* The levels at which serde_json stops reading, and how deep a version payload,
\* an operation record and a destroyed head wrap the value they store.
JsonReadLimit == 127
PayloadWrapping == 3
RecordWrapping == 5
HeadWrapping == 4

ReadsBack(value, wrapping) == value.stable /\ value.depth + wrapping <= JsonReadLimit

\* Whatever was published decodes again: members keep their identity as a key
\* and as a value of the stored JSON, and every provenance and retention value
\* reads back from the deepest record that stores it (check_stored_values).
StoredRecordsDecode ==
    /\ \A id \in DOMAIN table :
        /\ id \notin NotAKey \cup KeyMisread \cup ValueMisread
        /\ ReadsBack(table[id], PayloadWrapping)
        /\ ReadsBack(table[id], RecordWrapping)
    /\ record.state = "Destroyed" =>
        /\ ReadsBack(record.retention, HeadWrapping)
        /\ ReadsBack(record.retention, RecordWrapping)

\* A stored index can be searched and extended: its configuration is one the
\* engine takes, its content fits it, and a rebuild never changed its family.
EveryMemberFits ==
    record.state = "Active" =>
        /\ IF record.config.family = "Vector"
           THEN check_config(record.config) = Accepted
           ELSE require_simple_pipeline(record.config) = Accepted
        /\ \A id \in DOMAIN engine : check_content(record.config, engine[id]) = Accepted

\* What is published is well typed and fits its index's configuration, and everything
\* stored of it decodes again (check_index_config, decode_payload, decode_operation).
PublishedReadsBack == TypeOK /\ EveryMemberFits /\ StoredRecordsDecode
==============================================================================
