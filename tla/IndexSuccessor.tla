--------------------------- MODULE IndexSuccessor ---------------------------
(***************************************************************************)
(* What one lifecycle operation publishes: the permission table, the       *)
(* checks against the current record, and the successor version's engine   *)
(* and member table, head and audit record (lifecycle/operation.rs,        *)
(* validate.rs, apply.rs, record.rs and encoding.rs of heurema).           *)
(*                                                                         *)
(* The stored records are modelled by their fields, without the JSON that  *)
(* carries them.  Index identities, operation keys, member identities,     *)
(* provenance and retention references are opaque.  An operation digest is *)
(* SHA-256 over a canonical encoding of everything in the operation but    *)
(* its key; it is taken as injective, so the digest of an operation is its *)
(* content.  Batches are functions over member identities: the code sorts  *)
(* every batch and refuses duplicates before it looks at a member.         *)
(***************************************************************************)
EXTENDS Integers

CONSTANTS
    Indexes,        \* index identities: owner namespace and name
    Keys,           \* operation keys, chosen by the caller for idempotency
    Members,        \* member identities
    Provenances,    \* provenance references
    Retentions,     \* retention references
    Configs,        \* index configurations: [family, dimension, tuning]
    Contents,       \* member contents: [family, dimension, data]
    MaxVersion,     \* the largest version number (u64::MAX in the code)
    None            \* the absent value

ASSUME MaxVersionAssumption == MaxVersion \in Nat \ {0}

IndexVersion == 1 .. MaxVersion

Families == {"Vector", "Fts"}
Transitions == {"Create", "Insert", "Remove", "Rebuild", "Destroy"}
IndexStateKind == {"Absent", "Active", "Destroyed"}

(***************************************************************************)
(* An operation request.  `config' is set for Create and Rebuild, `items'  *)
(* for Insert and Rebuild, `ids' for Remove, `retention' for Destroy.      *)
(***************************************************************************)
IndexMember == [content : Contents, provenance : Provenances]

LifecycleOperation ==
    [index : Indexes, key : Keys, transition : Transitions,
     config : Configs \cup {None}, items : [Members -> IndexMember \cup {None}],
     ids : SUBSET Members, retention : Retentions \cup {None}]

Present(table) == {m \in Members : table[m] # None}

\* check_content: the other family, or a vector of another dimension.
ContentFits(config, content) ==
    /\ content.family = config.family
    /\ config.family = "Vector" => content.dimension = config.dimension

\* CheckedOperation::check: what holds of an operation before any backend call.
\* Configs and Contents hold only what check_config and check_finite accept.
Checked(op) ==
    /\ op.transition \in {"Create", "Rebuild"} => op.config # None
    /\ op.transition = "Insert" =>
          /\ Present(op.items) # {}
          /\ \A m, n \in Present(op.items) :
                op.items[m].content.family = op.items[n].content.family
    /\ op.transition = "Remove" => op.ids # {}
    /\ op.transition = "Rebuild" =>
          \A m \in Present(op.items) : ContentFits(op.config, op.items[m].content)

\* The key and digest that identify an operation.
OperationIdentity(op) ==
    [key |-> op.key,
     digest |-> [index |-> op.index, transition |-> op.transition,
                 config |-> op.config, items |-> op.items,
                 ids |-> op.ids, retention |-> op.retention]]

(***************************************************************************)
(* Stored records.  The head is an IndexRecord with its IndexState         *)
(* flattened into it; AbsentHead stands for no head record at all.         *)
(* `version' is the active version, or the last one of a destroyed index.  *)
(***************************************************************************)
AbsentHead ==
    [state |-> "Absent", version |-> 0, config |-> None, retention |-> None,
     operation |-> None]

ActiveHead(version, config) ==
    [state |-> "Active", version |-> version, config |-> config,
     retention |-> None, operation |-> None]

DestroyedHead(version, config, retention, key) ==
    [state |-> "Destroyed", version |-> version, config |-> config,
     retention |-> retention, operation |-> key]

\* The IndexState of a head, without the configuration beside it.
IndexState(head) ==
    [state |-> head.state, version |-> head.version, retention |-> head.retention,
     operation |-> head.operation]

MemberEntry(provenance, introduced, supersedes) ==
    [provenance |-> provenance, introduced |-> introduced,
     supersedes |-> supersedes]

VersionPayload(index, version, identity, config, engine, members) ==
    [index |-> index, version |-> version, predecessor |-> version - 1,
     operation |-> identity, config |-> config, engine |-> engine,
     members |-> members]

\* The marker names the operation; it says nothing of who staged it or when.
StagingMarker(op, version) ==
    [index |-> op.index, version |-> version,
     operation |-> OperationIdentity(op), transition |-> op.transition]

\* `from' is 0 for Create.
OperationRecord(op, from, resulting, previousConfig, changes) ==
    [index |-> op.index, operation |-> OperationIdentity(op),
     transition |-> op.transition, from |-> from, resulting |-> resulting,
     previousConfig |-> previousConfig, changes |-> changes]

(***************************************************************************)
(* The values those records take.                                          *)
(***************************************************************************)
OperationIdentities ==
    [key : Keys,
     digest : [index : Indexes, transition : Transitions, config : Configs \cup {None},
               items : [Members -> IndexMember \cup {None}], ids : SUBSET Members,
               retention : Retentions \cup {None}]]

IndexRecords ==
    [state : IndexStateKind, version : 0 .. MaxVersion, config : Configs \cup {None},
     retention : Retentions \cup {None}, operation : Keys \cup {None}]

IndexStates ==
    [state : IndexStateKind, version : 0 .. MaxVersion,
     retention : Retentions \cup {None}, operation : Keys \cup {None}]

MemberEntries ==
    [provenance : Provenances, introduced : IndexVersion,
     supersedes : IndexVersion \cup {None}]

Engines == [config : Configs, contents : [Members -> Contents \cup {None}]]

VersionPayloads ==
    [index : Indexes, version : IndexVersion, predecessor : 0 .. MaxVersion,
     operation : OperationIdentities, config : Configs, engine : Engines,
     members : [Members -> MemberEntries \cup {None}]]

StagingMarkers ==
    [index : Indexes, version : IndexVersion, operation : OperationIdentities,
     transition : Transitions]

MemberChanges ==
    [kind : {"Inserted", "Replaced", "Removed", "AbsentOnRemove", "Dropped", "Retired"},
     previous : MemberEntries \cup {None}]

OperationRecords ==
    [index : Indexes, operation : OperationIdentities, transition : Transitions,
     from : 0 .. MaxVersion, resulting : IndexStates,
     previousConfig : Configs \cup {None},
     changes : [Members -> MemberChanges \cup {None}]]

\* The refusals a call may end with (HeuremaError), None when it is not refused.
Refusals ==
    {"TransitionNotPermitted", "ContentMismatch", "OperationConflict", "HeadChanged",
     "StagedStateExists", "VersionStored", "OperationRecorded", "StagedStateMissing",
     "InvalidIdentifier", "CorruptSnapshot", "IndexNotFound", "Persistence"}

ASSUME NoneAssumption ==
    /\ None \notin LifecycleOperation /\ None \notin IndexMember
    /\ None \notin MemberEntries      /\ None \notin VersionPayloads
    /\ None \notin StagingMarkers     /\ None \notin OperationRecords
    /\ None \notin Refusals           /\ None \notin Contents
    /\ None \notin MemberChanges

(***************************************************************************)
(* Permission.                                                             *)
(***************************************************************************)
IsPermittedFrom(transition, state) ==
    IF transition = "Create" THEN state = "Absent" ELSE state = "Active"

CheckAgainstRecord(op, config) ==
    CASE op.transition = "Insert" ->
            \A m \in Present(op.items) : ContentFits(config, op.items[m].content)
      [] op.transition = "Rebuild" -> op.config.family = config.family
      [] OTHER -> TRUE

\* CheckedOperation::permit: the refusal of `op' under `head', or None.
PermitRefusal(op, head) ==
    IF ~ IsPermittedFrom(op.transition, head.state) THEN "TransitionNotPermitted"
    ELSE IF head.state # "Absent" /\ ~ CheckAgainstRecord(op, head.config)
         THEN "ContentMismatch"
    ELSE None

(***************************************************************************)
(* The successor version.  An engine is the configuration it was built     *)
(* under and the content it holds for each member.                         *)
(***************************************************************************)
EmptyEngine(config) == [config |-> config, contents |-> [m \in Members |-> None]]
EmptyTable == [m \in Members |-> None]
NoChanges == [m \in Members |-> None]

Inserted(engine, items) ==
    [engine EXCEPT !.contents =
        [m \in Members |-> IF items[m] # None THEN items[m].content ELSE @[m]]]

\* The entry a listed member gets at `target', linked to the one it replaces.
Written(item, target, previous) ==
    MemberEntry(item.provenance, target,
                IF previous # None THEN previous.introduced ELSE None)

WrittenChange(previous) ==
    [kind |-> IF previous # None THEN "Replaced" ELSE "Inserted",
     previous |-> previous]

Built(from, target, config, engine, members, changes, previousConfig) ==
    [from |-> from, target |-> target, config |-> config, engine |-> engine,
     members |-> members, changes |-> changes, previousConfig |-> previousConfig]

BuildCreate(op) ==
    Built(0, 1, op.config, EmptyEngine(op.config), EmptyTable, NoChanges, None)

\* A replaced member whose entry forgets the version it supersedes.
BuildInsertUnlinked(op, current) ==
    LET target == current.version + 1
    IN  Built(current.version, target, current.config,
              Inserted(current.engine, op.items),
              [m \in Members |->
                  IF op.items[m] # None THEN Written(op.items[m], target, None)
                                        ELSE current.members[m]],
              [m \in Members |->
                  IF op.items[m] # None THEN WrittenChange(None) ELSE None],
              None)

BuildInsert(op, current) ==
    LET target == current.version + 1
        old(m) == current.members[m]
    IN  Built(current.version, target, current.config,
              Inserted(current.engine, op.items),
              [m \in Members |->
                  IF op.items[m] # None THEN Written(op.items[m], target, old(m))
                                        ELSE old(m)],
              [m \in Members |->
                  IF op.items[m] # None THEN WrittenChange(old(m)) ELSE None],
              None)

\* A Remove that leaves no account of what it displaced.
BuildRemoveUnrecorded(op, current) ==
    LET without(table) == [m \in Members |-> IF m \in op.ids THEN None ELSE table[m]]
    IN  Built(current.version, current.version + 1, current.config,
              [current.engine EXCEPT !.contents = without(@)],
              without(current.members), NoChanges, None)

BuildRemove(op, current) ==
    LET old(m) == current.members[m]
        gone(m) == m \in op.ids /\ old(m) # None
    IN  Built(current.version, current.version + 1, current.config,
              [current.engine EXCEPT !.contents =
                  [m \in Members |-> IF gone(m) THEN None ELSE @[m]]],
              [m \in Members |-> IF gone(m) THEN None ELSE old(m)],
              [m \in Members |->
                  IF m \notin op.ids THEN None
                  ELSE [kind |-> IF gone(m) THEN "Removed" ELSE "AbsentOnRemove",
                        previous |-> old(m)]],
              None)

\* A Rebuild that starts from the active engine instead of an empty one.
BuildRebuildInPlace(op, current) ==
    Built(current.version, current.version + 1, op.config,
          [Inserted(current.engine, op.items) EXCEPT !.config = op.config],
          [m \in Members |->
              IF op.items[m] # None
              THEN Written(op.items[m], current.version + 1, current.members[m])
              ELSE current.members[m]],
          NoChanges, current.config)

BuildRebuild(op, current) ==
    LET target == current.version + 1
        old(m) == current.members[m]
    IN  Built(current.version, target, op.config,
              Inserted(EmptyEngine(op.config), op.items),
              [m \in Members |->
                  IF op.items[m] # None THEN Written(op.items[m], target, old(m))
                                        ELSE None],
              [m \in Members |->
                  IF op.items[m] # None THEN WrittenChange(old(m))
                  ELSE IF old(m) # None THEN [kind |-> "Dropped", previous |-> old(m)]
                  ELSE None],
              current.config)

BuiltVersion(op, current) ==
    CASE op.transition = "Create"  -> BuildCreate(op)
      [] op.transition = "Insert"  -> BuildInsert(op, current)
      [] op.transition = "Remove"  -> BuildRemove(op, current)
      [] op.transition = "Rebuild" -> BuildRebuild(op, current)

\* apply::published.
PublishedSuccessor(op, built) ==
    LET head == ActiveHead(built.target, built.config)
    IN  [head |-> head,
         record |-> OperationRecord(op, built.from, IndexState(head),
                                    built.previousConfig, built.changes),
         payload |-> VersionPayload(op.index, built.target, OperationIdentity(op),
                                    built.config, built.engine, built.members)]

\* A destroy that numbers a version of its own.
DestroySuccessorAdvancing(op, head, current) ==
    LET destroyed == DestroyedHead(current.version + 1, head.config, op.retention, op.key)
    IN  [head |-> destroyed,
         record |-> OperationRecord(op, current.version, IndexState(destroyed), None,
                                    NoChanges),
         payload |-> None]

\* apply::destroy: no payload, and a record that retires every member.
DestroySuccessor(op, head, current) ==
    LET destroyed == DestroyedHead(current.version, head.config, op.retention, op.key)
    IN  [head |-> destroyed,
         record |-> OperationRecord(op, current.version, IndexState(destroyed), None,
                        [m \in Members |->
                            IF current.members[m] # None
                            THEN [kind |-> "Retired", previous |-> current.members[m]]
                            ELSE None]),
         payload |-> None]

(***************************************************************************)
(* apply::successor, for an operation `head' permits; `current' is the     *)
(* payload of the active version, None when the index is absent.           *)
(***************************************************************************)
Successor(op, head, current) ==
    IF op.transition = "Destroy" THEN DestroySuccessor(op, head, current)
                                 ELSE PublishedSuccessor(op, BuiltVersion(op, current))

\* IndexVersion::successor of the active version has no number left.
VersionExhausted(op, head) ==
    op.transition \in {"Insert", "Remove", "Rebuild"} /\ head.version = MaxVersion

(***************************************************************************)
(* decode_payload: what a stored payload must satisfy to be read back as   *)
(* `version' of `index'.                                                   *)
(***************************************************************************)
DecodesAs(payload, index, version) ==
    /\ payload.engine.config = payload.config
    /\ Present(payload.engine.contents) = Present(payload.members)
    /\ payload.predecessor = payload.version - 1
    /\ \A m \in Present(payload.members) :
          LET entry == payload.members[m]
          IN  /\ entry.introduced <= payload.version
              /\ entry.supersedes # None => entry.supersedes < entry.introduced
    /\ payload.index = index
    /\ payload.version = version
=============================================================================
