--------------------------- MODULE LifecycleProofs ---------------------------
(***************************************************************************)
(* Proofs about LifecycleDriver, for every set of threads, operations,     *)
(* indexes and members, every bypassing thread and every bound: the store  *)
(* and its layout, then the published history of an index, then what one   *)
(* call may rely on while others run.                                      *)
(***************************************************************************)
EXTENDS LifecycleSafety, TLAPS

(***************************************************************************)
(* The store part of the inductive invariant.                              *)
(***************************************************************************)
\* A head that is not absent names a version and a configuration.
HeadOK(head) ==
    /\ head.state = "Absent" => head = AbsentHead
    /\ head.state # "Absent" => head.version \in IndexVersion /\ head.config \in Configs

StoreOK(d) ==
    /\ d \in StoreType
    /\ \A i \in Indexes : HeadOK(d.heads[i])
    /\ PayloadLayout(d)

\* What a write must be made of for its effect to keep StoreOK.
StageWriteOK(w) ==
    /\ w.index \in Indexes /\ w.version \in IndexVersion /\ w.key \in Keys
    /\ w.marker \in StagingMarkers /\ w.payload \in VersionPayloads
    /\ w.expectedHead.state # "Destroyed"
    /\ w.version = w.expectedHead.version + 1

PublishWriteOK(w) ==
    /\ w.index \in Indexes /\ w.version \in IndexVersion /\ w.key \in Keys
    /\ w.marker \in StagingMarkers /\ w.record \in OperationRecords
    /\ w.head \in IndexRecords /\ HeadOK(w.head)
    /\ w.head.state = "Active" /\ w.head.version = w.version

DestroyWriteOK(w) ==
    /\ w.index \in Indexes /\ w.key \in Keys /\ w.record \in OperationRecords
    /\ w.head \in IndexRecords /\ HeadOK(w.head)
    /\ w.head.state = "Destroyed"
    /\ w.versions = 1 .. w.expectedHead.version

(***************************************************************************)
(* A write that is not refused passed every check.                         *)
(***************************************************************************)
\* A stage the adapter did not refuse met the head it expected, no staged version, no
\* stored payload and no record under its key.
LEMMA StageChecks ==
    ASSUME NEW d, NEW w, StageRefusal(d, w) = None
    PROVE  /\ d.heads[w.index] = w.expectedHead
           /\ ~ HasStaged(d, w.index)
           /\ d.versions[w.index][w.version] = None
           /\ d.operations[w.index][w.key] = None
  BY NoneAssumption DEF Refusals, StageRefusal

\* A publish that was not refused met the head and the marker it expected, the payload
\* beside the marker, and no record under its key.
LEMMA PublishChecks ==
    ASSUME NEW d, NEW w, PublishRefusal(d, w) = None
    PROVE  /\ d.heads[w.index] = w.expectedHead
           /\ d.staging[w.index][w.version] = w.marker
           /\ d.versions[w.index][w.version] # None
           /\ d.operations[w.index][w.key] = None
  BY NoneAssumption DEF Refusals, PublishRefusal, CheckMarker

\* A destroy that was not refused met the head it expected, nothing staged, and no
\* record under its key.
LEMMA DestroyChecks ==
    ASSUME NEW d, NEW w, DestroyRefusal(d, w) = None
    PROVE  /\ d.heads[w.index] = w.expectedHead
           /\ ~ HasStaged(d, w.index)
           /\ d.operations[w.index][w.key] = None
  BY NoneAssumption DEF Refusals, DestroyRefusal

\* A quarantine that was not refused met the marker it was given, with a sequence
\* number left.
LEMMA QuarantineChecks ==
    ASSUME NEW d, NEW w, QuarantineRefusal(d, w) = None
    PROVE  /\ d.staging[w.index][w.version] = w.marker
           /\ ~ (NextSequence(d) > MaxSequence)
  BY NoneAssumption DEF Refusals, QuarantineRefusal, CheckMarker

(***************************************************************************)
(* Each write keeps the store.                                             *)
(***************************************************************************)
\* stage puts one payload and its marker just above the head of an index with none
\* staged.
LEMMA StageKeepsStore ==
    ASSUME NEW d, StoreOK(d), NEW w, StageWriteOK(w), StageRefusal(d, w) = None
    PROVE  StoreOK(StageEffect(d, w))
PROOF
  <1> DEFINE n == StageEffect(d, w)
  <1>1. /\ n.heads = d.heads
        /\ n.versions = [d.versions EXCEPT ![w.index][w.version] = w.payload]
        /\ n.staging = [d.staging EXCEPT ![w.index][w.version] = w.marker]
        /\ n.operations = d.operations
        /\ n.quarantine = d.quarantine
    BY DEF StageEffect, StoreOK, StoreType
  <1>2. n \in StoreType
    BY <1>1 DEF StageEffect, StoreOK, StoreType, StageWriteOK
  <1>3. PayloadLayout(n)
    BY <1>1, StageChecks, NoneAssumption
    DEF PayloadLayout, StoreOK, StoreType, StageWriteOK, HasStaged, IndexRecords
  <1>4. QED
    BY <1>1, <1>2, <1>3 DEF StoreOK

\* publish turns the one staged version into the published version the new head names.
LEMMA PublishKeepsStore ==
    ASSUME NEW d, StoreOK(d), NEW w, PublishWriteOK(w), PublishRefusal(d, w) = None
    PROVE  StoreOK(PublishEffect(d, w))
PROOF
  <1> DEFINE n == PublishEffect(d, w)
  <1>1. /\ n.heads = [d.heads EXCEPT ![w.index] = w.head]
        /\ n.versions = d.versions
        /\ n.staging = [d.staging EXCEPT ![w.index][w.version] = None]
        /\ n.operations = [d.operations EXCEPT ![w.index][w.key] = w.record]
        /\ n.quarantine = d.quarantine
    BY DEF PublishEffect, StoreOK, StoreType
  <1>2. n \in StoreType
    BY <1>1 DEF PublishEffect, StoreOK, StoreType, PublishWriteOK
  <1>3. \A i \in Indexes : HeadOK(n.heads[i])
    BY <1>1 DEF StoreOK, StoreType, PublishWriteOK
  <1>4. d.staging[w.index][w.version] # None
    BY PublishChecks, NoneAssumption DEF PublishWriteOK
  <1>5. /\ d.heads[w.index].version \in Nat
        /\ w.version = d.heads[w.index].version + 1
        /\ d.heads[w.index].state # "Destroyed"
    BY <1>4, MaxVersionAssumption
    DEF PayloadLayout, StoreOK, StoreType, PublishWriteOK, IndexRecords, IndexVersion
  <1>6. d.heads[w.index].state = "Absent" => d.heads[w.index].version = 0
    BY DEF StoreOK, HeadOK, AbsentHead, PublishWriteOK
  <1>7. PayloadLayout(n)
    BY <1>1, <1>4, <1>5, <1>6, MaxVersionAssumption
    DEF PayloadLayout, StoreOK, StoreType, PublishWriteOK, IndexRecords, IndexVersion,
        IndexStateKind
  <1>8. QED
    BY <1>2, <1>3, <1>7 DEF StoreOK

\* destroy removes every payload below the head it replaces, and no other is stored.
LEMMA DestroyKeepsStore ==
    ASSUME NEW d, StoreOK(d), NEW w, DestroyWriteOK(w), DestroyRefusal(d, w) = None
    PROVE  StoreOK(DestroyEffect(d, w))
PROOF
  <1> DEFINE n == DestroyEffect(d, w)
             kept == [v \in IndexVersion |->
                         IF v \in w.versions THEN None ELSE d.versions[w.index][v]]
  <1>1. /\ n.heads = [d.heads EXCEPT ![w.index] = w.head]
        /\ n.versions = [d.versions EXCEPT ![w.index] = kept]
        /\ n.staging = d.staging
        /\ n.operations = [d.operations EXCEPT ![w.index][w.key] = w.record]
        /\ n.quarantine = d.quarantine
    BY DEF DestroyEffect, StoreOK, StoreType, DestroyWriteOK
  <1>2. kept \in [IndexVersion -> VersionPayloads \cup {None}]
    BY DEF StoreOK, StoreType, DestroyWriteOK
  <1>3. n \in StoreType
    BY <1>1, <1>2 DEF DestroyEffect, StoreOK, StoreType, DestroyWriteOK
  <1>4. \A i \in Indexes : HeadOK(n.heads[i])
    BY <1>1 DEF StoreOK, StoreType, DestroyWriteOK
  <1>5. \A v \in IndexVersion : d.staging[w.index][v] = None
    BY DestroyChecks DEF HasStaged
  <1>6. \A v \in IndexVersion : kept[v] = None
    BY <1>5, DestroyChecks, MaxVersionAssumption
    DEF PayloadLayout, StoreOK, StoreType, DestroyWriteOK, IndexVersion, IndexRecords
  <1>7. PayloadLayout(n)
    BY <1>1, <1>5, <1>6 DEF PayloadLayout, StoreOK, StoreType, DestroyWriteOK
  <1>8. QED
    BY <1>3, <1>4, <1>7 DEF StoreOK

\* quarantine takes the staged payload away with its marker.
LEMMA QuarantineKeepsStore ==
    ASSUME NEW d, StoreOK(d), NEW w \in StagedEntries, QuarantineRefusal(d, w) = None
    PROVE  StoreOK(QuarantineEffect(d, w))
PROOF
  <1> DEFINE n == QuarantineEffect(d, w)
             entry == [sequence |-> NextSequence(d), index |-> w.index,
                       version |-> w.version, marker |-> w.marker,
                       payload |-> d.versions[w.index][w.version]]
  <1>1. /\ n.heads = d.heads
        /\ n.versions = [d.versions EXCEPT ![w.index][w.version] = None]
        /\ n.staging = [d.staging EXCEPT ![w.index][w.version] = None]
        /\ n.operations = d.operations
        /\ n.quarantine = Append(d.quarantine, entry)
    BY DEF QuarantineEffect, StoreOK, StoreType
  <1>2. /\ w.index \in Indexes /\ w.version \in IndexVersion /\ w.marker \in StagingMarkers
        /\ d.versions[w.index][w.version] \in VersionPayloads \cup {None}
    BY DEF StagedEntries, StoreOK, StoreType
  <1>3. NextSequence(d) \in 1 .. MaxSequence
    <2>1. d.quarantine \in Seq(QuarantinedEntries)
      BY DEF StoreOK, StoreType
    <2>2. CASE d.quarantine = <<>>
      BY <2>2, MaxSequenceAssumption DEF NextSequence
    <2>3. CASE d.quarantine # <<>>
      <3>1. d.quarantine[Len(d.quarantine)] \in QuarantinedEntries
        BY <2>1, <2>3
      <3>2. d.quarantine[Len(d.quarantine)].sequence \in 1 .. MaxSequence
        BY <3>1 DEF QuarantinedEntries
      <3>3. QED
        BY <2>3, <3>2, QuarantineChecks, MaxSequenceAssumption DEF NextSequence
    <2>4. QED
      BY <2>2, <2>3
  <1>4. entry \in QuarantinedEntries
    BY <1>2, <1>3 DEF QuarantinedEntries
  <1>5. n.quarantine \in Seq(QuarantinedEntries)
    BY <1>1, <1>4 DEF StoreOK, StoreType
  <1>6. n \in StoreType
    BY <1>1, <1>2, <1>5 DEF QuarantineEffect, StoreOK, StoreType
  <1>7. \A i \in Indexes : HeadOK(n.heads[i])
    BY <1>1 DEF StoreOK
  <1>8. d.staging[w.index][w.version] # None
    BY <1>2, QuarantineChecks, NoneAssumption
  <1>9. /\ d.heads[w.index].version \in Nat
        /\ w.version = d.heads[w.index].version + 1
    BY <1>2, <1>8, MaxVersionAssumption
    DEF PayloadLayout, StoreOK, StoreType, IndexRecords, IndexVersion
  <1>10. PayloadLayout(n)
    BY <1>1, <1>2, <1>9, MaxVersionAssumption
    DEF PayloadLayout, StoreOK, StoreType, IndexRecords, IndexVersion
  <1>11. QED
    BY <1>6, <1>7, <1>10 DEF StoreOK

(***************************************************************************)
(* What prepare built from what it read.                                   *)
(***************************************************************************)
Tables == [Members -> MemberEntries \cup {None}]
ChangeLists == [Members -> MemberChanges \cup {None}]

BuiltOK(built, from) ==
    /\ built.from = from /\ built.target = from + 1 /\ built.target \in IndexVersion
    /\ built.config \in Configs /\ built.engine \in Engines
    /\ built.members \in Tables /\ built.changes \in ChangeLists
    /\ built.previousConfig \in Configs \cup {None}

\* An engine that took a batch of members is an engine (VersionEngine::insert).
LEMMA InsertedTyped ==
    ASSUME NEW engine \in Engines, NEW items \in [Members -> IndexMember \cup {None}]
    PROVE  Inserted(engine, items) \in Engines
  BY NoneAssumption DEF Inserted, Engines, IndexMember

\* An empty engine is an engine under its configuration (VersionEngine::empty).
LEMMA EmptyEngineTyped ==
    ASSUME NEW config \in Configs PROVE EmptyEngine(config) \in Engines
  BY DEF EmptyEngine, Engines

\* The entry and the change apply::written makes for a member are well formed.
LEMMA WrittenTyped ==
    ASSUME NEW item \in IndexMember, NEW target \in IndexVersion,
           NEW previous \in MemberEntries \cup {None}
    PROVE  /\ Written(item, target, previous) \in MemberEntries
           /\ WrittenChange(previous) \in MemberChanges
  BY NoneAssumption
  DEF Written, WrittenChange, MemberEntry, MemberEntries, MemberChanges, IndexMember

\* insert, remove, rebuild and create of apply.rs build the version after the one they
\* start from.
LEMMA BuildTyped ==
    ASSUME NEW o \in Operations, o.transition # "Destroy",
           NEW current \in VersionPayloads \cup {None},
           o.transition # "Create" => current \in VersionPayloads /\ current.version < MaxVersion
    PROVE  BuiltOK(BuiltVersion(o, current),
                   IF o.transition = "Create" THEN 0 ELSE current.version)
PROOF
  <1>1. /\ o.transition \in Transitions /\ o.items \in [Members -> IndexMember \cup {None}]
        /\ o.transition \in {"Create", "Rebuild"} => o.config \in Configs
    BY OperationsAssumption DEF LifecycleOperation, Checked
  <1>2. CASE o.transition = "Create"
    <2>1. BuiltVersion(o, current) = BuildCreate(o)
      BY <1>2 DEF BuiltVersion
    <2>2. QED
      BY <1>1, <1>2, <2>1, EmptyEngineTyped, MaxVersionAssumption
      DEF BuildCreate, Built, BuiltOK, EmptyTable, NoChanges, Tables, ChangeLists, IndexVersion
  <1>3. ASSUME o.transition # "Create"
        PROVE  /\ current.version \in IndexVersion /\ current.version + 1 \in IndexVersion
               /\ current.config \in Configs /\ current.engine \in Engines
               /\ current.members \in Tables
               /\ \A m \in Members : current.members[m] \in MemberEntries \cup {None}
    BY <1>3, MaxVersionAssumption DEF VersionPayloads, IndexVersion, Tables
  <1>4. CASE o.transition = "Insert"
    <2>1. BuiltVersion(o, current) = BuildInsert(o, current)
      BY <1>4 DEF BuiltVersion
    <2>2. Inserted(current.engine, o.items) \in Engines
      BY <1>1, <1>3, <1>4, InsertedTyped
    <2>3. \A m \in Members : o.items[m] # None =>
             /\ Written(o.items[m], current.version + 1, current.members[m]) \in MemberEntries
             /\ WrittenChange(current.members[m]) \in MemberChanges
      BY <1>1, <1>3, <1>4, WrittenTyped
    <2>4. QED
      BY <1>3, <1>4, <2>1, <2>2, <2>3
      DEF BuildInsert, Built, BuiltOK, Tables, ChangeLists
  <1>5. CASE o.transition = "Remove"
    <2>1. BuiltVersion(o, current) = BuildRemove(o, current)
      BY <1>5 DEF BuiltVersion
    <2>2. [current.engine EXCEPT !.contents =
              [m \in Members |-> IF m \in o.ids /\ current.members[m] # None
                                 THEN None ELSE @[m]]] \in Engines
      BY <1>3, <1>5 DEF Engines
    <2>3. \A m \in Members :
             [kind |-> IF m \in o.ids /\ current.members[m] # None THEN "Removed"
                                                                  ELSE "AbsentOnRemove",
              previous |-> current.members[m]] \in MemberChanges
      BY <1>3, <1>5 DEF MemberChanges
    <2>4. QED
      BY <1>3, <1>5, <2>1, <2>2, <2>3
      DEF BuildRemove, Built, BuiltOK, Tables, ChangeLists
  <1>6. CASE o.transition = "Rebuild"
    <2>1. BuiltVersion(o, current) = BuildRebuild(o, current)
      BY <1>6 DEF BuiltVersion
    <2>2. Inserted(EmptyEngine(o.config), o.items) \in Engines
      BY <1>1, <1>6, InsertedTyped, EmptyEngineTyped
    <2>3. \A m \in Members : o.items[m] # None =>
             /\ Written(o.items[m], current.version + 1, current.members[m]) \in MemberEntries
             /\ WrittenChange(current.members[m]) \in MemberChanges
      BY <1>1, <1>3, <1>6, WrittenTyped
    <2>4. \A m \in Members :
             [kind |-> "Dropped", previous |-> current.members[m]] \in MemberChanges
      BY <1>3, <1>6 DEF MemberChanges
    <2>5. QED
      BY <1>1, <1>3, <1>6, <2>1, <2>2, <2>3, <2>4
      DEF BuildRebuild, Built, BuiltOK, Tables, ChangeLists
  <1>7. QED
    BY <1>1, <1>2, <1>4, <1>5, <1>6 DEF Transitions

\* What prepare knows when it returns Prepared.
Permitted(o, head, current) ==
    /\ o \in Operations
    /\ head \in IndexRecords /\ HeadOK(head)
    /\ current \in VersionPayloads \cup {None}
    /\ head.state = "Active" => current \in VersionPayloads /\ current.version = head.version
    /\ PermitRefusal(o, head) = None
    /\ ~ VersionExhausted(o, head)

\* What permit let pass: an operation in a state the permission table allows.
LEMMA PermittedState ==
    ASSUME NEW o, NEW head, NEW current, Permitted(o, head, current)
    PROVE  /\ o.transition = "Create" => head = AbsentHead
           /\ o.transition # "Create" => head.state = "Active"
  BY NoneAssumption
  DEF Permitted, PermitRefusal, IsPermittedFrom, Refusals, HeadOK

\* The key and digest of an operation, and the fields its writes take from it.
LEMMA OperationIdentityTyped ==
    ASSUME NEW o \in Operations
    PROVE  /\ OperationIdentity(o) \in OperationIdentities
           /\ o.index \in Indexes /\ o.key \in Keys /\ o.transition \in Transitions
           /\ o.retention \in Retentions \cup {None}
  BY OperationsAssumption DEF OperationIdentity, OperationIdentities, LifecycleOperation

\* The state in a head record is an index state.
LEMMA IndexStateTyped ==
    ASSUME NEW head \in IndexRecords
    PROVE  IndexState(head) \in IndexStates
  BY DEF IndexState, IndexStates, IndexRecords

\* The successor of a permitted operation other than destroy is the next version, and
\* its head names that version.
LEMMA VersionSuccessor ==
    ASSUME NEW o, NEW head, NEW current, Permitted(o, head, current),
           o.transition # "Destroy"
    PROVE  LET next == Successor(o, head, current)
           IN  /\ next.payload \in VersionPayloads
               /\ next.payload.version = head.version + 1
               /\ next.head \in IndexRecords /\ HeadOK(next.head)
               /\ next.head.state = "Active"
               /\ next.head.version = next.payload.version
               /\ next.record \in OperationRecords
               /\ head.state # "Destroyed"
PROOF
  <1> DEFINE built == BuiltVersion(o, current)
  <1>1. /\ o \in Operations
        /\ current \in VersionPayloads \cup {None}
        /\ o.transition \in Transitions
    BY OperationIdentityTyped DEF Permitted
  <1>2. o.transition # "Create" =>
           /\ current \in VersionPayloads /\ current.version = head.version
           /\ current.version < MaxVersion
    BY <1>1, PermittedState, MaxVersionAssumption
    DEF Permitted, VersionExhausted, Transitions, IndexVersion, VersionPayloads
  <1>3. o.transition = "Create" => head.version = 0
    BY PermittedState DEF AbsentHead
  <1>4. BuiltOK(built, head.version)
    BY <1>1, <1>2, <1>3, BuildTyped
  <1>5. head.version \in 0 .. MaxVersion
    BY DEF Permitted, IndexRecords
  <1>6. Successor(o, head, current) = PublishedSuccessor(o, built)
    BY DEF Successor
  <1>7. OperationIdentity(o) \in OperationIdentities /\ o.index \in Indexes
    BY <1>1, OperationIdentityTyped
  <1>8. ActiveHead(built.target, built.config) \in IndexRecords
    BY <1>4, MaxVersionAssumption
    DEF ActiveHead, IndexRecords, BuiltOK, IndexVersion, IndexStateKind
  <1>9. HeadOK(ActiveHead(built.target, built.config))
    BY <1>4 DEF ActiveHead, HeadOK, BuiltOK
  <1>10. VersionPayload(o.index, built.target, OperationIdentity(o), built.config,
                        built.engine, built.members) \in VersionPayloads
    BY <1>4, <1>5, <1>7, MaxVersionAssumption
    DEF VersionPayload, VersionPayloads, BuiltOK, Tables, IndexVersion
  <1>11. OperationRecord(o, built.from, IndexState(ActiveHead(built.target, built.config)),
                         built.previousConfig, built.changes) \in OperationRecords
    BY <1>1, <1>4, <1>5, <1>7, <1>8, IndexStateTyped
    DEF OperationRecord, OperationRecords, BuiltOK, ChangeLists
  <1>12. head.state # "Destroyed"
    BY PermittedState DEF AbsentHead
  <1>13. QED
    BY <1>4, <1>6, <1>8, <1>9, <1>10, <1>11, <1>12
    DEF PublishedSuccessor, BuiltOK, ActiveHead, VersionPayload

\* The successor of a permitted destroy keeps the last version and its configuration.
LEMMA DestroyedSuccessor ==
    ASSUME NEW o, NEW head, NEW current, Permitted(o, head, current),
           o.transition = "Destroy"
    PROVE  LET next == Successor(o, head, current)
           IN  /\ head.state = "Active"
               /\ next.head \in IndexRecords /\ HeadOK(next.head)
               /\ next.head.state = "Destroyed"
               /\ next.head.version = head.version
               /\ next.head.config = head.config
               /\ next.record \in OperationRecords
PROOF
  <1> DEFINE destroyed == DestroyedHead(current.version, head.config, o.retention, o.key)
             retired == [m \in Members |->
                            IF current.members[m] # None
                            THEN [kind |-> "Retired", previous |-> current.members[m]]
                            ELSE None]
  <1>1. /\ head.state = "Active" /\ o \in Operations
        /\ current \in VersionPayloads /\ current.version = head.version
        /\ head.version \in IndexVersion /\ head.config \in Configs
    BY PermittedState DEF Permitted, HeadOK
  <1>2. /\ OperationIdentity(o) \in OperationIdentities /\ o.index \in Indexes
        /\ o.key \in Keys /\ o.transition \in Transitions
        /\ o.retention \in Retentions \cup {None}
    BY <1>1, OperationIdentityTyped
  <1>3. destroyed \in IndexRecords /\ HeadOK(destroyed)
    BY <1>1, <1>2, MaxVersionAssumption
    DEF DestroyedHead, IndexRecords, HeadOK, IndexStateKind, IndexVersion
  <1>4. retired \in ChangeLists
    BY <1>1 DEF VersionPayloads, ChangeLists, MemberChanges
  <1>5. OperationRecord(o, current.version, IndexState(destroyed), None, retired)
           \in OperationRecords
    BY <1>1, <1>2, <1>3, <1>4, IndexStateTyped, MaxVersionAssumption
    DEF OperationRecord, OperationRecords, ChangeLists, IndexVersion
  <1>6. QED
    BY <1>1, <1>3, <1>5 DEF Successor, DestroySuccessor, DestroyedHead

(***************************************************************************)
(* The inductive invariant: every store is sound, and every thread is as   *)
(* far as its program counter says.                                        *)
(***************************************************************************)
StoresOK ==
    /\ StoreOK(db)
    /\ \A d \in onDisk : StoreOK(d)
    /\ poisoned \in BOOLEAN

ThreadsTyped ==
    /\ owner \in Threads \cup {None}
    /\ pc \in [Threads -> {"idle", "head", "replay", "payload", "recheck", "permit",
                           "prepared", "staged", "list", "quarantine", "done"}]
    /\ op \in [Threads -> Operations \cup {None}]
    /\ seenHead \in [Threads -> IndexRecords]
    /\ seenPayload \in [Threads -> VersionPayloads \cup {None}]
    /\ found \in [Threads -> StagedEntries \cup Reads \cup {None}]
    /\ result \in [Threads -> Outcomes \cup {None}]
    /\ intact \in [Threads -> BOOLEAN]

\* A payload a thread read is the one its head names.
PayloadOfHead(head, payload) ==
    head.state = "Active" => payload \in VersionPayloads /\ payload.version = head.version

WriterOK(p, o, head, payload) ==
    /\ p \in {"idle", "head", "replay", "payload", "recheck", "permit", "prepared",
              "staged", "done"}
    /\ p \notin {"idle", "done"} => o \in Operations
    /\ HeadOK(head)
    /\ p \in {"payload", "recheck"} => head.state = "Active"
    /\ p = "permit" => PayloadOfHead(head, payload)
    /\ p \in {"prepared", "staged"} => Permitted(o, head, payload)

ReaderOK(p, head, read) ==
    /\ p \in {"idle", "payload", "recheck", "done"}
    /\ HeadOK(head)
    /\ p \in {"payload", "recheck"} => head.state = "Active" /\ read \in Reads

RecovererOK(p, entry) ==
    /\ p \in {"idle", "list", "quarantine", "done"}
    /\ p = "quarantine" => entry \in StagedEntries

RolesOK ==
    /\ \A t \in Writers : WriterOK(pc[t], op[t], seenHead[t], seenPayload[t])
    /\ \A r \in Readers : ReaderOK(pc[r], seenHead[r], found[r])
    /\ \A q \in Recoverers : RecovererOK(pc[q], found[q])

Inv == StoresOK /\ ThreadsTyped /\ RolesOK

\* The inductive invariant is at least the type invariant.
LEMMA InvGivesTypeOK == Inv => TypeOK
  BY DEF Inv, StoresOK, StoreOK, ThreadsTyped, TypeOK

\* The inductive invariant is at least the layout of payloads.
LEMMA InvGivesLayout == Inv => PayloadsMatchHeads
  BY DEF Inv, StoresOK, StoreOK, PayloadsMatchHeads, Stores

(***************************************************************************)
(* The outcomes of a write keep the stores sound.                          *)
(***************************************************************************)
\* A batch that commits leaves its own store as the only one a reopen finds.
LEMMA CommitKeeps ==
    ASSUME StoresOK, NEW new, StoreOK(new), Commit(new) PROVE StoresOK'
  BY DEF StoresOK, Commit

\* A batch whose commit fails leaves the old store or its own.
LEMMA CommitFailsKeeps ==
    ASSUME StoresOK, NEW new, StoreOK(new), CommitFails(new) PROVE StoresOK'
  BY DEF StoresOK, CommitFails, CommitPoisons, CommitUnacknowledged

\* A write that fails before its batch leaves every store as it was.
LEMMA WriteFailsKeeps ==
    ASSUME StoresOK, WriteFails PROVE StoresOK'
  BY DEF StoresOK, WriteFails, WriteRefused, CommitLockPoisons, storeVars

\* A step that writes nothing keeps the stores sound.
LEMMA UnchangedKeeps ==
    ASSUME StoresOK, UNCHANGED storeVars PROVE StoresOK'
  BY DEF StoresOK, storeVars

(***************************************************************************)
(* A thread that ends or gives up its call is sound, and others are not    *)
(* touched.                                                                *)
(***************************************************************************)
\* Only `t' moved.
OnlyThread(t) ==
    \A u \in Threads \ {t} :
        /\ pc'[u] = pc[u] /\ op'[u] = op[u] /\ seenHead'[u] = seenHead[u]
        /\ seenPayload'[u] = seenPayload[u] /\ found'[u] = found[u]

\* When only one thread moved, a writer, its own state is all there is to show.
LEMMA WriterMoves ==
    ASSUME RolesOK, NEW t \in Writers, OnlyThread(t),
           WriterOK(pc'[t], op'[t], seenHead'[t], seenPayload'[t])
    PROVE  RolesOK'
  BY ThreadsAssumption DEF RolesOK, OnlyThread, Threads

\* The same for a reader.
LEMMA ReaderMoves ==
    ASSUME RolesOK, NEW r \in Readers, OnlyThread(r),
           ReaderOK(pc'[r], seenHead'[r], found'[r])
    PROVE  RolesOK'
  BY ThreadsAssumption DEF RolesOK, OnlyThread, Threads

\* The same for a recovery pass.
LEMMA RecovererMoves ==
    ASSUME RolesOK, NEW q \in Recoverers, OnlyThread(q), RecovererOK(pc'[q], found'[q])
    PROVE  RolesOK'
  BY ThreadsAssumption DEF RolesOK, OnlyThread, Threads

\* A call that ends, in success or refusal, leaves its thread sound.
LEMMA FinishKeeps ==
    ASSUME ThreadsTyped, RolesOK, NEW t \in Threads, NEW outcome \in Outcomes,
           Finish(t, outcome)
    PROVE  ThreadsTyped' /\ RolesOK'
PROOF
  <1>1. ThreadsTyped'
    BY DEF ThreadsTyped, Finish, Release
  <1>2. OnlyThread(t) /\ pc'[t] = "done" /\ UNCHANGED <<op, seenHead, seenPayload, found>>
    BY DEF ThreadsTyped, Finish, OnlyThread
  <1>3. CASE t \in Writers
    <2>1. WriterOK(pc'[t], op'[t], seenHead'[t], seenPayload'[t])
      BY <1>2, <1>3 DEF RolesOK, WriterOK
    <2>2. QED
      BY <1>1, <1>2, <1>3, <2>1, WriterMoves
  <1>4. CASE t \in Readers
    <2>1. ReaderOK(pc'[t], seenHead'[t], found'[t])
      BY <1>2, <1>4 DEF RolesOK, ReaderOK
    <2>2. QED
      BY <1>1, <1>2, <1>4, <2>1, ReaderMoves
  <1>5. CASE t \in Recoverers
    <2>1. RecovererOK(pc'[t], found'[t])
      BY <1>2, <1>5 DEF RolesOK, RecovererOK
    <2>2. QED
      BY <1>1, <1>2, <1>5, <2>1, RecovererMoves
  <1>6. QED
    BY <1>3, <1>4, <1>5 DEF Threads

\* No head at all is a sound head.
LEMMA AbsentHeadOK == AbsentHead \in IndexRecords /\ HeadOK(AbsentHead)
  BY MaxVersionAssumption DEF AbsentHead, IndexRecords, HeadOK, IndexStateKind

\* A thread back outside every call is sound.
LEMMA IdleKeeps ==
    ASSUME ThreadsTyped, RolesOK, NEW t \in Threads, Idle(t),
           owner' \in Threads \cup {None}
    PROVE  ThreadsTyped' /\ RolesOK'
PROOF
  <1>1. ThreadsTyped'
    BY AbsentHeadOK DEF ThreadsTyped, Idle
  <1>2. /\ OnlyThread(t) /\ pc'[t] = "idle" /\ seenHead'[t] = AbsentHead
    BY DEF ThreadsTyped, Idle, OnlyThread
  <1>3. CASE t \in Writers
    <2>1. WriterOK(pc'[t], op'[t], seenHead'[t], seenPayload'[t])
      BY <1>2, AbsentHeadOK DEF WriterOK
    <2>2. QED
      BY <1>1, <1>2, <1>3, <2>1, WriterMoves
  <1>4. CASE t \in Readers
    <2>1. ReaderOK(pc'[t], seenHead'[t], found'[t])
      BY <1>2, AbsentHeadOK DEF ReaderOK
    <2>2. QED
      BY <1>1, <1>2, <1>4, <2>1, ReaderMoves
  <1>5. CASE t \in Recoverers
    <2>1. RecovererOK(pc'[t], found'[t])
      BY <1>2 DEF RecovererOK
    <2>2. QED
      BY <1>1, <1>2, <1>5, <2>1, RecovererMoves
  <1>6. QED
    BY <1>3, <1>4, <1>5 DEF Threads

(***************************************************************************)
(* One lemma for each action of the driver.                                *)
(***************************************************************************)
\* read_head returns a sound head.
LEMMA HeadRead ==
    ASSUME Inv, NEW i \in Indexes
    PROVE  db.heads[i] \in IndexRecords /\ HeadOK(db.heads[i])
  BY DEF Inv, StoresOK, StoreOK, StoreType

\* prepare, up to the backend's writer.
LEMMA BeginPrepareKeeps ==
    ASSUME Inv, NEW t \in Writers, NEW operation \in Operations, BeginPrepare(t, operation)
    PROVE  Inv'
PROOF
  <1>1. StoresOK'
    BY UnchangedKeeps DEF Inv, BeginPrepare
  <1>2. ThreadsTyped'
    BY DEF Inv, ThreadsTyped, BeginPrepare, Acquire, Threads
  <1>3. OnlyThread(t)
    BY DEF Inv, ThreadsTyped, BeginPrepare, OnlyThread
  <1>4. /\ pc'[t] = "head" /\ op'[t] = operation
        /\ seenHead'[t] = seenHead[t] /\ seenPayload'[t] = seenPayload[t]
    BY DEF Inv, ThreadsTyped, BeginPrepare, Threads
  <1>5. WriterOK(pc'[t], op'[t], seenHead'[t], seenPayload'[t])
    BY <1>4 DEF Inv, RolesOK, WriterOK
  <1>6. QED
    BY <1>1, <1>2, <1>3, <1>5, WriterMoves DEF Inv

\* prepare's head read.
LEMMA ReadHeadKeeps ==
    ASSUME Inv, NEW t \in Writers, ReadHead(t)
    PROVE  Inv'
PROOF
  <1>1. StoresOK'
    BY UnchangedKeeps DEF Inv, ReadHead
  <1>2. op[t] \in Operations
    BY DEF Inv, RolesOK, WriterOK, ReadHead
  <1>3. db.heads[op[t].index] \in IndexRecords /\ HeadOK(db.heads[op[t].index])
    BY <1>2, HeadRead, OperationIdentityTyped
  <1>4. ThreadsTyped'
    BY <1>3 DEF Inv, ThreadsTyped, ReadHead
  <1>5. OnlyThread(t)
    BY DEF Inv, ThreadsTyped, ReadHead, OnlyThread
  <1>6. /\ pc'[t] = "replay" /\ op'[t] = op[t] /\ seenHead'[t] = db.heads[op[t].index]
    BY DEF Inv, ThreadsTyped, ReadHead, Threads
  <1>7. WriterOK(pc'[t], op'[t], seenHead'[t], seenPayload'[t])
    BY <1>2, <1>3, <1>6 DEF WriterOK
  <1>8. QED
    BY <1>1, <1>4, <1>5, <1>7, WriterMoves DEF Inv

\* A writer that goes on to a step it is ready for.
LEMMA ContinueKeeps ==
    ASSUME Inv, NEW t \in Writers, NEW next \in {"payload", "recheck", "permit", "prepared"},
           Continue(t, next), WriterOK(next, op[t], seenHead[t], seenPayload[t])
    PROVE  ThreadsTyped' /\ RolesOK'
PROOF
  <1>1. ThreadsTyped'
    BY DEF Inv, ThreadsTyped, Continue
  <1>2. OnlyThread(t) /\ pc'[t] = next /\ UNCHANGED <<op, seenHead, seenPayload>>
    BY DEF Inv, ThreadsTyped, Continue, OnlyThread, Threads
  <1>3. WriterOK(pc'[t], op'[t], seenHead'[t], seenPayload'[t])
    BY <1>2
  <1>4. QED
    BY <1>1, <1>2, <1>3, WriterMoves DEF Inv

\* prepare's replay lookup: a receipt, a conflict, or on to the active payload.
LEMMA ReplayKeeps ==
    ASSUME Inv, NEW t \in Writers, Replay(t)
    PROVE  Inv'
PROOF
  <1> DEFINE next == IF seenHead[t].state = "Active" THEN "payload" ELSE "permit"
  <1>1. StoresOK'
    BY UnchangedKeeps DEF Inv, Replay
  <1>2. t \in Threads
    BY DEF Threads
  <1>3. CASE Continue(t, next)
    <2>1. WriterOK(next, op[t], seenHead[t], seenPayload[t])
      BY DEF Inv, RolesOK, WriterOK, Replay, PayloadOfHead
    <2>2. next \in {"payload", "recheck", "permit", "prepared"}
      OBVIOUS
    <2>3. QED
      BY <1>1, <1>3, <2>1, <2>2, ContinueKeeps DEF Inv
  <1>4. CASE Finish(t, "Replayed") \/ Finish(t, "OperationConflict")
    <2>1. "Replayed" \in Outcomes /\ "OperationConflict" \in Outcomes
      BY DEF Outcomes, Refusals
    <2>2. QED
      BY <1>1, <1>2, <1>4, <2>1, FinishKeeps DEF Inv
  <1>5. QED
    BY <1>3, <1>4 DEF Replay

\* read_version returns a payload where one is stored.
LEMMA ReadPayloadTyped ==
    ASSUME Inv, NEW i \in Indexes, NEW v \in IndexVersion, db.versions[i][v] # None
    PROVE  db.versions[i][v] \in VersionPayloads
  BY DEF Inv, StoresOK, StoreOK, StoreType

\* active_payload, called by prepare.
LEMMA WriterReadPayloadKeeps ==
    ASSUME Inv, NEW t \in Writers, ReadPayload(t, "permit")
    PROVE  Inv'
PROOF
  <1> DEFINE payload == db.versions[IndexOf(t)][seenHead[t].version]
  <1>1. StoresOK'
    BY UnchangedKeeps DEF Inv, ReadPayload
  <1>2. t \in Threads
    BY DEF Threads
  <1>3. WriterOK("payload", op[t], seenHead[t], seenPayload[t])
    BY DEF Inv, RolesOK, ReadPayload
  <1>4. /\ op[t] \in Operations /\ HeadOK(seenHead[t]) /\ seenHead[t].state = "Active"
        /\ seenHead[t].version \in IndexVersion
    BY <1>3 DEF WriterOK, HeadOK
  <1>5. CASE Continue(t, "recheck")
    <2>1. WriterOK("recheck", op[t], seenHead[t], seenPayload[t])
      BY <1>3 DEF WriterOK
    <2>2. QED
      BY <1>1, <1>5, <2>1, ContinueKeeps DEF Inv
  <1>6. CASE Finish(t, "CorruptSnapshot")
    <2>1. "CorruptSnapshot" \in Outcomes
      BY DEF Outcomes, Refusals
    <2>2. QED
      BY <1>1, <1>2, <1>6, <2>1, FinishKeeps DEF Inv
  <1>7. CASE /\ payload # None
             /\ DecodesAs(payload, IndexOf(t), seenHead[t].version)
             /\ pc' = [pc EXCEPT ![t] = "permit"]
             /\ seenPayload' = [seenPayload EXCEPT ![t] = payload]
             /\ result' = [result EXCEPT ![t] = IF "permit" = "done" THEN "Found" ELSE @]
             /\ UNCHANGED <<owner, op, seenHead, found, intact>>
    <2>1. IndexOf(t) \in Indexes
      BY <1>4, OperationIdentityTyped DEF IndexOf
    <2>2. payload \in VersionPayloads /\ payload.version = seenHead[t].version
      BY <1>4, <1>7, <2>1, ReadPayloadTyped DEF DecodesAs
    <2>3. ThreadsTyped'
      BY <1>7, <2>2 DEF Inv, ThreadsTyped
    <2>4. OnlyThread(t)
      BY <1>7 DEF Inv, ThreadsTyped, OnlyThread
    <2>5. /\ pc'[t] = "permit" /\ op'[t] = op[t] /\ seenHead'[t] = seenHead[t]
          /\ seenPayload'[t] = payload
      BY <1>2, <1>7 DEF Inv, ThreadsTyped
    <2>6. WriterOK(pc'[t], op'[t], seenHead'[t], seenPayload'[t])
      BY <1>4, <2>2, <2>5 DEF WriterOK, PayloadOfHead
    <2>7. QED
      BY <1>1, <2>3, <2>4, <2>6, WriterMoves DEF Inv
  <1>8. QED
    BY <1>5, <1>6, <1>7 DEF ReadPayload

\* The second head read of active_payload.
LEMMA RecheckKeeps ==
    ASSUME Inv, NEW t \in Threads, NEW gone \in Outcomes, Recheck(t, gone)
    PROVE  Inv'
PROOF
  <1>1. StoresOK'
    BY UnchangedKeeps DEF Inv, Recheck
  <1>2. "CorruptSnapshot" \in Outcomes
    BY DEF Outcomes, Refusals
  <1>3. QED
    BY <1>1, <1>2, FinishKeeps DEF Inv, Recheck

\* permit, the staged-state check and the build: a writer that goes on is permitted.
LEMMA PermitKeeps ==
    ASSUME Inv, NEW t \in Writers, Permit(t)
    PROVE  Inv'
PROOF
  <1> DEFINE refusal == PermitRefusal(op[t], seenHead[t])
  <1>1. StoresOK'
    BY UnchangedKeeps DEF Inv, Permit
  <1>2. t \in Threads
    BY DEF Threads
  <1>3. refusal # None => refusal \in Outcomes
    BY DEF PermitRefusal, Outcomes, Refusals
  <1>4. "StagedStateExists" \in Outcomes /\ "InvalidIdentifier" \in Outcomes
    BY DEF Outcomes, Refusals
  <1>5. CASE \E outcome \in Outcomes : Finish(t, outcome)
    BY <1>1, <1>2, <1>5, FinishKeeps DEF Inv
  <1>6. CASE /\ refusal = None /\ ~ VersionExhausted(op[t], seenHead[t])
             /\ Continue(t, "prepared")
    <2>1. /\ seenHead[t] \in IndexRecords
          /\ seenPayload[t] \in VersionPayloads \cup {None}
      BY <1>2 DEF Inv, ThreadsTyped
    <2>2. WriterOK("permit", op[t], seenHead[t], seenPayload[t])
      BY DEF Inv, RolesOK, Permit
    <2>3. WriterOK("prepared", op[t], seenHead[t], seenPayload[t])
      BY <1>6, <2>1, <2>2 DEF WriterOK, Permitted, PayloadOfHead
    <2>4. QED
      BY <1>1, <1>6, <2>3, ContinueKeeps DEF Inv
  <1>7. QED
    BY <1>3, <1>4, <1>5, <1>6 DEF Permit

(***************************************************************************)
(* Stage and publish, whose writes come from what prepare built.           *)
(***************************************************************************)
\* What encode_plan hands to stage and publish names the version after the head that
\* prepare read.
LEMMA VersionWritesOK ==
    ASSUME NEW t, Permitted(op[t], seenHead[t], seenPayload[t]),
           op[t].transition # "Destroy"
    PROVE  StageWriteOK(StageWrite(t)) /\ PublishWriteOK(PublishWrite(t))
PROOF
  <1>1. op[t] \in Operations
    BY DEF Permitted
  <1>2. /\ Plan(t).payload \in VersionPayloads
        /\ Plan(t).payload.version = seenHead[t].version + 1
        /\ Plan(t).head \in IndexRecords /\ HeadOK(Plan(t).head)
        /\ Plan(t).head.state = "Active"
        /\ Plan(t).head.version = Plan(t).payload.version
        /\ Plan(t).record \in OperationRecords
        /\ seenHead[t].state # "Destroyed"
    BY VersionSuccessor DEF Plan
  <1>3. Plan(t).payload.version \in IndexVersion
    BY <1>2 DEF VersionPayloads
  <1>4. StagingMarker(op[t], Plan(t).payload.version) \in StagingMarkers
    BY <1>1, <1>3, OperationIdentityTyped DEF StagingMarker, StagingMarkers
  <1>5. op[t].index \in Indexes /\ op[t].key \in Keys
    BY <1>1, OperationIdentityTyped
  <1>6. QED
    BY <1>2, <1>3, <1>4, <1>5 DEF StageWriteOK, PublishWriteOK, StageWrite, PublishWrite

\* What encode_plan hands to destroy lists exactly the versions of the head it read.
LEMMA DestroyWritesOK ==
    ASSUME NEW t, Permitted(op[t], seenHead[t], seenPayload[t]),
           op[t].transition = "Destroy"
    PROVE  DestroyWriteOK(DestroyWrite(t))
PROOF
  <1>1. op[t].index \in Indexes /\ op[t].key \in Keys
    BY OperationIdentityTyped DEF Permitted
  <1>2. /\ Plan(t).head \in IndexRecords /\ HeadOK(Plan(t).head)
        /\ Plan(t).head.state = "Destroyed"
        /\ Plan(t).head.version = seenHead[t].version
        /\ Plan(t).record \in OperationRecords
    BY DestroyedSuccessor DEF Plan
  <1>3. QED
    BY <1>1, <1>2 DEF DestroyWriteOK, DestroyWrite

\* Prepared::stage, in every outcome.
LEMMA StageKeeps ==
    ASSUME Inv, NEW t \in Writers, Stage(t)
    PROVE  Inv'
PROOF
  <1> DEFINE refusal == StageRefusal(db, StageWrite(t))
             new == StageEffect(db, StageWrite(t))
  <1>1. t \in Threads /\ StoresOK /\ StoreOK(db) /\ ThreadsTyped /\ RolesOK
    BY DEF Threads, Inv, StoresOK
  <1>2. WriterOK("prepared", op[t], seenHead[t], seenPayload[t])
    BY DEF Inv, RolesOK, Stage
  <1>3. ASSUME Staged(t) PROVE ThreadsTyped' /\ RolesOK'
    <2>1. ThreadsTyped'
      BY <1>3 DEF Inv, ThreadsTyped, Staged
    <2>2. OnlyThread(t) /\ pc'[t] = "staged" /\ UNCHANGED <<op, seenHead, seenPayload>>
      BY <1>1, <1>3 DEF ThreadsTyped, Staged, OnlyThread
    <2>3. WriterOK(pc'[t], op'[t], seenHead'[t], seenPayload'[t])
      BY <1>2, <2>2 DEF WriterOK
    <2>4. QED
      BY <2>1, <2>2, <2>3, WriterMoves DEF Inv
  <1>4. refusal # None => refusal \in Outcomes
    BY DEF StageRefusal, Outcomes, Refusals
  <1>5. "Persistence" \in Outcomes
    BY DEF Outcomes, Refusals
  <1>6. CASE UNCHANGED storeVars /\ Staged(t)
    BY <1>1, <1>3, <1>6, UnchangedKeeps DEF Inv
  <1>7. CASE refusal # None /\ UNCHANGED storeVars /\ Finish(t, refusal)
    BY <1>1, <1>4, <1>7, UnchangedKeeps, FinishKeeps DEF Inv
  <1>8. CASE WriteFails /\ Finish(t, "Persistence")
    BY <1>1, <1>5, <1>8, WriteFailsKeeps, FinishKeeps DEF Inv
  <1>9. ASSUME op[t].transition # "Destroy", refusal = None PROVE StoreOK(new)
    <2>1. Permitted(op[t], seenHead[t], seenPayload[t])
      BY <1>2 DEF WriterOK
    <2>2. QED
      BY <1>1, <1>9, <2>1, VersionWritesOK, StageKeepsStore
  <1>10. CASE op[t].transition # "Destroy" /\ refusal = None /\ Commit(new) /\ Staged(t)
    BY <1>1, <1>3, <1>9, <1>10, CommitKeeps DEF Inv
  <1>11. CASE /\ op[t].transition # "Destroy" /\ refusal = None /\ CommitFails(new)
              /\ Finish(t, "Persistence")
    BY <1>1, <1>5, <1>9, <1>11, CommitFailsKeeps, FinishKeeps DEF Inv
  <1>12. QED
    BY <1>6, <1>7, <1>8, <1>10, <1>11 DEF Stage

\* Staged::publish, in every outcome.
LEMMA PublishKeeps ==
    ASSUME Inv, NEW t \in Writers, Publish(t)
    PROVE  Inv'
PROOF
  <1> DEFINE refusal == PublishRefusalOf(t)
             new == PublishEffectOf(t)
  <1>1. t \in Threads /\ StoresOK /\ StoreOK(db) /\ ThreadsTyped /\ RolesOK
    BY DEF Threads, Inv, StoresOK
  <1>2. Permitted(op[t], seenHead[t], seenPayload[t])
    BY DEF Inv, RolesOK, WriterOK, Publish
  <1>3. refusal # None => refusal \in Outcomes
    BY DEF PublishRefusalOf, PublishRefusal, DestroyRefusal, Outcomes, Refusals
  <1>4. "Persistence" \in Outcomes /\ "Published" \in Outcomes
    BY DEF Outcomes, Refusals
  <1>5. ASSUME refusal = None PROVE StoreOK(new)
    <2>1. CASE op[t].transition = "Destroy"
      BY <1>1, <1>2, <1>5, <2>1, DestroyWritesOK, DestroyKeepsStore
      DEF PublishRefusalOf, PublishEffectOf
    <2>2. CASE op[t].transition # "Destroy"
      BY <1>1, <1>2, <1>5, <2>2, VersionWritesOK, PublishKeepsStore
      DEF PublishRefusalOf, PublishEffectOf
    <2>3. QED
      BY <2>1, <2>2
  <1>6. CASE refusal # None /\ UNCHANGED storeVars /\ Finish(t, refusal)
    BY <1>1, <1>3, <1>6, UnchangedKeeps, FinishKeeps DEF Inv
  <1>7. CASE refusal = None /\ Commit(new) /\ Finish(t, "Published")
    BY <1>1, <1>4, <1>5, <1>7, CommitKeeps, FinishKeeps DEF Inv
  <1>8. CASE refusal = None /\ CommitFails(new) /\ Finish(t, "Persistence")
    BY <1>1, <1>4, <1>5, <1>8, CommitFailsKeeps, FinishKeeps DEF Inv
  <1>9. CASE WriteFails /\ Finish(t, "Persistence")
    BY <1>1, <1>4, <1>9, WriteFailsKeeps, FinishKeeps DEF Inv
  <1>10. QED
    BY <1>6, <1>7, <1>8, <1>9 DEF Publish

(***************************************************************************)
(* Readers, recovery passes, and the ends of calls.                        *)
(***************************************************************************)
\* index(): what it reads, and how it ends, keeps the invariant.
LEMMA BeginIndexKeeps ==
    ASSUME Inv, NEW r \in Readers, NEW i \in Indexes, BeginIndex(r, i)
    PROVE  Inv'
PROOF
  <1>1. StoresOK'
    BY UnchangedKeeps DEF Inv, BeginIndex
  <1>2. db.heads[i] \in IndexRecords /\ HeadOK(db.heads[i])
    BY HeadRead
  <1>3. [index |-> i] \in Reads /\ "IndexNotFound" \in Outcomes
    BY DEF Reads, Outcomes, Refusals
  <1>4. ThreadsTyped'
    BY <1>2, <1>3 DEF Inv, ThreadsTyped, BeginIndex
  <1>5. OnlyThread(r)
    BY DEF Inv, ThreadsTyped, BeginIndex, OnlyThread
  <1>6. /\ pc'[r] = "done" \/ (pc'[r] = "payload" /\ db.heads[i].state = "Active")
        /\ seenHead'[r] = db.heads[i] /\ found'[r] = [index |-> i]
    BY DEF Inv, ThreadsTyped, BeginIndex, Threads
  <1>7. ReaderOK(pc'[r], seenHead'[r], found'[r])
    BY <1>2, <1>3, <1>6 DEF ReaderOK
  <1>8. QED
    BY <1>1, <1>4, <1>5, <1>7, ReaderMoves DEF Inv

\* active_payload, called by a reader.
LEMMA ReaderReadPayloadKeeps ==
    ASSUME Inv, NEW r \in Readers, ReadPayload(r, "done")
    PROVE  Inv'
PROOF
  <1> DEFINE payload == db.versions[IndexOf(r)][seenHead[r].version]
  <1>1. StoresOK'
    BY UnchangedKeeps DEF Inv, ReadPayload
  <1>2. r \in Threads /\ r \notin Writers
    BY ThreadsAssumption DEF Threads
  <1>3. ReaderOK("payload", seenHead[r], found[r])
    BY DEF Inv, RolesOK, ReadPayload
  <1>4. /\ found[r] \in Reads /\ HeadOK(seenHead[r]) /\ seenHead[r].state = "Active"
        /\ seenHead[r].version \in IndexVersion
    BY <1>3 DEF ReaderOK, HeadOK
  <1>5. CASE Continue(r, "recheck")
    <2>1. ThreadsTyped'
      BY <1>5 DEF Inv, ThreadsTyped, Continue
    <2>2. OnlyThread(r) /\ pc'[r] = "recheck" /\ UNCHANGED <<seenHead, found>>
      BY <1>2, <1>5 DEF Inv, ThreadsTyped, Continue, OnlyThread
    <2>3. ReaderOK(pc'[r], seenHead'[r], found'[r])
      BY <1>4, <2>2 DEF ReaderOK
    <2>4. QED
      BY <1>1, <2>1, <2>2, <2>3, ReaderMoves DEF Inv
  <1>6. CASE Finish(r, "CorruptSnapshot")
    <2>1. "CorruptSnapshot" \in Outcomes
      BY DEF Outcomes, Refusals
    <2>2. QED
      BY <1>1, <1>2, <1>6, <2>1, FinishKeeps DEF Inv
  <1>7. CASE /\ payload # None
             /\ pc' = [pc EXCEPT ![r] = "done"]
             /\ seenPayload' = [seenPayload EXCEPT ![r] = payload]
             /\ result' = [result EXCEPT ![r] = IF "done" = "done" THEN "Found" ELSE @]
             /\ UNCHANGED <<owner, op, seenHead, found, intact>>
    <2>1. IndexOf(r) \in Indexes
      BY <1>2, <1>4 DEF IndexOf, Reads
    <2>2. payload \in VersionPayloads /\ "Found" \in Outcomes
      BY <1>4, <1>7, <2>1, ReadPayloadTyped DEF Outcomes
    <2>3. ThreadsTyped'
      BY <1>7, <2>2 DEF Inv, ThreadsTyped
    <2>4. OnlyThread(r) /\ pc'[r] = "done" /\ seenHead'[r] = seenHead[r]
      BY <1>2, <1>7 DEF Inv, ThreadsTyped, OnlyThread
    <2>5. ReaderOK(pc'[r], seenHead'[r], found'[r])
      BY <1>4, <2>4 DEF ReaderOK
    <2>6. QED
      BY <1>1, <2>3, <2>4, <2>5, ReaderMoves DEF Inv
  <1>8. QED
    BY <1>5, <1>6, <1>7 DEF ReadPayload

\* The start and the listing of a recovery pass.
LEMMA BeginRecoverKeeps ==
    ASSUME Inv, NEW q \in Recoverers, BeginRecover(q)
    PROVE  Inv'
PROOF
  <1>1. StoresOK'
    BY UnchangedKeeps DEF Inv, BeginRecover
  <1>2. ThreadsTyped'
    BY DEF Inv, ThreadsTyped, BeginRecover, Acquire, Threads
  <1>3. OnlyThread(q) /\ pc'[q] = "list"
    BY DEF Inv, ThreadsTyped, BeginRecover, OnlyThread, Threads
  <1>4. RecovererOK(pc'[q], found'[q])
    BY <1>3 DEF RecovererOK
  <1>5. QED
    BY <1>1, <1>2, <1>3, <1>4, RecovererMoves DEF Inv

\* list_staged hands a recovery pass an entry of the staging map.
LEMMA ListStagedKeeps ==
    ASSUME Inv, NEW q \in Recoverers, NEW i \in Indexes, NEW v \in IndexVersion,
           ListStaged(q, i, v)
    PROVE  Inv'
PROOF
  <1> DEFINE entry == [index |-> i, version |-> v, marker |-> db.staging[i][v]]
  <1>1. StoresOK'
    BY UnchangedKeeps DEF Inv, ListStaged
  <1>2. db.staging[i][v] \in StagingMarkers
    BY DEF Inv, StoresOK, StoreOK, StoreType, ListStaged
  <1>3. entry \in StagedEntries
    BY <1>2 DEF StagedEntries
  <1>4. ThreadsTyped'
    BY <1>3 DEF Inv, ThreadsTyped, ListStaged
  <1>5. OnlyThread(q) /\ pc'[q] = "quarantine" /\ found'[q] = entry
    BY DEF Inv, ThreadsTyped, ListStaged, OnlyThread, Threads
  <1>6. RecovererOK(pc'[q], found'[q])
    BY <1>3, <1>5 DEF RecovererOK
  <1>7. QED
    BY <1>1, <1>4, <1>5, <1>6, RecovererMoves DEF Inv

\* A recovery pass with nothing to do.
LEMMA NothingStagedKeeps ==
    ASSUME Inv, NEW q \in Recoverers, NothingStaged(q)
    PROVE  Inv'
PROOF
  <1>1. StoresOK'
    BY UnchangedKeeps DEF Inv, NothingStaged
  <1>2. "NothingStaged" \in Outcomes /\ q \in Threads
    BY DEF Outcomes, Threads
  <1>3. QED
    BY <1>1, <1>2, FinishKeeps DEF Inv, NothingStaged

\* Quarantine of the entry a pass listed, whether or not it is still there.
LEMMA QuarantineKeeps ==
    ASSUME Inv, NEW q \in Recoverers, Quarantine(q)
    PROVE  Inv'
PROOF
  <1> DEFINE refusal == QuarantineRefusal(db, found[q])
             new == QuarantineEffect(db, found[q])
             ended(outcome) ==
                 /\ pc' = [pc EXCEPT ![q] = "done"]
                 /\ result' = [result EXCEPT ![q] = outcome]
                 /\ Release(q)
                 /\ UNCHANGED <<op, seenHead, seenPayload, found>>
             moved == intact' = [t \in Threads |->
                          intact[t] /\ (t \in Writers => op[t].index # found[q].index)]
  <1>1. q \in Threads /\ StoresOK /\ StoreOK(db) /\ ThreadsTyped /\ RolesOK
    BY DEF Threads, Inv, StoresOK
  <1>2. found[q] \in StagedEntries
    BY DEF Inv, RolesOK, RecovererOK, Quarantine
  <1>3. refusal # None => refusal \in Outcomes
    BY DEF QuarantineRefusal, Outcomes, Refusals
  <1>4. "Quarantined" \in Outcomes /\ "Persistence" \in Outcomes
    BY DEF Outcomes, Refusals
  <1>5. ASSUME NEW outcome \in Outcomes, ended(outcome), intact' \in [Threads -> BOOLEAN]
        PROVE  ThreadsTyped' /\ RolesOK'
    <2>1. ThreadsTyped'
      BY <1>1, <1>5 DEF ThreadsTyped, Release
    <2>2. OnlyThread(q) /\ pc'[q] = "done"
      BY <1>1, <1>5 DEF ThreadsTyped, OnlyThread
    <2>3. RecovererOK(pc'[q], found'[q])
      BY <2>2 DEF RecovererOK
    <2>4. QED
      BY <1>1, <2>1, <2>2, <2>3, RecovererMoves
  <1>6. UNCHANGED intact \/ moved => intact' \in [Threads -> BOOLEAN]
    BY <1>1 DEF ThreadsTyped
  <1>7. refusal = None => StoreOK(new)
    BY <1>1, <1>2, QuarantineKeepsStore
  <1>8. CASE refusal # None /\ UNCHANGED <<storeVars, intact>> /\ ended(refusal)
    BY <1>1, <1>3, <1>5, <1>6, <1>8, UnchangedKeeps DEF Inv
  <1>9. CASE refusal = None /\ Commit(new) /\ moved /\ ended("Quarantined")
    BY <1>1, <1>4, <1>5, <1>6, <1>7, <1>9, CommitKeeps DEF Inv
  <1>10. CASE refusal = None /\ CommitFails(new) /\ moved /\ ended("Persistence")
    BY <1>1, <1>4, <1>5, <1>6, <1>7, <1>10, CommitFailsKeeps DEF Inv
  <1>11. CASE WriteFails /\ UNCHANGED intact /\ ended("Persistence")
    BY <1>1, <1>4, <1>5, <1>6, <1>11, WriteFailsKeeps DEF Inv
  <1>12. QED
    BY <1>8, <1>9, <1>10, <1>11 DEF Quarantine

\* A caller takes its result.
LEMMA ReturnKeeps ==
    ASSUME Inv, NEW t \in Threads, Return(t)
    PROVE  Inv'
PROOF
  <1>1. StoresOK' /\ owner' \in Threads \cup {None}
    BY UnchangedKeeps DEF Inv, ThreadsTyped, Return
  <1>2. QED
    BY <1>1, IdleKeeps DEF Inv, Return

\* An operation given up anywhere leaves nothing the others would trip over.
LEMMA AbandonKeeps ==
    ASSUME Inv, NEW t \in Threads, Abandon(t)
    PROVE  Inv'
PROOF
  <1>1. StoresOK' /\ owner' \in Threads \cup {None}
    BY UnchangedKeeps DEF Inv, ThreadsTyped, Abandon, Release
  <1>2. QED
    BY <1>1, IdleKeeps DEF Inv, Abandon

\* Threads outside every call are sound.
LEMMA IdleRoles ==
    ASSUME pc = [t \in Threads |-> "idle"], seenHead = [t \in Threads |-> AbsentHead]
    PROVE  RolesOK
  BY AbsentHeadOK DEF RolesOK, WriterOK, ReaderOK, RecovererOK, Threads

\* A process stop: whichever store the reopen finds is a sound one.
LEMMA RestartKeeps ==
    ASSUME Inv, Restart
    PROVE  Inv'
PROOF
  <1>1. StoresOK'
    BY DEF Inv, StoresOK, Restart, Reopen
  <1>2. ThreadsTyped'
    BY AbsentHeadOK DEF Inv, ThreadsTyped, Restart
  <1>3. RolesOK'
    BY AbsentHeadOK DEF RolesOK, WriterOK, ReaderOK, RecovererOK, Threads, Restart
  <1>4. QED
    BY <1>1, <1>2, <1>3 DEF Inv

\* A new backend and threads that have called nothing satisfy the invariant.
LEMMA InitInv == Init => Inv
PROOF
  <1> SUFFICES ASSUME Init PROVE Inv
    OBVIOUS
  <1>1. StoreOK(EmptyStore)
    BY AbsentHeadOK, MaxVersionAssumption
    DEF EmptyStore, StoreOK, StoreType, PayloadLayout, AbsentHead, IndexVersion
  <1>2. StoresOK
    BY <1>1 DEF StoresOK, Init, StoreInit
  <1>3. ThreadsTyped
    BY AbsentHeadOK DEF ThreadsTyped, Init
  <1>4. RolesOK
    BY IdleRoles DEF Init
  <1>5. QED
    BY <1>2, <1>3, <1>4 DEF Inv

\* Every step of every thread, and a process stop, keeps the invariant.
LEMMA NextKeepsInv == Inv /\ [Next]_vars => Inv'
PROOF
  <1> SUFFICES ASSUME Inv, [Next]_vars PROVE Inv'
    OBVIOUS
  <1>0. "HeadChanged" \in Outcomes /\ "IndexNotFound" \in Outcomes
    BY DEF Outcomes, Refusals
  <1>1. ASSUME NEW t \in Writers, WriterStep(t) PROVE Inv'
    <2>1. t \in Threads
      BY DEF Threads
    <2>2. QED
      BY <1>0, <1>1, <2>1, ReadHeadKeeps, ReplayKeeps, WriterReadPayloadKeeps, RecheckKeeps,
         PermitKeeps, StageKeeps, PublishKeeps, ReturnKeeps DEF WriterStep
  <1>2. ASSUME NEW t \in Writers, NEW operation \in Operations, BeginPrepare(t, operation)
        PROVE  Inv'
    BY <1>2, BeginPrepareKeeps
  <1>3. ASSUME NEW r \in Readers, ReaderStep(r) PROVE Inv'
    <2>1. r \in Threads
      BY DEF Threads
    <2>2. QED
      BY <1>0, <1>3, <2>1, ReaderReadPayloadKeeps, RecheckKeeps, ReturnKeeps DEF ReaderStep
  <1>4. ASSUME NEW r \in Readers, NEW i \in Indexes, BeginIndex(r, i) PROVE Inv'
    BY <1>4, BeginIndexKeeps
  <1>5. ASSUME NEW q \in Recoverers, RecovererStep(q) PROVE Inv'
    <2>1. q \in Threads
      BY DEF Threads
    <2>2. QED
      BY <1>5, <2>1, ListStagedKeeps, NothingStagedKeeps, QuarantineKeeps, ReturnKeeps
      DEF RecovererStep
  <1>6. ASSUME NEW q \in Recoverers, BeginRecover(q) PROVE Inv'
    BY <1>6, BeginRecoverKeeps
  <1>7. ASSUME NEW t \in Threads, Abandon(t) PROVE Inv'
    BY <1>7, AbandonKeeps
  <1>8. CASE Restart
    BY <1>8, RestartKeeps
  <1>9. CASE UNCHANGED vars
    BY <1>9 DEF Inv, StoresOK, ThreadsTyped, RolesOK, vars, storeVars, threadVars
  <1>10. QED
    BY <1>1, <1>2, <1>3, <1>4, <1>5, <1>6, <1>7, <1>8, <1>9 DEF Next

\* Every reachable state of the lifecycle satisfies the inductive invariant.
THEOREM Invariance == Spec => []Inv
PROOF
  <1>1. QED
    BY InitInv, NextKeepsInv, PTL DEF Spec

\* The store and the threads of driver.rs keep their types, whatever bypasses the writer
\* and whatever a reopen finds.
THEOREM TypeCorrect == Spec => []TypeOK
PROOF
  <1>1. QED
    BY Invariance, InvGivesTypeOK, PTL

\* In every store a read or a reopen may see, the payloads are exactly the published
\* versions of an active index and at most one staged version above its head: stage,
\* publish, destroy and quarantine never lose, overwrite or leak one, with any number
\* of writers and recovery passes bypassing the backend's writer.
THEOREM StoreLayout == Spec => []PayloadsMatchHeads
PROOF
  <1>1. QED
    BY Invariance, InvGivesLayout, PTL

(***************************************************************************)
(* Heads only advance.  A reopen may find a store that is one batch ahead  *)
(* of the one reads saw, so the invariant says how far: every head on disk *)
(* is one step from the head in memory, or the same.                       *)
(***************************************************************************)
DiskAhead == \A d \in onDisk : \A i \in Indexes : HeadStep(db.heads[i], d.heads[i])

Advance == \A i \in Indexes : HeadStep(db.heads[i], db'.heads[i])

\* Reads that leave the store alone advance nothing.
LEMMA UnchangedAdvances ==
    ASSUME DiskAhead, UNCHANGED storeVars PROVE Advance /\ DiskAhead'
  BY DEF DiskAhead, Advance, HeadStep, storeVars

\* A batch that moves the heads forward does so whether its commit is acknowledged,
\* lost, or fails half-way.
LEMMA CommitAdvances ==
    ASSUME DiskAhead, NEW new, \A i \in Indexes : HeadStep(db.heads[i], new.heads[i]),
           Commit(new) \/ CommitFails(new)
    PROVE  Advance /\ DiskAhead'
PROOF
  <1>1. CASE db' = new /\ onDisk' = {new}
    BY <1>1 DEF DiskAhead, Advance, HeadStep
  <1>2. CASE db' = db /\ onDisk' = {db, new}
    BY <1>2 DEF DiskAhead, Advance, HeadStep
  <1>3. QED
    BY <1>1, <1>2 DEF Commit, CommitFails, CommitPoisons, CommitUnacknowledged

\* A write that fails before its batch moves no head.
LEMMA WriteFailsAdvances ==
    ASSUME DiskAhead, WriteFails PROVE Advance /\ DiskAhead'
  BY UnchangedAdvances
  DEF WriteFails, WriteRefused, CommitLockPoisons, storeVars, DiskAhead, Advance, HeadStep

\* Stage and quarantine write no head.
LEMMA StageAdvances ==
    ASSUME Inv, DiskAhead, NEW t \in Writers, Stage(t)
    PROVE  Advance /\ DiskAhead'
PROOF
  <1> DEFINE new == StageEffect(db, StageWrite(t))
  <1>1. \A i \in Indexes : HeadStep(db.heads[i], new.heads[i])
    BY DEF Inv, StoresOK, StoreOK, StoreType, StageEffect, HeadStep
  <1>2. CASE UNCHANGED storeVars
    BY <1>2, UnchangedAdvances
  <1>3. CASE Commit(new) \/ CommitFails(new)
    BY <1>1, <1>3, CommitAdvances
  <1>4. CASE WriteFails
    BY <1>4, WriteFailsAdvances
  <1>5. QED
    BY <1>2, <1>3, <1>4 DEF Stage

\* quarantine writes no head.
LEMMA QuarantineAdvances ==
    ASSUME Inv, DiskAhead, NEW q \in Recoverers, Quarantine(q)
    PROVE  Advance /\ DiskAhead'
PROOF
  <1> DEFINE new == QuarantineEffect(db, found[q])
  <1>1. \A i \in Indexes : HeadStep(db.heads[i], new.heads[i])
    BY DEF Inv, StoresOK, StoreOK, StoreType, QuarantineEffect, HeadStep
  <1>2. CASE UNCHANGED storeVars
    BY <1>2, UnchangedAdvances
  <1>3. CASE Commit(new) \/ CommitFails(new)
    BY <1>1, <1>3, CommitAdvances
  <1>4. CASE WriteFails
    BY <1>4, WriteFailsAdvances
  <1>5. QED
    BY <1>2, <1>3, <1>4 DEF Quarantine

\* A publish replaces the very head its operation was built on.
LEMMA PublishAdvances ==
    ASSUME Inv, DiskAhead, NEW t \in Writers, Publish(t)
    PROVE  Advance /\ DiskAhead'
PROOF
  <1> DEFINE refusal == PublishRefusalOf(t)
             new == PublishEffectOf(t)
  <1>1. Permitted(op[t], seenHead[t], seenPayload[t])
    BY DEF Inv, RolesOK, WriterOK, Publish
  <1>2. op[t].index \in Indexes /\ db \in StoreType
    BY <1>1, OperationIdentityTyped DEF Permitted, Inv, StoresOK, StoreOK
  <1>3. ASSUME refusal = None PROVE \A i \in Indexes : HeadStep(db.heads[i], new.heads[i])
    <2>1. CASE op[t].transition = "Destroy"
      <3>1. db.heads[op[t].index] = seenHead[t]
        BY <1>3, <2>1, DestroyChecks DEF PublishRefusalOf, DestroyWrite
      <3>2. HeadStep(seenHead[t], Plan(t).head)
        BY <1>1, <2>1, DestroyedSuccessor DEF Plan, HeadStep
      <3>3. new.heads = [db.heads EXCEPT ![op[t].index] = Plan(t).head]
        BY <1>2, <2>1 DEF PublishEffectOf, DestroyEffect, DestroyWrite, StoreType
      <3>4. QED
        BY <1>2, <3>1, <3>2, <3>3 DEF StoreType, HeadStep
    <2>2. CASE op[t].transition # "Destroy"
      <3>1. db.heads[op[t].index] = seenHead[t]
        BY <1>3, <2>2, PublishChecks DEF PublishRefusalOf, PublishWrite
      <3>2. HeadStep(seenHead[t], Plan(t).head)
        BY <1>1, <2>2, VersionSuccessor DEF Plan, HeadStep
      <3>3. new.heads = [db.heads EXCEPT ![op[t].index] = Plan(t).head]
        BY <1>2, <2>2 DEF PublishEffectOf, PublishEffect, PublishWrite, StoreType
      <3>4. QED
        BY <1>2, <3>1, <3>2, <3>3 DEF StoreType, HeadStep
    <2>3. QED
      BY <2>1, <2>2
  <1>4. CASE UNCHANGED storeVars
    BY <1>4, UnchangedAdvances
  <1>5. CASE refusal = None /\ (Commit(new) \/ CommitFails(new))
    BY <1>3, <1>5, CommitAdvances
  <1>6. CASE WriteFails
    BY <1>6, WriteFailsAdvances
  <1>7. QED
    BY <1>4, <1>5, <1>6 DEF Publish

\* A reopen moves to a store on disk, which is not behind the one reads saw.
LEMMA RestartAdvances ==
    ASSUME DiskAhead, Restart PROVE Advance /\ DiskAhead'
  BY DEF DiskAhead, Advance, HeadStep, Restart, Reopen

\* Every step moves a head forward or leaves it, in memory and towards the disk.
LEMMA NextAdvances == Inv /\ DiskAhead /\ [Next]_vars => Advance /\ DiskAhead'
PROOF
  <1> SUFFICES ASSUME Inv, DiskAhead, [Next]_vars PROVE Advance /\ DiskAhead'
    OBVIOUS
  <1>1. ASSUME NEW t \in Writers, WriterStep(t) PROVE Advance /\ DiskAhead'
    <2>1. CASE Stage(t)
      BY <2>1, StageAdvances
    <2>2. CASE Publish(t)
      BY <2>2, PublishAdvances
    <2>3. CASE UNCHANGED storeVars
      BY <2>3, UnchangedAdvances
    <2>4. QED
      BY <1>1, <2>1, <2>2, <2>3
      DEF WriterStep, ReadHead, Replay, ReadPayload, Recheck, Permit, Return
  <1>2. ASSUME NEW q \in Recoverers, RecovererStep(q) PROVE Advance /\ DiskAhead'
    <2>1. CASE Quarantine(q)
      BY <2>1, QuarantineAdvances
    <2>2. CASE UNCHANGED storeVars
      BY <2>2, UnchangedAdvances
    <2>3. QED
      BY <1>2, <2>1, <2>2 DEF RecovererStep, ListStaged, NothingStaged, Return
  <1>3. CASE UNCHANGED storeVars
    BY <1>3, UnchangedAdvances
  <1>4. CASE Restart
    BY <1>4, RestartAdvances
  <1>5. CASE UNCHANGED vars
    BY <1>3, <1>5 DEF vars
  <1>6. QED
    BY <1>1, <1>2, <1>3, <1>4, <1>5
    DEF Next, BeginPrepare, ReaderStep, ReadPayload, Recheck, Return, BeginIndex,
        BeginRecover, Abandon

\* A head never returns to earlier bytes, through failed commits, lost acknowledgements
\* and reopens: what the order of prepare's reads (driver.rs) and every compare-and-set
\* of the adapters rest on.
THEOREM HeadsAdvance == Spec => HeadsOnlyAdvance
PROOF
  <1>1. Init => DiskAhead
    BY DEF Init, StoreInit, DiskAhead, HeadStep
  <1>2. Inv /\ DiskAhead /\ [Next]_vars => DiskAhead' /\ [Advance]_vars
    BY NextAdvances
  <1>3. QED
    BY <1>1, <1>2, Invariance, PTL DEF Spec, HeadsOnlyAdvance, Advance

(***************************************************************************)
(* What every committed batch of the lifecycle keeps, for every value of   *)
(* the constants and with any number of threads bypassing the writer.      *)
(*                                                                         *)
(* A step of the driver changes the store by one batch of one write, or by *)
(* a reopen that finds a store one batch ahead.  A batch is a relation     *)
(* between two stores: what was checked, and what was written.  The writes *)
(* come from what prepare read, so the proof first shows that a write that *)
(* passed its checks was built from the very head and payload the store    *)
(* holds at that moment, however long ago they were read.                  *)
(***************************************************************************)

(***************************************************************************)
(* Batches.                                                                *)
(***************************************************************************)
\* The payload of the active version, None when the index is not active.
ActivePayload(d, i) ==
    IF d.heads[i].state = "Active" THEN d.versions[i][d.heads[i].version] ELSE None

\* The successor of what the store holds, and the version it is numbered.
SuccessorIn(d, o) == Successor(o, d.heads[o.index], ActivePayload(d, o.index))
NextVersion(d, i) == d.heads[i].version + 1

PermittedIn(d, o) ==
    o \in Operations /\ Permitted(o, d.heads[o.index], ActivePayload(d, o.index))

StageBatch(d, n, o) ==
    LET i == o.index
        v == NextVersion(d, i)
    IN  /\ o.transition # "Destroy"
        /\ ~ HasStaged(d, i) /\ d.operations[i][o.key] = None
        /\ n.heads = d.heads
        /\ n.versions = [d.versions EXCEPT ![i][v] = SuccessorIn(d, o).payload]
        /\ n.staging = [d.staging EXCEPT ![i][v] = StagingMarker(o, v)]
        /\ n.operations = d.operations
        /\ n.quarantine = d.quarantine

PublishBatch(d, n, o) ==
    LET i == o.index
        v == NextVersion(d, i)
    IN  /\ o.transition # "Destroy"
        /\ d.staging[i][v] = StagingMarker(o, v) /\ d.operations[i][o.key] = None
        /\ n.heads = [d.heads EXCEPT ![i] = SuccessorIn(d, o).head]
        /\ n.versions = d.versions
        /\ n.staging = [d.staging EXCEPT ![i][v] = None]
        /\ n.operations = [d.operations EXCEPT ![i][o.key] = SuccessorIn(d, o).record]
        /\ n.quarantine = d.quarantine

DestroyBatch(d, n, o) ==
    LET i == o.index
    IN  /\ o.transition = "Destroy"
        /\ ~ HasStaged(d, i) /\ d.operations[i][o.key] = None
        /\ n.heads = [d.heads EXCEPT ![i] = SuccessorIn(d, o).head]
        /\ n.versions = [d.versions EXCEPT ![i] = [v \in IndexVersion |-> None]]
        /\ n.staging = d.staging
        /\ n.operations = [d.operations EXCEPT ![i][o.key] = SuccessorIn(d, o).record]
        /\ n.quarantine = d.quarantine

QuarantineBatch(d, n, i, v) ==
    /\ d.staging[i][v] # None
    /\ n.heads = d.heads
    /\ n.versions = [d.versions EXCEPT ![i][v] = None]
    /\ n.staging = [d.staging EXCEPT ![i][v] = None]
    /\ n.operations = d.operations
    /\ n.quarantine =
          Append(d.quarantine, [sequence |-> NextSequence(d), index |-> i, version |-> v,
                                marker |-> d.staging[i][v], payload |-> d.versions[i][v]])

Batch(d, n) ==
    \/ \E o \in Operations :
          /\ PermittedIn(d, o)
          /\ StageBatch(d, n, o) \/ PublishBatch(d, n, o) \/ DestroyBatch(d, n, o)
    \/ \E i \in Indexes, v \in IndexVersion : QuarantineBatch(d, n, i, v)

\* How a step may change what reads see and what a reopen may find.
Moves ==
    \/ UNCHANGED <<db, onDisk>>
    \/ Batch(db, db') /\ onDisk' = {db'}
    \/ db' = db /\ \A d \in onDisk' : d = db \/ Batch(db, d)
    \/ db' \in onDisk /\ onDisk' = {db'}

(***************************************************************************)
(* What a writer read is still so, or the head it read is gone for good.   *)
(***************************************************************************)
HeadPast(seen, head) ==
    \/ head = seen
    \/ head.version > seen.version
    \/ seen.state = "Active" /\ head.state = "Destroyed"

Sighted(d, p, i, seen, payload) ==
    /\ p \in {"replay", "payload", "recheck", "permit", "prepared", "staged"} =>
          HeadPast(seen, d.heads[i])
    /\ p \in {"permit", "prepared", "staged"} /\ seen.state = "Active" /\ d.heads[i] = seen =>
          d.versions[i][seen.version] = payload

SightOK == \A t \in Writers : Sighted(db, pc[t], op[t].index, seenHead[t], seenPayload[t])

(***************************************************************************)
(* What a batch keeps.                                                     *)
(***************************************************************************)
RecordsKept(d, n) ==
    \A i \in Indexes, k \in Keys :
        d.operations[i][k] # None => n.operations[i][k] = d.operations[i][k]

PublishedKept(d, n) ==
    \A i \in Indexes : \A v \in 1 .. d.heads[i].version :
        n.heads[i].state = "Active" => n.versions[i][v] = d.versions[i][v]

StagedKept(d, n) ==
    \A i \in Indexes, v \in IndexVersion :
        d.staging[i][v] # None /\ n.staging[i][v] # d.staging[i][v] =>
            \/ n.heads[i].version = v /\ n.versions[i][v] = d.versions[i][v]
            \/ \E m \in 1 .. Len(n.quarantine) :
                  /\ m > Len(d.quarantine)
                  /\ n.quarantine[m].marker = d.staging[i][v]
                  /\ n.quarantine[m].payload = d.versions[i][v]

Kept(d, n) ==
    /\ \A i \in Indexes : HeadStep(d.heads[i], n.heads[i])
    /\ RecordsKept(d, n) /\ PublishedKept(d, n) /\ StagedKept(d, n)

DiskKept == \A d \in onDisk : Kept(db, d)

(***************************************************************************)
(* Staged state.                                                           *)
(***************************************************************************)
\* A staged version is the successor some permitted operation, not yet on record, has
\* from what the store holds now.
StagedBy(d, i, v, o) ==
    /\ PermittedIn(d, o) /\ o.index = i /\ o.transition # "Destroy"
    /\ d.staging[i][v] = StagingMarker(o, v)
    /\ d.versions[i][v] = SuccessorIn(d, o).payload
    /\ d.operations[i][o.key] = None

StagedBuilt(d) ==
    \A i \in Indexes, v \in IndexVersion :
        d.staging[i][v] # None => \E o \in Operations : StagedBy(d, i, v, o)

QuarantineWhole(d) ==
    \A n \in 1 .. Len(d.quarantine) :
        LET entry == d.quarantine[n]
        IN  /\ entry.sequence = n
            /\ entry.payload # None
            /\ entry.payload.operation = entry.marker.operation

StagesOK(d) == StagedBuilt(d) /\ QuarantineWhole(d)

(***************************************************************************)
(* What prepare built, field by field.                                     *)
(***************************************************************************)
\* A permitted operation builds the version after the head's (apply.rs).
LEMMA BuiltFromHead ==
    ASSUME NEW o, NEW head, NEW current, Permitted(o, head, current),
           o.transition # "Destroy"
    PROVE  BuiltOK(BuiltVersion(o, current), head.version)
PROOF
  <1>1. o \in Operations /\ current \in VersionPayloads \cup {None}
        /\ o.transition \in Transitions
    BY OperationIdentityTyped DEF Permitted
  <1>2. o.transition # "Create" =>
           /\ current \in VersionPayloads /\ current.version = head.version
           /\ current.version < MaxVersion
    BY <1>1, PermittedState, MaxVersionAssumption
    DEF Permitted, VersionExhausted, Transitions, IndexVersion, VersionPayloads
  <1>3. o.transition = "Create" => head.version = 0
    BY PermittedState DEF AbsentHead
  <1>4. QED
    BY <1>1, <1>2, <1>3, BuildTyped

\* apply::published names the operation in payload and record, and the record goes from
\* the version prepare read to the one the head names.
LEMMA VersionParts ==
    ASSUME NEW o, NEW head, NEW current, Permitted(o, head, current),
           o.transition # "Destroy"
    PROVE  LET next == Successor(o, head, current)
           IN  /\ next.payload.index = o.index
               /\ next.payload.operation = OperationIdentity(o)
               /\ next.head = ActiveHead(head.version + 1, next.payload.config)
               /\ next.record.operation = OperationIdentity(o)
               /\ next.record.from = head.version
               /\ next.record.resulting = IndexState(next.head)
PROOF
  <1> DEFINE built == BuiltVersion(o, current)
  <1>1. built.from = head.version /\ built.target = head.version + 1
    BY BuiltFromHead DEF BuiltOK
  <1>2. Successor(o, head, current) = PublishedSuccessor(o, built)
    BY DEF Successor
  <1>3. QED
    BY <1>1, <1>2 DEF PublishedSuccessor, OperationRecord, VersionPayload, ActiveHead

\* apply::destroy keeps the last version and the configuration in the head, and its
\* record goes from that version.
LEMMA DestroyParts ==
    ASSUME NEW o, NEW head, NEW current, Permitted(o, head, current),
           o.transition = "Destroy"
    PROVE  LET next == Successor(o, head, current)
           IN  /\ next.head = DestroyedHead(head.version, head.config, o.retention, o.key)
               /\ next.record.operation = OperationIdentity(o)
               /\ next.record.from = head.version
               /\ next.record.resulting = IndexState(next.head)
PROOF
  <1>1. head.state = "Active" /\ current.version = head.version
    BY PermittedState DEF Permitted
  <1>2. QED
    BY <1>1 DEF Successor, DestroySuccessor, OperationRecord, DestroyedHead

\* The key and digest identify an operation: the digest is over everything but the key.
LEMMA IdentityInjective ==
    ASSUME NEW o \in Operations, NEW p \in Operations,
           OperationIdentity(o) = OperationIdentity(p)
    PROVE  o = p
PROOF
  <1>1. o \in LifecycleOperation /\ p \in LifecycleOperation
    BY OperationsAssumption
  <1>2. /\ o.key = p.key /\ o.index = p.index /\ o.transition = p.transition
        /\ o.config = p.config /\ o.items = p.items /\ o.ids = p.ids
        /\ o.retention = p.retention
    BY DEF OperationIdentity
  <1>3. QED
    BY <1>1, <1>2 DEF LifecycleOperation

(***************************************************************************)
(* The same, of the store the operation applies to.                        *)
(***************************************************************************)
\* Where the writes of a permitted operation go, and what they are.
LEMMA VersionIn ==
    ASSUME NEW d, StoreOK(d), NEW o, PermittedIn(d, o), o.transition # "Destroy"
    PROVE  LET next == SuccessorIn(d, o)
               i == o.index
               v == NextVersion(d, i)
           IN  /\ i \in Indexes /\ o.key \in Keys /\ v \in IndexVersion
               /\ d.heads[i].version \in Nat /\ d.heads[i].state # "Destroyed"
               /\ next.payload \in VersionPayloads
               /\ next.payload.version = v /\ next.payload.index = i
               /\ next.payload.operation = OperationIdentity(o)
               /\ next.head = ActiveHead(v, next.payload.config)
               /\ next.head.state = "Active" /\ next.head.version = v
               /\ next.record \in OperationRecords
               /\ next.record.operation = OperationIdentity(o)
               /\ next.record.from = d.heads[i].version
               /\ next.record.resulting = IndexState(next.head)
PROOF
  <1> DEFINE head == d.heads[o.index]
             current == ActivePayload(d, o.index)
  <1>1. /\ Permitted(o, head, current) /\ o \in Operations
        /\ SuccessorIn(d, o) = Successor(o, head, current)
        /\ NextVersion(d, o.index) = head.version + 1
    BY DEF PermittedIn, SuccessorIn, NextVersion
  <1>2. o.index \in Indexes /\ o.key \in Keys
    BY <1>1, OperationIdentityTyped
  <1>3. head.version \in Nat
    BY <1>1, MaxVersionAssumption DEF Permitted, IndexRecords
  <1> HIDE DEF head, current
  <1>4. LET next == Successor(o, head, current)
        IN  /\ next.payload \in VersionPayloads
            /\ next.payload.version = head.version + 1
            /\ next.head.state = "Active"
            /\ next.head.version = next.payload.version
            /\ next.record \in OperationRecords
            /\ head.state # "Destroyed"
    BY <1>1, VersionSuccessor
  <1>5. head.version + 1 \in IndexVersion
    BY <1>4 DEF VersionPayloads
  <1>6. QED
    BY <1>1, <1>2, <1>3, <1>4, <1>5, VersionParts DEF head

\* The same for a destroy.
LEMMA DestroyIn ==
    ASSUME NEW d, StoreOK(d), NEW o, PermittedIn(d, o), o.transition = "Destroy"
    PROVE  LET next == SuccessorIn(d, o)
               head == d.heads[o.index]
           IN  /\ o.index \in Indexes /\ o.key \in Keys
               /\ head.state = "Active" /\ head.version \in IndexVersion
               /\ next.head = DestroyedHead(head.version, head.config, o.retention, o.key)
               /\ next.head.state = "Destroyed" /\ next.head.version = head.version
               /\ next.head.config = head.config
               /\ next.record \in OperationRecords
               /\ next.record.operation = OperationIdentity(o)
               /\ next.record.from = head.version
               /\ next.record.resulting = IndexState(next.head)
PROOF
  <1> DEFINE head == d.heads[o.index]
             current == ActivePayload(d, o.index)
  <1>1. /\ Permitted(o, head, current) /\ o \in Operations /\ HeadOK(head)
        /\ SuccessorIn(d, o) = Successor(o, head, current)
    BY DEF PermittedIn, SuccessorIn, Permitted
  <1>2. o.index \in Indexes /\ o.key \in Keys
    BY <1>1, OperationIdentityTyped
  <1> HIDE DEF head, current
  <1>3. LET next == Successor(o, head, current)
        IN  /\ head.state = "Active"
            /\ next.head.state = "Destroyed" /\ next.head.version = head.version
            /\ next.head.config = head.config /\ next.record \in OperationRecords
    BY <1>1, DestroyedSuccessor
  <1>4. head.version \in IndexVersion
    BY <1>1, <1>3 DEF HeadOK
  <1>5. QED
    BY <1>1, <1>2, <1>3, <1>4, DestroyParts DEF head

(***************************************************************************)
(* Every step moves the stores by a batch or a reopen.                     *)
(***************************************************************************)
\* A head that was read and is still the head is the head the writes were built on, and
\* the payload that was read is still the one it names: what Prepared holds is what the
\* store, as it is now, would give.
LEMMA PlanIsSuccessor ==
    ASSUME Inv, SightOK, NEW t \in Writers, pc[t] \in {"prepared", "staged"},
           db.heads[op[t].index] = seenHead[t]
    PROVE  PermittedIn(db, op[t]) /\ SuccessorIn(db, op[t]) = Plan(t)
PROOF
  <1> DEFINE o == op[t]
             head == seenHead[t]
             current == seenPayload[t]
             active == ActivePayload(db, o.index)
  <1>1. Permitted(o, head, current) /\ o \in Operations
    BY DEF Inv, RolesOK, WriterOK, Permitted
  <1>2. Sighted(db, pc[t], o.index, head, current)
    BY DEF SightOK
  <1>3. CASE head.state = "Active"
    <2>1. active = current
      BY <1>2, <1>3 DEF Sighted, ActivePayload
    <2>2. QED
      BY <1>1, <2>1 DEF PermittedIn, SuccessorIn, Plan
  <1>4. CASE head.state # "Active"
    <2>1. o.transition = "Create"
      BY <1>1, <1>4, PermittedState
    <2>2. active = None
      BY <1>4 DEF ActivePayload
    <2>3. Permitted(o, head, active)
      BY <1>1, <1>4, <2>2 DEF Permitted
    <2>4. BuiltVersion(o, active) = BuildCreate(o) /\ BuiltVersion(o, current) = BuildCreate(o)
      BY <2>1 DEF BuiltVersion
    <2>5. Successor(o, head, active) = Successor(o, head, current)
      BY <2>1, <2>4 DEF Successor
    <2>6. QED
      BY <1>1, <2>3, <2>5 DEF PermittedIn, SuccessorIn, Plan
  <1>5. QED
    BY <1>3, <1>4

\* Committing a batch, or failing to, moves the stores by that batch.
LEMMA CommitMoves ==
    ASSUME NEW new, Batch(db, new), Commit(new) \/ CommitFails(new)
    PROVE  Moves
  BY DEF Commit, CommitFails, CommitPoisons, CommitUnacknowledged, Moves

\* A write that fails before its batch moves nothing.
LEMMA WriteFailsMoves ==
    ASSUME WriteFails PROVE Moves
  BY DEF WriteFails, WriteRefused, CommitLockPoisons, storeVars, Moves

\* A stage that passed its checks commits the successor of what the store holds.
LEMMA StageMoves ==
    ASSUME Inv, SightOK, NEW t \in Writers, Stage(t)
    PROVE  Moves
PROOF
  <1> DEFINE w == StageWrite(t)
             new == StageEffect(db, w)
  <1>1. StoreOK(db) /\ db \in StoreType /\ pc[t] = "prepared"
    BY DEF Inv, StoresOK, StoreOK, Stage
  <1>2. ASSUME op[t].transition # "Destroy", StageRefusal(db, w) = None
        PROVE  Batch(db, new)
    <2>1. /\ db.heads[op[t].index] = seenHead[t] /\ ~ HasStaged(db, op[t].index)
          /\ db.operations[op[t].index][op[t].key] = None
      BY <1>2, StageChecks DEF StageWrite
    <2>2. PermittedIn(db, op[t]) /\ SuccessorIn(db, op[t]) = Plan(t)
      BY <1>1, <2>1, PlanIsSuccessor
    <2>3. Plan(t).payload.version = NextVersion(db, op[t].index)
      BY <1>1, <1>2, <2>2, VersionIn
    <2>4. StageBatch(db, new, op[t])
      BY <1>1, <1>2, <2>1, <2>2, <2>3 DEF StageBatch, StageEffect, StageWrite, StoreType
    <2>5. QED
      BY <2>2, <2>4 DEF Batch, PermittedIn
  <1>3. CASE UNCHANGED storeVars
    BY <1>3 DEF Moves, storeVars
  <1>4. CASE /\ op[t].transition # "Destroy" /\ StageRefusal(db, w) = None
             /\ Commit(new) \/ CommitFails(new)
    BY <1>2, <1>4, CommitMoves
  <1>5. CASE WriteFails
    BY <1>5, WriteFailsMoves
  <1>6. QED
    BY <1>3, <1>4, <1>5 DEF Stage

\* A publish or a destroy that passed its checks commits the successor of what the
\* store holds, and a destroy leaves no payload.
LEMMA PublishMoves ==
    ASSUME Inv, SightOK, NEW t \in Writers, Publish(t)
    PROVE  Moves
PROOF
  <1> DEFINE o == op[t]
             new == PublishEffectOf(t)
  <1>1. StoreOK(db) /\ db \in StoreType /\ pc[t] = "staged"
    BY DEF Inv, StoresOK, StoreOK, Publish
  <1>2. ASSUME PublishRefusalOf(t) = None, o.transition # "Destroy"
        PROVE  Batch(db, new)
    <2>1. /\ db.heads[o.index] = seenHead[t]
          /\ db.staging[o.index][Plan(t).payload.version]
                = StagingMarker(o, Plan(t).payload.version)
          /\ db.operations[o.index][o.key] = None
      BY <1>2, PublishChecks DEF PublishRefusalOf, PublishWrite
    <2>2. PermittedIn(db, o) /\ SuccessorIn(db, o) = Plan(t)
      BY <1>1, <2>1, PlanIsSuccessor
    <2>3. Plan(t).payload.version = NextVersion(db, o.index)
      BY <1>1, <1>2, <2>2, VersionIn
    <2>4. PublishBatch(db, new, o)
      BY <1>1, <1>2, <2>1, <2>2, <2>3
      DEF PublishBatch, PublishEffectOf, PublishEffect, PublishWrite, StoreType
    <2>5. QED
      BY <2>2, <2>4 DEF Batch, PermittedIn
  <1>3. ASSUME PublishRefusalOf(t) = None, o.transition = "Destroy"
        PROVE  Batch(db, new)
    <2> DEFINE i == o.index
               kept == [v \in IndexVersion |->
                           IF v \in 1 .. Plan(t).head.version THEN None ELSE db.versions[i][v]]
    <2>1. /\ db.heads[i] = seenHead[t] /\ ~ HasStaged(db, i)
          /\ db.operations[i][o.key] = None
      BY <1>3, DestroyChecks DEF PublishRefusalOf, DestroyWrite
    <2>2. PermittedIn(db, o) /\ SuccessorIn(db, o) = Plan(t)
      BY <1>1, <2>1, PlanIsSuccessor
    <2>3. Plan(t).head.version = db.heads[i].version /\ i \in Indexes
      BY <1>1, <1>3, <2>2, DestroyIn
    <2>4. \A v \in IndexVersion : kept[v] = None
      BY <1>1, <2>1, <2>3, MaxVersionAssumption
      DEF StoreOK, StoreType, PayloadLayout, HasStaged, IndexRecords, IndexVersion
    <2>5. kept = [v \in IndexVersion |-> None]
      BY <2>4
    <2>6. new.versions = [db.versions EXCEPT ![i] = kept]
      BY <1>1, <1>3, <2>3 DEF PublishEffectOf, DestroyEffect, DestroyWrite, StoreType
    <2>7. DestroyBatch(db, new, o)
      BY <1>1, <1>3, <2>1, <2>2, <2>5, <2>6
      DEF DestroyBatch, PublishEffectOf, DestroyEffect, DestroyWrite, StoreType
    <2>8. QED
      BY <2>2, <2>7 DEF Batch, PermittedIn
  <1>4. CASE UNCHANGED storeVars
    BY <1>4 DEF Moves, storeVars
  <1>5. CASE PublishRefusalOf(t) = None /\ (Commit(new) \/ CommitFails(new))
    BY <1>2, <1>3, <1>5, CommitMoves
  <1>6. CASE WriteFails
    BY <1>6, WriteFailsMoves
  <1>7. QED
    BY <1>4, <1>5, <1>6 DEF Publish

\* A quarantine that passed its checks moves the entry it was told of, which is staged.
LEMMA QuarantineMoves ==
    ASSUME Inv, NEW q \in Recoverers, Quarantine(q)
    PROVE  Moves
PROOF
  <1> DEFINE w == found[q]
             new == QuarantineEffect(db, w)
  <1>1. db \in StoreType /\ w \in StagedEntries
    BY DEF Inv, StoresOK, StoreOK, RolesOK, RecovererOK, Quarantine
  <1>2. ASSUME QuarantineRefusal(db, w) = None PROVE Batch(db, new)
    <2>1. /\ w.index \in Indexes /\ w.version \in IndexVersion
          /\ w.marker # None /\ db.staging[w.index][w.version] = w.marker
      BY <1>1, <1>2, QuarantineChecks, NoneAssumption DEF StagedEntries
    <2>2. QuarantineBatch(db, new, w.index, w.version)
      BY <1>1, <2>1 DEF QuarantineBatch, QuarantineEffect, StoreType
    <2>3. QED
      BY <2>1, <2>2 DEF Batch
  <1>3. CASE UNCHANGED storeVars
    BY <1>3 DEF Moves, storeVars
  <1>4. CASE QuarantineRefusal(db, w) = None /\ (Commit(new) \/ CommitFails(new))
    BY <1>2, <1>4, CommitMoves
  <1>5. CASE WriteFails
    BY <1>5, WriteFailsMoves
  <1>6. QED
    BY <1>3, <1>4, <1>5 DEF Quarantine

\* Every step of every thread, and a process stop, moves the stores by one batch.
LEMMA NextMoves == Inv /\ SightOK /\ [Next]_vars => Moves
PROOF
  <1> SUFFICES ASSUME Inv, SightOK, [Next]_vars PROVE Moves
    OBVIOUS
  <1>1. CASE UNCHANGED storeVars
    BY <1>1 DEF Moves, storeVars
  <1>2. ASSUME NEW t \in Writers, WriterStep(t) PROVE Moves
    BY <1>1, <1>2, StageMoves, PublishMoves
    DEF WriterStep, ReadHead, Replay, ReadPayload, Recheck, Permit, Return
  <1>3. ASSUME NEW q \in Recoverers, RecovererStep(q) PROVE Moves
    BY <1>1, <1>3, QuarantineMoves DEF RecovererStep, ListStaged, NothingStaged, Return
  <1>4. CASE Restart
    BY <1>4 DEF Restart, Reopen, Moves
  <1>5. CASE UNCHANGED vars
    BY <1>1, <1>5 DEF vars
  <1>6. QED
    BY <1>1, <1>2, <1>3, <1>4, <1>5
    DEF Next, BeginPrepare, ReaderStep, ReadPayload, Recheck, Return, BeginIndex,
        BeginRecover, Abandon

(***************************************************************************)
(* What a batch keeps, every step keeps.                                   *)
(***************************************************************************)
\* Where a batch changes a payload or a marker: at the version after the head's.
LEMMA StagedAboveHead ==
    ASSUME NEW d, StoreOK(d), NEW i \in Indexes, NEW v \in IndexVersion,
           d.staging[i][v] # None
    PROVE  /\ d.heads[i].version \in Nat /\ v = NextVersion(d, i)
           /\ d.heads[i].state # "Destroyed" /\ d.versions[i][v] # None
           /\ \A u \in IndexVersion : d.staging[i][u] # None => u = v
  BY MaxVersionAssumption
  DEF StoreOK, StoreType, PayloadLayout, IndexRecords, IndexVersion, NextVersion

\* A batch of the adapters moves a head forward or not at all, changes no record and no
\* payload of a live index, and lets staged state go only to its publish or to quarantine.
LEMMA BatchKeeps ==
    ASSUME NEW d, StoreOK(d), NEW n, Batch(d, n)
    PROVE  Kept(d, n)
PROOF
  <1>1. /\ d \in StoreType
        /\ \A i \in Indexes : d.heads[i].version \in 0 .. MaxVersion
    BY DEF StoreOK, StoreType, IndexRecords
  <1>2. ASSUME NEW o \in Operations, PermittedIn(d, o), StageBatch(d, n, o)
        PROVE  Kept(d, n)
    <2>1. /\ o.index \in Indexes /\ NextVersion(d, o.index) \in IndexVersion
      BY <1>2, VersionIn DEF StageBatch
    <2>2. \A i \in Indexes : HeadStep(d.heads[i], n.heads[i])
      BY <1>2 DEF StageBatch, HeadStep
    <2>3. RecordsKept(d, n)
      BY <1>2 DEF StageBatch, RecordsKept
    <2>4. PublishedKept(d, n)
      BY <1>1, <1>2, <2>1, MaxVersionAssumption
      DEF StageBatch, PublishedKept, StoreType, NextVersion, IndexVersion
    <2>5. StagedKept(d, n)
      BY <1>1, <1>2, <2>1 DEF StageBatch, StagedKept, StoreType, HasStaged
    <2>6. QED
      BY <2>2, <2>3, <2>4, <2>5 DEF Kept
  <1>3. ASSUME NEW o \in Operations, PermittedIn(d, o), PublishBatch(d, n, o)
        PROVE  Kept(d, n)
    <2>1. /\ o.index \in Indexes /\ NextVersion(d, o.index) \in IndexVersion
          /\ d.heads[o.index].state # "Destroyed" /\ o.key \in Keys
          /\ SuccessorIn(d, o).head.state = "Active"
          /\ SuccessorIn(d, o).head.version = NextVersion(d, o.index)
      BY <1>3, VersionIn DEF PublishBatch
    <2>2. \A i \in Indexes : HeadStep(d.heads[i], n.heads[i])
      BY <1>1, <1>3, <2>1 DEF PublishBatch, HeadStep, StoreType, NextVersion
    <2>3. RecordsKept(d, n)
      BY <1>1, <1>3, <2>1 DEF PublishBatch, RecordsKept, StoreType
    <2>4. PublishedKept(d, n)
      BY <1>3 DEF PublishBatch, PublishedKept
    <2>5. StagedKept(d, n)
      BY <1>1, <1>3, <2>1 DEF PublishBatch, StagedKept, StoreType
    <2>6. QED
      BY <2>2, <2>3, <2>4, <2>5 DEF Kept
  <1>4. ASSUME NEW o \in Operations, PermittedIn(d, o), DestroyBatch(d, n, o)
        PROVE  Kept(d, n)
    <2>1. /\ o.index \in Indexes /\ o.key \in Keys
          /\ d.heads[o.index].state = "Active"
          /\ SuccessorIn(d, o).head.state = "Destroyed"
          /\ SuccessorIn(d, o).head.version = d.heads[o.index].version
          /\ SuccessorIn(d, o).head.config = d.heads[o.index].config
      BY <1>4, DestroyIn DEF DestroyBatch
    <2>2. \A i \in Indexes : HeadStep(d.heads[i], n.heads[i])
      BY <1>1, <1>4, <2>1 DEF DestroyBatch, HeadStep, StoreType
    <2>3. RecordsKept(d, n)
      BY <1>1, <1>4, <2>1 DEF DestroyBatch, RecordsKept, StoreType
    <2>4. PublishedKept(d, n)
      BY <1>1, <1>4, <2>1 DEF DestroyBatch, PublishedKept, StoreType
    <2>5. StagedKept(d, n)
      BY <1>4 DEF DestroyBatch, StagedKept
    <2>6. QED
      BY <2>2, <2>3, <2>4, <2>5 DEF Kept
  <1>5. ASSUME NEW i \in Indexes, NEW v \in IndexVersion, QuarantineBatch(d, n, i, v)
        PROVE  Kept(d, n)
    <2>1. v = NextVersion(d, i) /\ d.heads[i].version \in Nat
      BY <1>5, StagedAboveHead DEF QuarantineBatch
    <2>2. \A j \in Indexes : HeadStep(d.heads[j], n.heads[j])
      BY <1>5 DEF QuarantineBatch, HeadStep
    <2>3. RecordsKept(d, n)
      BY <1>5 DEF QuarantineBatch, RecordsKept
    <2>4. PublishedKept(d, n)
      BY <1>1, <1>5, <2>1, MaxVersionAssumption
      DEF QuarantineBatch, PublishedKept, StoreType, NextVersion, IndexVersion
    <2>5. StagedKept(d, n)
      <3> DEFINE m == Len(d.quarantine) + 1
      <3>1. d.quarantine \in Seq(QuarantinedEntries)
        BY <1>1 DEF StoreType
      <3>2. /\ m \in 1 .. Len(n.quarantine) /\ m > Len(d.quarantine)
            /\ n.quarantine[m].marker = d.staging[i][v]
            /\ n.quarantine[m].payload = d.versions[i][v]
        BY <1>5, <3>1 DEF QuarantineBatch
      <3>3. \A j \in Indexes, u \in IndexVersion :
               n.staging[j][u] # d.staging[j][u] => j = i /\ u = v
        BY <1>1, <1>5 DEF QuarantineBatch, StoreType
      <3>4. QED
        BY <3>2, <3>3 DEF StagedKept
    <2>6. QED
      BY <2>2, <2>3, <2>4, <2>5 DEF Kept
  <1>6. QED
    BY <1>2, <1>3, <1>4, <1>5 DEF Batch

\* A store that does not change loses nothing.
LEMMA KeptByNothing == \A d : Kept(d, d)
  BY DEF Kept, HeadStep, RecordsKept, PublishedKept, StagedKept

\* A step keeps what is stored, in memory and towards the disk: a reopen finds a store
\* one batch ahead of the one reads saw.
LEMMA MovesKeep ==
    ASSUME StoreOK(db), DiskKept, Moves
    PROVE  Kept(db, db') /\ DiskKept'
PROOF
  <1>1. \A n : Batch(db, n) => Kept(db, n)
    BY BatchKeeps
  <1>2. QED
    BY <1>1, KeptByNothing DEF Moves, DiskKept

(***************************************************************************)
(* What a writer read stays so until the head it read is gone.             *)
(***************************************************************************)
\* Heads never return: a head that is no longer the one a writer read never is again.
LEMMA PastStays ==
    ASSUME NEW seen \in IndexRecords, NEW old \in IndexRecords, NEW new \in IndexRecords,
           HeadPast(seen, old), HeadStep(old, new)
    PROVE  /\ HeadPast(seen, new)
           /\ seen.state = "Active" /\ new = seen => old = seen
  BY MaxVersionAssumption DEF HeadPast, HeadStep, IndexRecords

\* A writer that sits between two reads keeps its view of them.
LEMMA SightedStays ==
    ASSUME NEW d, StoreOK(d), NEW n, StoreOK(n), Kept(d, n),
           NEW p, NEW i \in Indexes, NEW seen \in IndexRecords, HeadOK(seen), NEW payload,
           Sighted(d, p, i, seen, payload)
    PROVE  Sighted(n, p, i, seen, payload)
PROOF
  <1>1. d.heads[i] \in IndexRecords /\ n.heads[i] \in IndexRecords
    BY DEF StoreOK, StoreType
  <1>2. HeadStep(d.heads[i], n.heads[i])
    BY DEF Kept
  <1>3. /\ HeadPast(seen, d.heads[i]) => HeadPast(seen, n.heads[i])
        /\ HeadPast(seen, d.heads[i]) /\ seen.state = "Active" /\ n.heads[i] = seen =>
              d.heads[i] = seen
    BY <1>1, <1>2, PastStays
  <1>4. ASSUME seen.state = "Active", d.heads[i] = seen, n.heads[i] = seen
        PROVE  n.versions[i][seen.version] = d.versions[i][seen.version]
    <2>1. seen.version \in 1 .. d.heads[i].version
      BY <1>4, MaxVersionAssumption DEF HeadOK, IndexVersion
    <2>2. QED
      BY <1>4, <2>1 DEF Kept, PublishedKept
  <1>5. QED
    BY <1>3, <1>4 DEF Sighted

\* The steps of a writer that read nothing more leave what it read.
ReadsNothing(t) ==
    pc'[t] = pc[t] /\ op'[t] = op[t] /\ seenHead'[t] = seenHead[t]
        /\ seenPayload'[t] = seenPayload[t]

\* What a writer has in hand after a step of its own.
LEMMA WriterSights ==
    ASSUME Inv, SightOK, NEW t \in Writers,
           WriterStep(t) \/ (\E o \in Operations : BeginPrepare(t, o)) \/ Abandon(t)
    PROVE  \/ pc'[t] \in {"idle", "head", "done"}
           \/ /\ db' = db
              /\ Sighted(db, pc'[t], op'[t].index, seenHead'[t], seenPayload'[t])
           \/ /\ pc[t] = "prepared" /\ pc'[t] = "staged"
              /\ op'[t] = op[t] /\ seenHead'[t] = seenHead[t] /\ seenPayload'[t] = seenPayload[t]
PROOF
  <1>1. t \in Threads /\ ThreadsTyped
    BY DEF Threads, Inv
  <1>2. Sighted(db, pc[t], op[t].index, seenHead[t], seenPayload[t])
    BY DEF SightOK
  <1>3. ASSUME NEW outcome, Finish(t, outcome) PROVE pc'[t] = "done"
    BY <1>1, <1>3 DEF Finish, ThreadsTyped
  <1>4. CASE Abandon(t) \/ Return(t)
    BY <1>1, <1>4 DEF Abandon, Return, Idle, ThreadsTyped
  <1>5. CASE \E o \in Operations : BeginPrepare(t, o)
    BY <1>1, <1>5 DEF BeginPrepare, ThreadsTyped
  <1>6. CASE ReadHead(t)
    BY <1>1, <1>6 DEF ReadHead, ThreadsTyped, Sighted, HeadPast, storeVars
  <1>7. CASE Replay(t)
    <2>1. CASE Continue(t, IF seenHead[t].state = "Active" THEN "payload" ELSE "permit")
      BY <1>1, <1>2, <1>7, <2>1 DEF Replay, Continue, ThreadsTyped, Sighted, storeVars
    <2>2. QED
      BY <1>3, <1>7, <2>1 DEF Replay
  <1>8. CASE ReadPayload(t, "permit")
    <2>1. CASE Continue(t, "recheck")
      BY <1>1, <1>2, <1>8, <2>1 DEF ReadPayload, Continue, ThreadsTyped, Sighted, storeVars
    <2>2. CASE /\ pc' = [pc EXCEPT ![t] = "permit"]
               /\ seenPayload' = [seenPayload EXCEPT
                                     ![t] = db.versions[IndexOf(t)][seenHead[t].version]]
               /\ UNCHANGED <<owner, op, seenHead, found, intact>>
      BY <1>1, <1>2, <1>8, <2>2 DEF ReadPayload, IndexOf, ThreadsTyped, Sighted, storeVars
    <2>3. QED
      BY <1>3, <1>8, <2>1, <2>2 DEF ReadPayload
  <1>9. CASE Recheck(t, "HeadChanged")
    BY <1>3, <1>9 DEF Recheck
  <1>10. CASE Permit(t)
    <2>1. CASE Continue(t, "prepared")
      BY <1>1, <1>2, <1>10, <2>1 DEF Permit, Continue, ThreadsTyped, Sighted, storeVars
    <2>2. QED
      BY <1>3, <1>10, <2>1 DEF Permit
  <1>11. CASE Stage(t)
    <2>1. CASE Staged(t)
      BY <1>1, <1>11, <2>1 DEF Stage, Staged, ThreadsTyped
    <2>2. QED
      BY <1>3, <1>11, <2>1 DEF Stage
  <1>12. CASE Publish(t)
    BY <1>3, <1>12 DEF Publish
  <1>13. QED
    BY <1>4, <1>5, <1>6, <1>7, <1>8, <1>9, <1>10, <1>11, <1>12 DEF WriterStep

\* A step of another thread leaves a writer as it was.
LEMMA OthersStay ==
    ASSUME Inv, Next, ~ Restart, NEW t \in Writers,
           ~ (WriterStep(t) \/ (\E o \in Operations : BeginPrepare(t, o)) \/ Abandon(t))
    PROVE  ReadsNothing(t)
PROOF
  <1>1. ThreadsTyped /\ t \in Threads /\ t \notin Readers /\ t \notin Recoverers
    BY ThreadsAssumption DEF Inv, Threads
  <1>2. ASSUME NEW u \in Threads, u # t,
               \/ \E outcome : Finish(u, outcome)
               \/ \E next : Continue(u, next)
               \/ Idle(u) \/ Staged(u)
        PROVE  ReadsNothing(t)
    BY <1>1, <1>2 DEF ReadsNothing, Finish, Continue, Idle, Staged, ThreadsTyped
  <1>3. ASSUME NEW u \in Threads, u # t,
               \/ (\E next : ReadPayload(u, next)) \/ (\E gone : Recheck(u, gone)) \/ Return(u)
        PROVE  ReadsNothing(t)
    BY <1>1, <1>2, <1>3 DEF ReadPayload, Recheck, Return, ReadsNothing, ThreadsTyped
  <1>4. ASSUME NEW u \in Writers, u # t, WriterStep(u) PROVE ReadsNothing(t)
    <2>1. u \in Threads
      BY DEF Threads
    <2>2. CASE ReadHead(u)
      BY <1>1, <1>4, <2>1, <2>2 DEF ReadHead, ReadsNothing, ThreadsTyped
    <2>3. CASE Replay(u) \/ Permit(u) \/ Stage(u) \/ Publish(u)
      BY <1>2, <1>4, <2>1, <2>3 DEF Replay, Permit, Stage, Publish
    <2>4. QED
      BY <1>3, <1>4, <2>1, <2>2, <2>3 DEF WriterStep
  <1>5. ASSUME NEW u \in Writers, u # t, NEW o \in Operations, BeginPrepare(u, o)
        PROVE  ReadsNothing(t)
    BY <1>1, <1>5 DEF BeginPrepare, ReadsNothing, ThreadsTyped, Threads
  <1>6. ASSUME NEW r \in Readers,
               ReaderStep(r) \/ \E i \in Indexes : BeginIndex(r, i)
        PROVE  ReadsNothing(t)
    <2>1. r \in Threads /\ r # t
      BY <1>1 DEF Threads
    <2>2. ASSUME NEW i \in Indexes, BeginIndex(r, i) PROVE ReadsNothing(t)
      BY <1>1, <2>1, <2>2 DEF BeginIndex, ReadsNothing, ThreadsTyped
    <2>3. QED
      BY <1>3, <1>6, <2>1, <2>2 DEF ReaderStep
  <1>7. ASSUME NEW q \in Recoverers, RecovererStep(q) \/ BeginRecover(q)
        PROVE  ReadsNothing(t)
    <2>1. q \in Threads /\ q # t
      BY <1>1 DEF Threads
    <2>2. CASE BeginRecover(q)
      BY <1>1, <2>1, <2>2 DEF BeginRecover, ReadsNothing, ThreadsTyped
    <2>3. ASSUME NEW i \in Indexes, NEW v \in IndexVersion, ListStaged(q, i, v)
          PROVE  ReadsNothing(t)
      BY <1>1, <2>1, <2>3 DEF ListStaged, ReadsNothing, ThreadsTyped
    <2>4. CASE Quarantine(q)
      BY <1>1, <2>1, <2>4 DEF Quarantine, ReadsNothing, ThreadsTyped
    <2>5. CASE NothingStaged(q)
      BY <1>2, <2>1, <2>5 DEF NothingStaged
    <2>6. QED
      BY <1>3, <1>7, <2>1, <2>2, <2>3, <2>4, <2>5 DEF RecovererStep
  <1>8. ASSUME NEW u \in Threads, u # t, Abandon(u) PROVE ReadsNothing(t)
    BY <1>2, <1>8 DEF Abandon
  <1>9. QED
    BY <1>4, <1>5, <1>6, <1>7, <1>8 DEF Next

\* Every step keeps what each writer read, or the proof that its head is gone.
LEMMA NextKeepsSight ==
    ASSUME Inv, Inv', SightOK, DiskKept, [Next]_vars
    PROVE  SightOK'
PROOF
  <1>1. StoreOK(db) /\ StoreOK(db') /\ Kept(db, db') /\ ThreadsTyped /\ RolesOK
    BY NextMoves, MovesKeep DEF Inv, StoresOK
  <1> SUFFICES ASSUME NEW t \in Writers
               PROVE  Sighted(db', pc'[t], op'[t].index, seenHead'[t], seenPayload'[t])
    BY DEF SightOK
  <1>2. t \in Threads /\ Sighted(db, pc[t], op[t].index, seenHead[t], seenPayload[t])
    BY DEF Threads, SightOK
  <1>3. CASE pc'[t] \in {"idle", "head", "done"}
    BY <1>3 DEF Sighted
  <1>4. ASSUME pc[t] \notin {"idle", "head", "done"}
        PROVE  Sighted(db', pc[t], op[t].index, seenHead[t], seenPayload[t])
    <2>1. /\ op[t] \in Operations /\ HeadOK(seenHead[t]) /\ seenHead[t] \in IndexRecords
      BY <1>1, <1>2, <1>4 DEF RolesOK, WriterOK, ThreadsTyped
    <2>2. op[t].index \in Indexes
      BY <2>1, OperationIdentityTyped
    <2>3. QED
      BY <1>1, <1>2, <2>1, <2>2, SightedStays
  <1>5. CASE ReadsNothing(t)
    BY <1>3, <1>4, <1>5 DEF ReadsNothing
  <1>6. CASE WriterStep(t) \/ (\E o \in Operations : BeginPrepare(t, o)) \/ Abandon(t)
    <2>1. CASE db' = db /\ Sighted(db, pc'[t], op'[t].index, seenHead'[t], seenPayload'[t])
      BY <2>1
    <2>2. CASE /\ pc[t] = "prepared" /\ pc'[t] = "staged"
               /\ op'[t] = op[t] /\ seenHead'[t] = seenHead[t]
               /\ seenPayload'[t] = seenPayload[t]
      BY <1>4, <2>2 DEF Sighted
    <2>3. QED
      BY <1>3, <1>6, <2>1, <2>2, WriterSights
  <1>7. CASE Restart
    BY <1>2, <1>3, <1>7 DEF Restart
  <1>8. CASE UNCHANGED vars
    BY <1>5, <1>8 DEF vars, threadVars, ReadsNothing
  <1>9. QED
    BY <1>5, <1>6, <1>7, <1>8, OthersStay

(***************************************************************************)
(* The store part of the system: every step is a batch, and loses nothing. *)
(***************************************************************************)
StoreInv == Inv /\ SightOK /\ DiskKept

\* A new backend, and every step, keep it.
LEMMA InitStoreInv == Init => StoreInv
PROOF
  <1> SUFFICES ASSUME Init PROVE StoreInv
    OBVIOUS
  <1>1. SightOK
    BY DEF Init, SightOK, Sighted, Threads
  <1>2. DiskKept
    BY KeptByNothing DEF Init, StoreInit, DiskKept
  <1>3. QED
    BY <1>1, <1>2, InitInv DEF StoreInv

\* The same for a step.
LEMMA NextKeepsStoreInv == StoreInv /\ [Next]_vars => StoreInv' /\ Moves /\ Kept(db, db')
PROOF
  <1> SUFFICES ASSUME StoreInv, [Next]_vars
               PROVE  StoreInv' /\ Moves /\ Kept(db, db')
    OBVIOUS
  <1>1. Inv' /\ Moves
    BY NextKeepsInv, NextMoves DEF StoreInv
  <1>2. Kept(db, db') /\ DiskKept'
    BY <1>1, MovesKeep DEF StoreInv, Inv, StoresOK
  <1>3. SightOK'
    BY <1>1, NextKeepsSight DEF StoreInv
  <1>4. QED
    BY <1>1, <1>2, <1>3 DEF StoreInv

\* Every reachable state of the lifecycle satisfies it.
THEOREM StoreInvariance == Spec => []StoreInv
PROOF
  <1>1. QED
    BY InitStoreInv, NextKeepsStoreInv, PTL DEF Spec

\* The steps PublishedIsImmutable and StagedIsNeverDeleted speak of.
PublishedStep ==
    \A i \in Indexes :
        /\ \A k \in Keys : db.operations[i][k] # None =>
              db'.operations[i][k] = db.operations[i][k]
        /\ \A v \in 1 .. db.heads[i].version :
              db'.heads[i].state = "Active" => db'.versions[i][v] = db.versions[i][v]

StagedStep ==
    \A i \in Indexes, v \in IndexVersion :
        db.staging[i][v] # None /\ db'.staging[i][v] # db.staging[i][v] =>
            \/ /\ db'.heads[i].version = v
               /\ db'.versions[i][v] = db.versions[i][v]
            \/ \E n \in 1 .. Len(db'.quarantine) :
                  /\ n > Len(db.quarantine)
                  /\ db'.quarantine[n].marker = db.staging[i][v]
                  /\ db'.quarantine[n].payload = db.versions[i][v]

\* Nothing stored is lost, by stage, publish, destroy, quarantine, a failed commit or a
\* reopen (thesauros and atmis, lib.rs): records stay for good, published payloads until
\* their destroy, staged state until its publish or quarantine, payload and marker
\* together, however many threads bypass the writer.
THEOREM NothingStoredIsLost == Spec => StoredStateIsKept
PROOF
  <1>1. StoreInv /\ [Next]_vars => [PublishedStep]_vars /\ [StagedStep]_vars
    BY NextKeepsStoreInv DEF Kept, RecordsKept, PublishedKept, StagedKept,
        PublishedStep, StagedStep
  <1>2. Spec => PublishedIsImmutable
    BY <1>1, StoreInvariance, PTL DEF Spec, PublishedIsImmutable, PublishedStep
  <1>3. Spec => StagedIsNeverDeleted
    BY <1>1, StoreInvariance, PTL DEF Spec, StagedIsNeverDeleted, StagedStep
  <1>4. QED
    BY <1>2, <1>3 DEF StoredStateIsKept

(***************************************************************************)
(* Staged state belongs to one operation that is not on record.            *)
(***************************************************************************)
SameIndex(d, n, i) ==
    /\ n.heads[i] = d.heads[i] /\ n.versions[i] = d.versions[i]
    /\ n.staging[i] = d.staging[i] /\ n.operations[i] = d.operations[i]

\* A batch of another index leaves what is staged for this one what it was.
LEMMA StagedElsewhere ==
    ASSUME NEW d, NEW n, NEW i \in Indexes, SameIndex(d, n, i), NEW v \in IndexVersion,
           \E o \in Operations : StagedBy(d, i, v, o)
    PROVE  \E o \in Operations : StagedBy(n, i, v, o)
PROOF
  <1>1. PICK o \in Operations : StagedBy(d, i, v, o)
    OBVIOUS
  <1>2. ActivePayload(n, i) = ActivePayload(d, i)
    BY DEF SameIndex, ActivePayload
  <1>3. PermittedIn(n, o) /\ SuccessorIn(n, o) = SuccessorIn(d, o)
    BY <1>1, <1>2 DEF StagedBy, PermittedIn, SuccessorIn, SameIndex
  <1>4. StagedBy(n, i, v, o)
    BY <1>1, <1>3 DEF StagedBy, SameIndex
  <1>5. QED
    BY <1>4

\* The marker and the payload stage writes name the same operation, and only publish,
\* which takes the marker away, records its key.
LEMMA BatchKeepsStaged ==
    ASSUME NEW d, StoreOK(d), StagedBuilt(d), NEW n, Batch(d, n)
    PROVE  StagedBuilt(n)
PROOF
  <1>1. d \in StoreType
    BY DEF StoreOK
  <1>2. ASSUME NEW j \in Indexes, NEW u \in IndexVersion, n.staging[j][u] # None,
               SameIndex(d, n, j)
        PROVE  \E p \in Operations : StagedBy(n, j, u, p)
    BY <1>2, StagedElsewhere DEF StagedBuilt, SameIndex
  <1>3. ASSUME NEW o \in Operations, PermittedIn(d, o), StageBatch(d, n, o)
        PROVE  StagedBuilt(n)
    <2> DEFINE i == o.index
               v == NextVersion(d, i)
    <2>1. i \in Indexes /\ v \in IndexVersion /\ d.heads[i].version \in Nat
      BY <1>3, VersionIn DEF StageBatch
    <2>2. \A j \in Indexes : j # i => SameIndex(d, n, j)
      BY <1>1, <1>3, <2>1 DEF StageBatch, SameIndex, StoreType
    <2>3. \A u \in IndexVersion : n.staging[i][u] # None => u = v
      BY <1>1, <1>3, <2>1 DEF StageBatch, HasStaged, StoreType
    <2>4. ActivePayload(n, i) = ActivePayload(d, i)
      BY <1>1, <1>3, <2>1 DEF StageBatch, ActivePayload, NextVersion, StoreType
    <2>5. PermittedIn(n, o) /\ SuccessorIn(n, o) = SuccessorIn(d, o)
      BY <1>3, <2>4 DEF StageBatch, PermittedIn, SuccessorIn
    <2>6. StagedBy(n, i, v, o)
      BY <1>1, <1>3, <2>1, <2>5 DEF StageBatch, StagedBy, StoreType
    <2>7. QED
      BY <1>2, <2>2, <2>3, <2>6 DEF StagedBuilt
  <1>4. ASSUME NEW o \in Operations, PermittedIn(d, o), PublishBatch(d, n, o)
        PROVE  StagedBuilt(n)
    <2> DEFINE i == o.index
               v == NextVersion(d, i)
    <2>1. i \in Indexes /\ v \in IndexVersion /\ o.key \in Keys
      BY <1>4, VersionIn DEF PublishBatch
    <2>2. \A j \in Indexes : j # i => SameIndex(d, n, j)
      BY <1>1, <1>4, <2>1 DEF PublishBatch, SameIndex, StoreType
    <2>3. \A u \in IndexVersion : n.staging[i][u] = None
      BY <1>1, <1>4, <2>1, StagedAboveHead DEF PublishBatch, StoreType
    <2>4. QED
      BY <1>2, <2>2, <2>3 DEF StagedBuilt
  <1>5. ASSUME NEW o \in Operations, PermittedIn(d, o), DestroyBatch(d, n, o)
        PROVE  StagedBuilt(n)
    <2> DEFINE i == o.index
    <2>1. i \in Indexes /\ o.key \in Keys
      BY <1>5, DestroyIn DEF DestroyBatch
    <2>2. \A j \in Indexes : j # i => SameIndex(d, n, j)
      BY <1>1, <1>5, <2>1 DEF DestroyBatch, SameIndex, StoreType
    <2>3. \A u \in IndexVersion : n.staging[i][u] = None
      BY <1>5 DEF DestroyBatch, HasStaged
    <2>4. QED
      BY <1>2, <2>2, <2>3 DEF StagedBuilt
  <1>6. ASSUME NEW i \in Indexes, NEW v \in IndexVersion, QuarantineBatch(d, n, i, v)
        PROVE  StagedBuilt(n)
    <2>1. \A j \in Indexes : j # i => SameIndex(d, n, j)
      BY <1>1, <1>6 DEF QuarantineBatch, SameIndex, StoreType
    <2>2. \A u \in IndexVersion : d.staging[i][u] # None => u = v
      BY <1>6, StagedAboveHead DEF QuarantineBatch
    <2>3. \A u \in IndexVersion : n.staging[i][u] = None
      BY <1>1, <1>6, <2>2 DEF QuarantineBatch, StoreType
    <2>4. QED
      BY <1>2, <2>1, <2>3 DEF StagedBuilt
  <1>7. QED
    BY <1>3, <1>4, <1>5, <1>6 DEF Batch

\* quarantine numbers its entries 1, 2, ... and keeps the payload with its marker.
LEMMA BatchKeepsQuarantine ==
    ASSUME NEW d, StoreOK(d), StagesOK(d), NEW n, Batch(d, n)
    PROVE  QuarantineWhole(n)
PROOF
  <1>1. d \in StoreType /\ d.quarantine \in Seq(QuarantinedEntries)
    BY DEF StoreOK, StoreType
  <1>2. CASE n.quarantine = d.quarantine
    BY <1>2 DEF StagesOK, QuarantineWhole
  <1>3. ASSUME NEW i \in Indexes, NEW v \in IndexVersion, QuarantineBatch(d, n, i, v)
        PROVE  QuarantineWhole(n)
    <2> DEFINE entry == [sequence |-> NextSequence(d), index |-> i, version |-> v,
                         marker |-> d.staging[i][v], payload |-> d.versions[i][v]]
    <2>1. PICK o \in Operations : StagedBy(d, i, v, o)
      BY <1>3 DEF QuarantineBatch, StagesOK, StagedBuilt
    <2>2. d.versions[i][v].operation = OperationIdentity(o)
      BY <2>1, VersionIn DEF StagedBy
    <2>3. d.staging[i][v].operation = OperationIdentity(o)
      BY <2>1 DEF StagedBy, StagingMarker
    <2>4. d.versions[i][v] # None
      BY <1>3, StagedAboveHead DEF QuarantineBatch
    <2>5. NextSequence(d) = Len(d.quarantine) + 1
      BY <1>1 DEF NextSequence, StagesOK, QuarantineWhole
    <2>6. n.quarantine = Append(d.quarantine, entry)
      BY <1>3 DEF QuarantineBatch
    <2>7. /\ Len(n.quarantine) = Len(d.quarantine) + 1 /\ Len(d.quarantine) \in Nat
          /\ n.quarantine[Len(d.quarantine) + 1] = entry
          /\ \A m \in 1 .. Len(d.quarantine) : n.quarantine[m] = d.quarantine[m]
      BY <1>1, <2>6
    <2>8. /\ entry.sequence = Len(d.quarantine) + 1 /\ entry.payload # None
          /\ entry.payload.operation = entry.marker.operation
      BY <2>2, <2>3, <2>4, <2>5
    <2> HIDE DEF entry
    <2>9. ASSUME NEW m \in 1 .. Len(n.quarantine)
          PROVE  /\ n.quarantine[m].sequence = m
                 /\ n.quarantine[m].payload # None
                 /\ n.quarantine[m].payload.operation = n.quarantine[m].marker.operation
      <3>1. CASE m = Len(d.quarantine) + 1
        BY <2>7, <2>8, <3>1
      <3>2. CASE m \in 1 .. Len(d.quarantine)
        BY <2>7, <3>2 DEF StagesOK, QuarantineWhole
      <3>3. QED
        BY <2>7, <3>1, <3>2
    <2>10. QED
      BY <2>9 DEF QuarantineWhole
  <1>4. QED
    BY <1>2, <1>3 DEF Batch, StageBatch, PublishBatch, DestroyBatch

StagesInv == \A d \in Stores : StagesOK(d)

\* An empty backend has nothing staged, and every step keeps what is staged whole.
LEMMA InitStages == Init => StagesInv
PROOF
  <1>1. StagesOK(EmptyStore)
    BY DEF StagesOK, StagedBuilt, QuarantineWhole, EmptyStore
  <1>2. QED
    BY <1>1 DEF Init, StoreInit, StagesInv, Stores

\* The same for a step.
LEMMA NextKeepsStages == StoreInv /\ StagesInv /\ [Next]_vars => StagesInv'
PROOF
  <1> SUFFICES ASSUME StoreInv, StagesInv, Moves PROVE StagesInv'
    BY NextKeepsStoreInv
  <1>1. ASSUME NEW n, Batch(db, n) PROVE StagesOK(n)
    BY <1>1, BatchKeepsStaged, BatchKeepsQuarantine
    DEF StoreInv, Inv, StoresOK, StagesInv, Stores, StagesOK
  <1>2. QED
    BY <1>1 DEF Moves, StagesInv, Stores

\* What StagedBuilt says of a store is more than what StagedStateIsWhole does.
LEMMA StagesGiveWhole ==
    ASSUME NEW d, StoreOK(d), StagesOK(d) PROVE StagedStateOf(d)
PROOF
  <1>1. ASSUME NEW i \in Indexes, NEW v \in IndexVersion, d.staging[i][v] # None
        PROVE  /\ d.versions[i][v].operation = d.staging[i][v].operation
               /\ d.operations[i][d.staging[i][v].operation.key] = None
    <2>1. PICK o \in Operations : StagedBy(d, i, v, o)
      BY <1>1 DEF StagesOK, StagedBuilt
    <2>2. d.versions[i][v].operation = OperationIdentity(o)
      BY <2>1, VersionIn DEF StagedBy
    <2>3. d.staging[i][v].operation = OperationIdentity(o) /\ OperationIdentity(o).key = o.key
      BY <2>1 DEF StagedBy, StagingMarker, OperationIdentity
    <2>4. QED
      BY <2>1, <2>2, <2>3 DEF StagedBy
  <1>2. QED
    BY <1>1 DEF StagedStateOf, StagesOK, QuarantineWhole

\* Staged state is whole in every store a read or a reopen may see: marker and payload
\* are of one operation, whose key is not on record, and quarantine keeps both under the
\* next sequence number (stage, publish and quarantine of the adapters).
THEOREM StagedStateWhole == Spec => []StagedStateIsWhole
PROOF
  <1>1. StoreInv /\ StagesInv => StagedStateIsWhole
    BY StagesGiveWhole
    DEF StoreInv, Inv, StoresOK, StagesInv, StagedStateIsWhole, Stores
  <1>2. QED
    BY <1>1, InitStages, NextKeepsStages, StoreInvariance, PTL DEF Spec

(***************************************************************************)
(* Receipts.                                                               *)
(***************************************************************************)
Recorded(d, receipt) ==
    LET record == d.operations[receipt.index][receipt.operation.key]
    IN  /\ record # None
        /\ record.operation = receipt.operation
        /\ record.resulting = receipt.state

ReceiptOK(receipt) ==
    /\ receipt.index \in Indexes /\ receipt.operation.key \in Keys
    /\ \A d \in Stores : Recorded(d, receipt)

ReceiptsInv == \A receipt \in receipts : ReceiptOK(receipt)

\* A record that is there stays: a receipt once true is true of whatever comes next.
LEMMA RecordedStays ==
    ASSUME NEW d, NEW n, Kept(d, n), NEW receipt,
           receipt.index \in Indexes, receipt.operation.key \in Keys, Recorded(d, receipt)
    PROVE  Recorded(n, receipt)
  BY DEF Kept, RecordsKept, Recorded

\* The receipt of a publish names the record its batch committed.
LEMMA PublishReceipt ==
    ASSUME Inv, NEW t \in Writers, Publish(t), receipts' # receipts
    PROVE  /\ Receipt(op[t], Plan(t).record.resulting).index \in Indexes
           /\ Receipt(op[t], Plan(t).record.resulting).operation.key \in Keys
           /\ receipts' = receipts \cup {Receipt(op[t], Plan(t).record.resulting)}
           /\ Recorded(db', Receipt(op[t], Plan(t).record.resulting))
PROOF
  <1> DEFINE o == op[t]
             record == Plan(t).record
  <1>1. Permitted(o, seenHead[t], seenPayload[t]) /\ o \in Operations /\ db \in StoreType
    BY DEF Inv, RolesOK, WriterOK, Permitted, Publish, StoresOK, StoreOK
  <1>2. o.index \in Indexes /\ o.key \in Keys
    BY <1>1, OperationIdentityTyped
  <1>3. record.operation = OperationIdentity(o)
    BY <1>1, VersionParts, DestroyParts DEF Plan
  <1>4. record # None
    BY <1>1, VersionSuccessor, DestroyedSuccessor, NoneAssumption DEF Plan
  <1>5. /\ db' = PublishEffectOf(t)
        /\ receipts' = receipts \cup {Receipt(o, record.resulting)}
    BY DEF Publish, Commit
  <1>6. db'.operations = [db.operations EXCEPT ![o.index][o.key] = record]
    BY <1>1, <1>5
    DEF PublishEffectOf, PublishEffect, DestroyEffect, PublishWrite, DestroyWrite, StoreType
  <1>7. db'.operations[o.index][o.key] = record
    BY <1>1, <1>2, <1>6 DEF StoreType
  <1>8. QED
    BY <1>2, <1>3, <1>4, <1>5, <1>7 DEF Receipt, Recorded, OperationIdentity

\* A replay's receipt names the record it found.
LEMMA ReplayReceipt ==
    ASSUME Inv, NEW t \in Writers, Replay(t), receipts' # receipts
    PROVE  \E receipt :
              /\ receipt.index \in Indexes /\ receipt.operation.key \in Keys
              /\ receipts' = receipts \cup {receipt}
              /\ Recorded(db, receipt)
PROOF
  <1> DEFINE receipt == Receipt(op[t], db.operations[op[t].index][op[t].key].resulting)
  <1>1. op[t] \in Operations
    BY DEF Inv, RolesOK, WriterOK, Replay
  <1>2. receipt.index \in Indexes /\ receipt.operation.key \in Keys
    BY <1>1, OperationIdentityTyped DEF Receipt, OperationIdentity
  <1>3. receipts' = receipts \cup {receipt} /\ Recorded(db, receipt)
    BY DEF Replay, Receipt, Recorded, OperationIdentity
  <1>4. QED
    BY <1>2, <1>3

\* Only a replay and a publish hand out receipts.
LEMMA OnlyReceipts ==
    ASSUME [Next]_vars, receipts' # receipts
    PROVE  \E t \in Writers : Replay(t) \/ Publish(t)
  BY DEF Next, vars, WriterStep, ReadHead, ReadPayload, Recheck, Permit, Stage, Return,
         BeginPrepare, ReaderStep, BeginIndex, BeginRecover, RecovererStep, ListStaged,
         NothingStaged, Quarantine, Abandon, Restart

\* Every step keeps every receipt true, in memory and on disk.
LEMMA NextKeepsReceipts == StoreInv /\ ReceiptsInv /\ [Next]_vars => ReceiptsInv'
PROOF
  <1> SUFFICES ASSUME StoreInv, ReceiptsInv, [Next]_vars PROVE ReceiptsInv'
    OBVIOUS
  <1>1. StoreInv' /\ Kept(db, db') /\ Inv
    BY NextKeepsStoreInv DEF StoreInv
  <1>2. ASSUME NEW receipt, receipt.index \in Indexes, receipt.operation.key \in Keys,
               Recorded(db, receipt) \/ Recorded(db', receipt)
        PROVE  \A d \in Stores' : Recorded(d, receipt)
    <2>1. Recorded(db', receipt)
      BY <1>1, <1>2, RecordedStays
    <2>2. ASSUME NEW d \in Stores' PROVE Recorded(d, receipt)
      <3>1. d = db' \/ Kept(db', d)
        BY <1>1 DEF StoreInv, DiskKept, Stores
      <3>2. QED
        BY <1>2, <2>1, <3>1, RecordedStays
    <2>3. QED
      BY <2>2
  <1>3. ASSUME NEW receipt \in receipts'
        PROVE  /\ receipt.index \in Indexes /\ receipt.operation.key \in Keys
               /\ Recorded(db, receipt) \/ Recorded(db', receipt)
    <2>1. CASE receipt \in receipts
      BY <2>1 DEF ReceiptsInv, ReceiptOK, Stores
    <2>2. CASE receipt \notin receipts
      BY <1>1, <1>3, <2>2, OnlyReceipts, PublishReceipt, ReplayReceipt
    <2>3. QED
      BY <2>1, <2>2
  <1>4. QED
    BY <1>2, <1>3 DEF ReceiptsInv, ReceiptOK

\* A receipt is durable: whatever a reopen finds holds the record of every operation a
\* caller was told of, by publish or by replay (driver.rs), with the state it was told,
\* through failed commits, bypassing writers and process stops.
THEOREM ReceiptsDurable == Spec => []ReceiptsAreDurable
PROOF
  <1>1. Init => ReceiptsInv
    BY DEF Init, ReceiptsInv
  <1>2. ReceiptsInv => ReceiptsAreDurable
    BY DEF ReceiptsInv, ReceiptOK, Recorded, ReceiptsAreDurable
  <1>3. QED
    BY <1>1, <1>2, NextKeepsReceipts, StoreInvariance, PTL DEF Spec

(***************************************************************************)
(* The published history of an index, for every value of the constants:    *)
(* the chain of its audit records, the lineage of its members, payloads    *)
(* that read back, and the refinement of IndexHistory.                     *)
(*                                                                         *)
(* A batch either leaves the history of an index alone, adds one version   *)
(* to it, or ends it.  What a publish publishes is the payload its own     *)
(* operation builds from the store as it is, even when another writer      *)
(* staged it: the marker names the operation and the head has not moved.   *)
(***************************************************************************)

(***************************************************************************)
(* Batches, as steps of the histories of indexes.                          *)
(***************************************************************************)
SameHistory(d, n, i) ==
    /\ n.heads[i] = d.heads[i] /\ n.operations[i] = d.operations[i]
    /\ d.heads[i].state = "Active" =>
          \A v \in 1 .. d.heads[i].version : n.versions[i][v] = d.versions[i][v]

Applies(d, n, o) ==
    LET i == o.index
    IN  /\ PermittedIn(d, o)
        /\ d.operations[i][o.key] = None
        /\ n.heads[i] = SuccessorIn(d, o).head
        /\ n.operations[i] = [d.operations[i] EXCEPT ![o.key] = SuccessorIn(d, o).record]
        /\ o.transition # "Destroy" =>
              /\ n.versions[i][NextVersion(d, i)] = SuccessorIn(d, o).payload
              /\ \A v \in 1 .. d.heads[i].version : n.versions[i][v] = d.versions[i][v]

HistoryBatch(d, n) ==
    \/ \A i \in Indexes : SameHistory(d, n, i)
    \/ \E o \in Operations :
          /\ Applies(d, n, o)
          /\ \A i \in Indexes \ {o.index} : SameHistory(d, n, i)

\* The staged payload a publish finds is the one its own operation builds.
LEMMA PublishesSuccessor ==
    ASSUME NEW d, StoreOK(d), StagedBuilt(d), NEW n, NEW o \in Operations,
           PermittedIn(d, o), PublishBatch(d, n, o)
    PROVE  d.versions[o.index][NextVersion(d, o.index)] = SuccessorIn(d, o).payload
PROOF
  <1> DEFINE i == o.index
             v == NextVersion(d, i)
  <1>1. i \in Indexes /\ v \in IndexVersion
    BY VersionIn DEF PublishBatch
  <1>2. d.staging[i][v] = StagingMarker(o, v)
    BY DEF PublishBatch
  <1>3. StagingMarker(o, v) \in StagingMarkers
    BY <1>1, OperationIdentityTyped DEF StagingMarker, StagingMarkers
  <1>4. PICK p \in Operations : StagedBy(d, i, v, p)
    BY <1>1, <1>2, <1>3, NoneAssumption DEF StagedBuilt
  <1>5. OperationIdentity(p) = OperationIdentity(o)
    BY <1>2, <1>4 DEF StagedBy, StagingMarker
  <1>6. p = o
    BY <1>5, IdentityInjective
  <1>7. QED
    BY <1>4, <1>6 DEF StagedBy

\* stage and quarantine leave every history alone; publish and destroy take one
\* operation each into the history of its index.
LEMMA BatchIsHistory ==
    ASSUME NEW d, StoreOK(d), StagedBuilt(d), NEW n, Batch(d, n)
    PROVE  HistoryBatch(d, n)
PROOF
  <1>1. /\ d \in StoreType
        /\ \A i \in Indexes : d.heads[i].version \in 0 .. MaxVersion
    BY DEF StoreOK, StoreType, IndexRecords
  <1>2. ASSUME NEW o \in Operations, PermittedIn(d, o), StageBatch(d, n, o)
        PROVE  HistoryBatch(d, n)
    <2>1. o.index \in Indexes /\ NextVersion(d, o.index) \in IndexVersion
      BY <1>2, VersionIn DEF StageBatch
    <2>2. \A i \in Indexes : \A v \in 1 .. d.heads[i].version :
             n.versions[i][v] = d.versions[i][v]
      BY <1>1, <1>2, <2>1, MaxVersionAssumption
      DEF StageBatch, StoreType, NextVersion, IndexVersion
    <2>3. \A i \in Indexes : SameHistory(d, n, i)
      BY <1>2, <2>2 DEF StageBatch, SameHistory
    <2>4. QED
      BY <2>3 DEF HistoryBatch
  <1>3. ASSUME NEW o \in Operations, PermittedIn(d, o), PublishBatch(d, n, o)
        PROVE  HistoryBatch(d, n)
    <2>1. o.index \in Indexes /\ o.key \in Keys
      BY <1>3, VersionIn DEF PublishBatch
    <2>2. \A i \in Indexes \ {o.index} : SameHistory(d, n, i)
      BY <1>1, <1>3, <2>1 DEF PublishBatch, SameHistory, StoreType
    <2>3. d.versions[o.index][NextVersion(d, o.index)] = SuccessorIn(d, o).payload
      BY <1>3, PublishesSuccessor
    <2>4. Applies(d, n, o)
      BY <1>1, <1>3, <2>1, <2>3 DEF PublishBatch, Applies, StoreType
    <2>5. QED
      BY <2>2, <2>4 DEF HistoryBatch
  <1>4. ASSUME NEW o \in Operations, PermittedIn(d, o), DestroyBatch(d, n, o)
        PROVE  HistoryBatch(d, n)
    <2>1. o.index \in Indexes /\ o.key \in Keys
      BY <1>4, DestroyIn DEF DestroyBatch
    <2>2. \A i \in Indexes \ {o.index} : SameHistory(d, n, i)
      BY <1>1, <1>4, <2>1 DEF DestroyBatch, SameHistory, StoreType
    <2>3. Applies(d, n, o)
      BY <1>1, <1>4, <2>1 DEF DestroyBatch, Applies, StoreType
    <2>4. QED
      BY <2>2, <2>3 DEF HistoryBatch
  <1>5. ASSUME NEW i \in Indexes, NEW v \in IndexVersion, QuarantineBatch(d, n, i, v)
        PROVE  HistoryBatch(d, n)
    <2>1. v = NextVersion(d, i) /\ d.heads[i].version \in Nat
      BY <1>5, StagedAboveHead DEF QuarantineBatch
    <2>2. \A j \in Indexes : SameHistory(d, n, j)
      BY <1>1, <1>5, <2>1, MaxVersionAssumption
      DEF QuarantineBatch, SameHistory, StoreType, NextVersion, IndexVersion
    <2>3. QED
      BY <2>2 DEF HistoryBatch
  <1>6. QED
    BY <1>2, <1>3, <1>4, <1>5 DEF Batch

(***************************************************************************)
(* What one operation does to one member (apply.rs).                       *)
(***************************************************************************)
\* The entry and the content a member has in the active version, if there is one.
OldEntry(head, current, m) ==
    IF head.state = "Active" THEN current.members[m] ELSE None

OldContent(head, current, m) ==
    IF head.state = "Active" THEN current.engine.contents[m] ELSE None

Untouched(change, old) ==
    change = None \/ (change.kind = "AbsentOnRemove" /\ change.previous = old /\ old = None)

Changes(o, head, current, m) ==
    LET next == Successor(o, head, current)
        change == next.record.changes[m]
        old == OldEntry(head, current, m)
        entry == next.payload.members[m]
        content == next.payload.engine.contents[m]
    IN  \/ /\ Untouched(change, old)
           /\ entry = old /\ content = OldContent(head, current, m)
        \/ /\ head.state = "Active" /\ o.items[m] \in IndexMember
           /\ change = WrittenChange(old)
           /\ entry = Written(o.items[m], head.version + 1, old)
           /\ content = o.items[m].content
        \/ /\ head.state = "Active" /\ old # None
           /\ change # None /\ change.kind \in {"Removed", "Dropped"}
           /\ change.previous = old
           /\ entry = None /\ content = None

\* Every member of the next version is what it was, written by the operation, or gone,
\* and the record says which, with the entry that stood there.
LEMMA MemberStep ==
    ASSUME NEW o, NEW head, NEW current, Permitted(o, head, current),
           o.transition # "Destroy",
           head.state = "Active" =>
               Present(current.engine.contents) = Present(current.members),
           NEW m \in Members
    PROVE  Changes(o, head, current, m)
PROOF
  <1> DEFINE built == BuiltVersion(o, current)
             next == Successor(o, head, current)
             old == OldEntry(head, current, m)
  <1>1. /\ o \in Operations /\ o.transition \in Transitions
        /\ o.items \in [Members -> IndexMember \cup {None}]
    BY OperationsAssumption, OperationIdentityTyped DEF Permitted, LifecycleOperation
  <1>2. /\ next.record.changes[m] = built.changes[m]
        /\ next.payload.members[m] = built.members[m]
        /\ next.payload.engine.contents[m] = built.engine.contents[m]
    BY DEF Successor, PublishedSuccessor, OperationRecord, VersionPayload
  <1>3. CASE o.transition = "Create"
    <2>1. built = BuildCreate(o) /\ head = AbsentHead
      BY <1>3, PermittedState DEF BuiltVersion
    <2>2. head.state # "Active"
      BY <2>1 DEF AbsentHead
    <2>3. QED
      BY <1>2, <2>1, <2>2
      DEF BuildCreate, Built, NoChanges, EmptyTable, EmptyEngine, Changes, Untouched,
          OldEntry, OldContent
  <1>4. ASSUME o.transition # "Create"
        PROVE  /\ head.state = "Active" /\ current \in VersionPayloads
               /\ current.version = head.version
               /\ old = current.members[m]
               /\ OldContent(head, current, m) = current.engine.contents[m]
               /\ old = None => current.engine.contents[m] = None
               /\ old \in MemberEntries \cup {None}
    BY <1>4, PermittedState DEF Permitted, OldEntry, OldContent, Present, VersionPayloads
  <1>5. ASSUME NEW engine, engine \in Engines, NEW items, items = o.items
        PROVE  Inserted(engine, items).contents[m] =
                   IF items[m] # None THEN items[m].content ELSE engine.contents[m]
    BY <1>5 DEF Inserted, Engines
  <1>6. CASE o.transition = "Insert"
    <2>1. built = BuildInsert(o, current) /\ current.engine \in Engines
      BY <1>4, <1>6 DEF BuiltVersion, VersionPayloads
    <2>2. built.engine.contents[m] =
             IF o.items[m] # None THEN o.items[m].content ELSE current.engine.contents[m]
      BY <1>5, <2>1 DEF BuildInsert, Built
    <2>3. /\ built.members[m] = IF o.items[m] # None
                                THEN Written(o.items[m], head.version + 1, old) ELSE old
          /\ built.changes[m] = IF o.items[m] # None THEN WrittenChange(old) ELSE None
      BY <1>4, <1>6, <2>1 DEF BuildInsert, Built
    <2>4. QED
      BY <1>1, <1>2, <1>4, <1>6, <2>2, <2>3 DEF Changes, Untouched
  <1>7. CASE o.transition = "Remove"
    <2>1. built = BuildRemove(o, current) /\ current.engine \in Engines
      BY <1>4, <1>7 DEF BuiltVersion, VersionPayloads
    <2> DEFINE gone == m \in o.ids /\ old # None
    <2>2. built.engine.contents[m] = IF gone THEN None ELSE current.engine.contents[m]
      BY <1>4, <1>7, <2>1 DEF BuildRemove, Built, Engines
    <2>3. /\ built.members[m] = IF gone THEN None ELSE old
          /\ built.changes[m] =
                IF m \notin o.ids THEN None
                ELSE [kind |-> IF gone THEN "Removed" ELSE "AbsentOnRemove",
                      previous |-> old]
      BY <1>4, <1>7, <2>1 DEF BuildRemove, Built
    <2>4. [kind |-> "Removed", previous |-> old] # None
      BY <1>4, <1>7, NoneAssumption DEF MemberChanges
    <2>5. CASE gone
      BY <1>2, <1>4, <1>7, <2>2, <2>3, <2>4, <2>5 DEF Changes
    <2>6. CASE ~ gone
      BY <1>2, <1>4, <1>7, <2>2, <2>3, <2>6 DEF Changes, Untouched
    <2>7. QED
      BY <2>5, <2>6
  <1>8. CASE o.transition = "Rebuild"
    <2>1. built = BuildRebuild(o, current) /\ o.config \in Configs
      BY <1>1, <1>8, OperationsAssumption DEF BuiltVersion, LifecycleOperation, Checked
    <2>2. EmptyEngine(o.config) \in Engines /\ EmptyEngine(o.config).contents[m] = None
      BY <2>1, EmptyEngineTyped DEF EmptyEngine
    <2>3. built.engine.contents[m] = IF o.items[m] # None THEN o.items[m].content ELSE None
      BY <1>5, <2>1, <2>2 DEF BuildRebuild, Built
    <2>4. /\ built.members[m] = IF o.items[m] # None
                                THEN Written(o.items[m], head.version + 1, old) ELSE None
          /\ built.changes[m] = IF o.items[m] # None THEN WrittenChange(old)
                                ELSE IF old # None
                                THEN [kind |-> "Dropped", previous |-> old] ELSE None
      BY <1>4, <1>8, <2>1 DEF BuildRebuild, Built
    <2>5. [kind |-> "Dropped", previous |-> old] # None
      BY <1>4, <1>8, NoneAssumption DEF MemberChanges
    <2>6. CASE o.items[m] # None
      BY <1>1, <1>2, <1>4, <1>8, <2>3, <2>4, <2>6 DEF Changes
    <2>7. CASE o.items[m] = None /\ old # None
      BY <1>2, <1>4, <1>8, <2>3, <2>4, <2>5, <2>7 DEF Changes
    <2>8. CASE o.items[m] = None /\ old = None
      BY <1>2, <1>4, <1>8, <2>3, <2>4, <2>8 DEF Changes, Untouched
    <2>9. QED
      BY <2>6, <2>7, <2>8
  <1>9. QED
    BY <1>1, <1>3, <1>6, <1>7, <1>8 DEF Transitions

(***************************************************************************)
(* The chain of audit records.                                             *)
(***************************************************************************)
HistoryLength(head) == head.version + (IF head.state = "Destroyed" THEN 1 ELSE 0)

Done(d, i) == {k \in Keys : d.operations[i][k] # None}

PublishedState(v) == IndexState(ActiveHead(v, None))

\* Record k of the history goes from one version to the next, and every version but the
\* last of a destroyed index was published as it stands.
LinkOK(d, i, record) ==
    LET head == d.heads[i]
    IN  /\ record.from \in 0 .. HistoryLength(head) - 1
        /\ record.resulting = IF record.from < head.version THEN PublishedState(record.from + 1)
                                                           ELSE IndexState(head)
        /\ head.state = "Active" =>
              d.versions[i][record.from + 1].operation = record.operation

ChainOK(d, i) ==
    /\ d.heads[i].state = "Active" => IndexState(d.heads[i]) = PublishedState(d.heads[i].version)
    /\ \A k \in Done(d, i) : LinkOK(d, i, d.operations[i][k])
    /\ \A k, l \in Done(d, i) : d.operations[i][k].from = d.operations[i][l].from => k = l
    /\ \A v \in 0 .. HistoryLength(d.heads[i]) - 1 :
          \E k \in Done(d, i) : d.operations[i][k].from = v

\* What the store types say of one index.
LEMMA IndexTyped ==
    ASSUME NEW d, StoreOK(d), NEW i \in Indexes
    PROVE  /\ d.heads[i] \in IndexRecords /\ HeadOK(d.heads[i])
           /\ d.heads[i].version \in 0 .. MaxVersion /\ d.heads[i].version \in Nat
           /\ d.heads[i].state \in IndexStateKind
           /\ d.operations[i] \in [Keys -> OperationRecords \cup {None}]
           /\ \A k \in Done(d, i) : /\ d.operations[i][k] \in OperationRecords
                                    /\ d.operations[i][k].from \in Nat
  BY MaxVersionAssumption DEF StoreOK, StoreType, IndexRecords, Done, OperationRecords

\* A history that is left alone keeps its chain.
LEMMA SameKeepsChain ==
    ASSUME NEW d, StoreOK(d), NEW n, NEW i \in Indexes, SameHistory(d, n, i), ChainOK(d, i)
    PROVE  ChainOK(n, i)
PROOF
  <1>1. n.heads[i] = d.heads[i] /\ n.operations[i] = d.operations[i] /\ Done(n, i) = Done(d, i)
    BY DEF SameHistory, Done
  <1>2. ASSUME NEW k \in Done(d, i) PROVE LinkOK(n, i, d.operations[i][k])
    <2>1. d.heads[i].version \in Nat /\ d.operations[i][k].from \in Nat
      BY IndexTyped
    <2>2. LinkOK(d, i, d.operations[i][k])
      BY DEF ChainOK
    <2>3. d.heads[i].state = "Active" =>
             d.operations[i][k].from + 1 \in 1 .. d.heads[i].version
      BY <2>1, <2>2 DEF LinkOK, HistoryLength
    <2>4. QED
      BY <1>1, <2>2, <2>3 DEF LinkOK, SameHistory
  <1>3. QED
    BY <1>1, <1>2 DEF ChainOK

\* A publish adds the record of the next version, a destroy the last record of all.
LEMMA AppliesKeepsChain ==
    ASSUME NEW d, StoreOK(d), NEW n, NEW o \in Operations, Applies(d, n, o),
           ChainOK(d, o.index)
    PROVE  ChainOK(n, o.index)
PROOF
  <1> DEFINE i == o.index
             old == d.heads[i]
             new == n.heads[i]
             record == SuccessorIn(d, o).record
             version == d.heads[i].version
  <1>1. /\ PermittedIn(d, o) /\ d.operations[i][o.key] = None
        /\ new = SuccessorIn(d, o).head
        /\ n.operations[i] = [d.operations[i] EXCEPT ![o.key] = record]
    BY DEF Applies
  <1>2. /\ i \in Indexes /\ o.key \in Keys
        /\ record \in OperationRecords /\ record.from = version
        /\ record.operation = OperationIdentity(o) /\ record.resulting = IndexState(new)
    BY <1>1, VersionIn, DestroyIn
  <1>3. /\ version \in Nat /\ old.state # "Destroyed"
        /\ HistoryLength(old) = version
        /\ d.operations[i] \in [Keys -> OperationRecords \cup {None}]
        /\ \A k \in Done(d, i) : d.operations[i][k].from \in 0 .. version - 1
    <2>1. old.state # "Destroyed"
      BY <1>1, VersionIn, DestroyIn
    <2>2. QED
      BY <1>2, <2>1, IndexTyped DEF HistoryLength, ChainOK, LinkOK
  <1>4. /\ Done(n, i) = Done(d, i) \cup {o.key} /\ o.key \notin Done(d, i)
        /\ n.operations[i][o.key] = record
        /\ \A k \in Done(d, i) : n.operations[i][k] = d.operations[i][k]
    BY <1>1, <1>2, <1>3, NoneAssumption DEF Done
  <1>5. /\ HistoryLength(new) = version + 1
        /\ o.transition # "Destroy" => new = ActiveHead(version + 1, SuccessorIn(d, o).payload.config)
        /\ o.transition = "Destroy" => new.state = "Destroyed" /\ new.version = version
    BY <1>1, <1>3, VersionIn, DestroyIn DEF HistoryLength, ActiveHead, NextVersion
  <1>6. \A k, l \in Done(n, i) : n.operations[i][k].from = n.operations[i][l].from => k = l
    <2>1. \A k, l \in Done(d, i) : d.operations[i][k].from = d.operations[i][l].from => k = l
      BY DEF ChainOK
    <2>2. \A k \in Done(d, i) : n.operations[i][k].from # record.from
      BY <1>2, <1>3, <1>4
    <2>3. QED
      BY <1>4, <2>1, <2>2
  <1>7. \A v \in 0 .. HistoryLength(new) - 1 :
           \E k \in Done(n, i) : n.operations[i][k].from = v
    <2>1. \A v \in 0 .. version - 1 : \E k \in Done(d, i) : d.operations[i][k].from = v
      BY <1>3 DEF ChainOK
    <2>2. \A v \in 0 .. version : v \in 0 .. version - 1 \/ v = version
      BY <1>3
    <2>3. HistoryLength(new) - 1 = version
      BY <1>3, <1>5
    <2>4. QED
      BY <1>2, <1>4, <2>1, <2>2, <2>3
  <1>8. new.state = "Active" => IndexState(new) = PublishedState(new.version)
    BY <1>5 DEF ActiveHead, IndexState, PublishedState
  <1>9. ASSUME NEW k \in Done(d, i) PROVE LinkOK(n, i, d.operations[i][k])
    <2> DEFINE r == d.operations[i][k]
    <2>1. LinkOK(d, i, r) /\ r.from \in 0 .. version - 1
      BY <1>3 DEF ChainOK
    <2>2. version \in Nat /\ version >= 1 /\ old.state = "Active"
      BY <1>2, <1>3, <2>1, IndexTyped DEF IndexStateKind, HeadOK, AbsentHead
    <2>3. r.resulting = PublishedState(r.from + 1)
      BY <2>1, <2>2 DEF LinkOK
    <2>4. r.from < new.version /\ r.from \in 0 .. HistoryLength(new) - 1
      BY <1>5, <2>1, <2>2 DEF ActiveHead
    <2>5. new.state = "Active" => n.versions[i][r.from + 1] = d.versions[i][r.from + 1]
      BY <1>5, <2>1, <2>2 DEF Applies, ActiveHead
    <2>6. QED
      BY <2>1, <2>2, <2>3, <2>4, <2>5 DEF LinkOK
  <1>10. LinkOK(n, i, record)
    <2>1. record.from \in 0 .. HistoryLength(new) - 1
      BY <1>2, <1>3, <1>5
    <2>2. CASE o.transition # "Destroy"
      <3>1. /\ new.version = version + 1 /\ new.state = "Active"
            /\ n.versions[i][version + 1].operation = OperationIdentity(o)
            /\ IndexState(new) = PublishedState(version + 1)
        BY <1>1, <1>5, <1>8, <2>2, VersionIn DEF Applies, ActiveHead, NextVersion
      <3>2. QED
        BY <1>2, <1>3, <2>1, <3>1 DEF LinkOK
    <2>3. CASE o.transition = "Destroy"
      <3>1. new.version = version /\ new.state = "Destroyed"
        BY <1>5, <2>3
      <3>2. QED
        BY <1>2, <1>3, <2>1, <3>1 DEF LinkOK
    <2>4. QED
      BY <2>2, <2>3
  <1>11. QED
    BY <1>4, <1>6, <1>7, <1>8, <1>9, <1>10 DEF ChainOK

\* Such a chain is what AuditChainComplete asks for.
LEMMA ChainGivesAudit ==
    ASSUME NEW d, StoreOK(d), NEW i \in Indexes, ChainOK(d, i)
    PROVE  ChainOf(d, i)
PROOF
  <1> DEFINE head == d.heads[i]
             length == HistoryLength(head)
  <1>1. /\ head.version \in Nat /\ length \in Nat
        /\ \A k \in Done(d, i) : d.operations[i][k].from \in Nat
    BY IndexTyped DEF HistoryLength
  <1>2. ASSUME NEW v \in 1 .. length
        PROVE  \E r \in Records(d, i) :
                  /\ r.from = v - 1
                  /\ r.resulting.version = IF v <= head.version THEN v ELSE head.version
                  /\ v = length => r.resulting = IndexState(head)
                  /\ v <= head.version /\ head.state = "Active" =>
                        d.versions[i][v].operation = r.operation
    <2>1. v - 1 \in 0 .. length - 1 /\ v \in Nat
      BY <1>1
    <2>2. PICK k \in Done(d, i) : d.operations[i][k].from = v - 1
      BY <2>1 DEF ChainOK
    <2> DEFINE r == d.operations[i][k]
    <2>3. r \in Records(d, i) /\ LinkOK(d, i, r)
      BY <2>2 DEF Records, Done, ChainOK
    <2>4. r.from + 1 = v /\ (r.from < head.version <=> v <= head.version)
      BY <1>1, <2>1, <2>2
    <2>5. r.resulting = IF v <= head.version THEN PublishedState(v) ELSE IndexState(head)
      BY <2>3, <2>4 DEF LinkOK
    <2>6. r.resulting.version = IF v <= head.version THEN v ELSE head.version
      BY <2>5 DEF PublishedState, IndexState, ActiveHead
    <2>7. v = length => r.resulting = IndexState(head)
      <3>1. CASE head.state = "Active"
        BY <1>1, <2>5, <3>1 DEF HistoryLength, ChainOK
      <3>2. CASE head.state = "Destroyed"
        BY <1>1, <2>5, <3>2 DEF HistoryLength
      <3>3. CASE head.state = "Absent"
        BY <1>1, <2>1, <3>3, IndexTyped DEF HistoryLength, HeadOK, AbsentHead
      <3>4. QED
        BY <3>1, <3>2, <3>3, IndexTyped DEF IndexStateKind
    <2>8. QED
      BY <2>2, <2>3, <2>4, <2>6, <2>7 DEF LinkOK
  <1>3. QED
    BY <1>1, <1>2 DEF ChainOf, ChainOK, LinkOK, Done, HistoryLength

(***************************************************************************)
(* Published payloads read back, under the configuration their head names. *)
(***************************************************************************)
PayloadsOK(d, i) ==
    d.heads[i].state = "Active" =>
        /\ d.versions[i][d.heads[i].version].config = d.heads[i].config
        /\ \A v \in 1 .. d.heads[i].version : DecodesAs(d.versions[i][v], i, v)

\* A history that is left alone keeps its payloads.
LEMMA SameKeepsPayloads ==
    ASSUME NEW d, StoreOK(d), NEW n, NEW i \in Indexes, SameHistory(d, n, i),
           PayloadsOK(d, i)
    PROVE  PayloadsOK(n, i)
PROOF
  <1>1. d.heads[i].state = "Active" => d.heads[i].version \in 1 .. d.heads[i].version
    BY MaxVersionAssumption, IndexTyped DEF HeadOK, IndexVersion
  <1>2. QED
    BY <1>1 DEF SameHistory, PayloadsOK

\* insert and remove keep the configuration of the active version, create and rebuild
\* take the operation's, and the engine is built under it.
LEMMA ConfigStep ==
    ASSUME NEW o, NEW head, NEW current, Permitted(o, head, current),
           o.transition # "Destroy",
           head.state = "Active" => current.engine.config = current.config
    PROVE  LET payload == Successor(o, head, current).payload
           IN  /\ payload.config = IF o.transition \in {"Create", "Rebuild"}
                                   THEN o.config ELSE current.config
               /\ payload.engine.config = payload.config
               /\ payload.predecessor = payload.version - 1
PROOF
  <1> DEFINE built == BuiltVersion(o, current)
             payload == Successor(o, head, current).payload
  <1>1. o \in Operations /\ o.transition \in Transitions
    BY OperationIdentityTyped DEF Permitted
  <1>2. /\ payload.config = built.config /\ payload.engine = built.engine
        /\ payload.predecessor = payload.version - 1
    BY DEF Successor, PublishedSuccessor, VersionPayload
  <1>3. o.transition # "Create" => /\ current.engine.config = current.config
                                   /\ current.engine \in Engines
    BY PermittedState DEF Permitted, VersionPayloads
  <1>4. \A engine \in Engines : Inserted(engine, o.items).config = engine.config
    BY DEF Inserted, Engines
  <1>5. CASE o.transition = "Create"
    BY <1>2, <1>5 DEF BuiltVersion, BuildCreate, Built, EmptyEngine
  <1>6. CASE o.transition = "Insert"
    BY <1>2, <1>3, <1>4, <1>6 DEF BuiltVersion, BuildInsert, Built
  <1>7. CASE o.transition = "Remove"
    BY <1>2, <1>3, <1>7 DEF BuiltVersion, BuildRemove, Built, Engines
  <1>8. CASE o.transition = "Rebuild"
    <2>1. o.config \in Configs
      BY <1>1, <1>8, OperationsAssumption DEF LifecycleOperation, Checked
    <2>2. EmptyEngine(o.config) \in Engines /\ EmptyEngine(o.config).config = o.config
      BY <2>1, EmptyEngineTyped DEF EmptyEngine
    <2>3. QED
      BY <1>2, <1>4, <1>8, <2>2 DEF BuiltVersion, BuildRebuild, Built
  <1>9. QED
    BY <1>1, <1>5, <1>6, <1>7, <1>8 DEF Transitions

\* The version a head names is one of its published ones, and reads back.
LEMMA ActiveDecodes ==
    ASSUME NEW d, StoreOK(d), NEW i \in Indexes, PayloadsOK(d, i),
           d.heads[i].state = "Active"
    PROVE  /\ d.heads[i].version \in 1 .. d.heads[i].version
           /\ DecodesAs(d.versions[i][d.heads[i].version], i, d.heads[i].version)
PROOF
  <1>1. d.heads[i].version \in 1 .. d.heads[i].version
    BY MaxVersionAssumption, IndexTyped DEF HeadOK, IndexVersion
  <1>2. QED
    BY <1>1 DEF PayloadsOK

\* What an operation does to a member of the store it applies to.
LEMMA MemberStepIn ==
    ASSUME NEW d, StoreOK(d), NEW o \in Operations, PermittedIn(d, o),
           o.transition # "Destroy", PayloadsOK(d, o.index), NEW m \in Members
    PROVE  /\ Changes(o, d.heads[o.index], ActivePayload(d, o.index), m)
           /\ OldEntry(d.heads[o.index], ActivePayload(d, o.index), m)
                \in MemberEntries \cup {None}
           /\ d.heads[o.index].state = "Active" =>
                 /\ ActivePayload(d, o.index) = d.versions[o.index][d.heads[o.index].version]
                 /\ d.heads[o.index].version \in 1 .. d.heads[o.index].version
                 /\ DecodesAs(ActivePayload(d, o.index), o.index, d.heads[o.index].version)
PROOF
  <1> DEFINE head == d.heads[o.index]
             current == ActivePayload(d, o.index)
  <1>1. Permitted(o, head, current) /\ o.index \in Indexes
    BY VersionIn DEF PermittedIn
  <1>2. head.state = "Active" =>
           /\ current = d.versions[o.index][head.version]
           /\ head.version \in 1 .. head.version
           /\ DecodesAs(current, o.index, head.version)
    BY <1>1, ActiveDecodes DEF ActivePayload
  <1>3. head.state = "Active" => Present(current.engine.contents) = Present(current.members)
    BY <1>2 DEF DecodesAs
  <1>4. OldEntry(head, current, m) \in MemberEntries \cup {None}
    BY <1>1 DEF OldEntry, Permitted, VersionPayloads
  <1> HIDE DEF head, current
  <1>5. Changes(o, head, current, m)
    BY <1>1, <1>3, MemberStep
  <1>6. QED
    BY <1>2, <1>4, <1>5 DEF head, current

\* The next version reads back as the one after the head's.
LEMMA NextDecodes ==
    ASSUME NEW d, StoreOK(d), NEW o \in Operations, PermittedIn(d, o),
           o.transition # "Destroy", PayloadsOK(d, o.index)
    PROVE  DecodesAs(SuccessorIn(d, o).payload, o.index, NextVersion(d, o.index))
PROOF
  <1> DEFINE head == d.heads[o.index]
             current == ActivePayload(d, o.index)
             payload == SuccessorIn(d, o).payload
             v == NextVersion(d, o.index)
  <1>1. /\ payload \in VersionPayloads /\ payload.version = v /\ payload.index = o.index
        /\ v = head.version + 1 /\ head.version \in Nat
    BY VersionIn DEF NextVersion
  <1>2. Permitted(o, head, current) /\ SuccessorIn(d, o) = Successor(o, head, current)
        /\ o.index \in Indexes
    BY VersionIn DEF PermittedIn, SuccessorIn
  <1>3. head.state = "Active" => current.engine.config = current.config
    BY <1>2, ActiveDecodes DEF ActivePayload, DecodesAs
  <1>4. payload.engine.config = payload.config /\ payload.predecessor = payload.version - 1
    BY <1>2, <1>3, ConfigStep
  <1>5. ASSUME NEW m \in Members
        PROVE  LET entry == payload.members[m]
               IN  /\ payload.engine.contents[m] # None <=> entry # None
                   /\ entry # None =>
                         /\ entry.introduced <= v
                         /\ entry.supersedes # None => entry.supersedes < entry.introduced
    <2> DEFINE old == OldEntry(head, current, m)
               entry == payload.members[m]
    <2>1. /\ Changes(o, head, current, m) /\ old \in MemberEntries \cup {None}
          /\ head.state = "Active" => DecodesAs(current, o.index, head.version)
      BY MemberStepIn
    <2>2. /\ old # None => /\ old.introduced <= head.version
                           /\ old.supersedes # None => old.supersedes < old.introduced
          /\ OldContent(head, current, m) # None <=> old # None
      BY <2>1 DEF OldEntry, OldContent, DecodesAs, Present
    <2>3. old # None => old.introduced \in Nat
      BY <2>1, MaxVersionAssumption DEF MemberEntries, IndexVersion
    <2>4. CASE entry = old /\ payload.engine.contents[m] = OldContent(head, current, m)
      BY <1>1, <2>2, <2>3, <2>4
    <2>5. CASE /\ o.items[m] \in IndexMember
               /\ entry = Written(o.items[m], head.version + 1, old)
               /\ payload.engine.contents[m] = o.items[m].content
      <3>1. entry \in MemberEntries
        BY <1>1, <2>1, <2>5, WrittenTyped DEF VersionPayloads
      <3>2. entry # None /\ payload.engine.contents[m] # None
        BY <2>5, <3>1, NoneAssumption DEF IndexMember
      <3>3. entry.introduced = v /\ entry.supersedes = IF old # None THEN old.introduced ELSE None
        BY <1>1, <2>5 DEF Written, MemberEntry
      <3>4. QED
        BY <1>1, <2>2, <2>3, <3>2, <3>3
    <2>6. CASE entry = None /\ payload.engine.contents[m] = None
      BY <2>6
    <2>7. QED
      BY <1>2, <2>1, <2>4, <2>5, <2>6 DEF Changes
  <1>6. Present(payload.engine.contents) = Present(payload.members)
    BY <1>5 DEF Present
  <1>7. QED
    BY <1>1, <1>4, <1>5, <1>6 DEF DecodesAs, Present

\* A publish adds a payload that reads back, a destroy leaves none to read.
LEMMA AppliesKeepsPayloads ==
    ASSUME NEW d, StoreOK(d), NEW n, NEW o \in Operations, Applies(d, n, o),
           PayloadsOK(d, o.index)
    PROVE  PayloadsOK(n, o.index)
PROOF
  <1>1. PermittedIn(d, o) /\ n.heads[o.index] = SuccessorIn(d, o).head
    BY DEF Applies
  <1>2. CASE o.transition = "Destroy"
    BY <1>1, <1>2, DestroyIn DEF PayloadsOK
  <1>3. CASE o.transition # "Destroy"
    <2> DEFINE v == NextVersion(d, o.index)
               payload == SuccessorIn(d, o).payload
    <2>1. /\ d.heads[o.index].version \in Nat /\ v = d.heads[o.index].version + 1
          /\ n.heads[o.index] = ActiveHead(v, payload.config)
          /\ d.heads[o.index].state # "Destroyed" /\ o.index \in Indexes
      BY <1>1, <1>3, VersionIn DEF NextVersion
    <2>2. DecodesAs(payload, o.index, v)
      BY <1>1, <1>3, NextDecodes
    <2>3. /\ n.versions[o.index][v] = payload
          /\ \A u \in 1 .. d.heads[o.index].version :
                n.versions[o.index][u] = d.versions[o.index][u]
      BY <1>3 DEF Applies
    <2>4. \A u \in 1 .. d.heads[o.index].version : DecodesAs(d.versions[o.index][u], o.index, u)
      BY <2>1, IndexTyped DEF PayloadsOK, IndexStateKind, HeadOK, AbsentHead
    <2>5. \A u \in 1 .. v : u = v \/ u \in 1 .. d.heads[o.index].version
      BY <2>1
    <2>6. n.heads[o.index].version = v /\ n.heads[o.index].config = payload.config
      BY <2>1 DEF ActiveHead
    <2>7. QED
      BY <2>2, <2>3, <2>4, <2>5, <2>6 DEF PayloadsOK
  <1>4. QED
    BY <1>2, <1>3

(***************************************************************************)
(* The lineage of members.                                                 *)
(***************************************************************************)
\* An entry of a published table is the one its version wrote, and links to the entry
\* that stood there before.  The first version holds no members, so there is a version
\* before the introducing one.
EntryOK(d, i, v, m) ==
    LET entry == d.versions[i][v].members[m]
        origin == d.versions[i][entry.introduced]
        before == d.versions[i][entry.introduced - 1].members[m]
    IN  entry # None =>
          /\ entry.introduced \in 2 .. v
          /\ origin.members[m] = entry
          /\ origin.engine.contents[m] = d.versions[i][v].engine.contents[m]
          /\ entry.supersedes = IF before = None THEN None ELSE before.introduced

LineageOK(d, i) ==
    d.heads[i].state = "Active" =>
        \A v \in 1 .. d.heads[i].version : \A m \in Members : EntryOK(d, i, v, m)

\* An entry depends only on the versions up to its own.
LEMMA EntryStays ==
    ASSUME NEW d, NEW n, NEW i, NEW h \in Nat, NEW v \in 1 .. h, NEW m,
           \A u \in 1 .. h : n.versions[i][u] = d.versions[i][u],
           EntryOK(d, i, v, m)
    PROVE  EntryOK(n, i, v, m)
PROOF
  <1> DEFINE entry == d.versions[i][v].members[m]
  <1>1. n.versions[i][v] = d.versions[i][v]
    OBVIOUS
  <1>2. CASE entry = None
    BY <1>1, <1>2 DEF EntryOK
  <1>3. CASE entry # None
    <2>1. entry.introduced \in 2 .. v
      BY <1>3 DEF EntryOK
    <2>2. entry.introduced \in 1 .. h /\ entry.introduced - 1 \in 1 .. h
      BY <2>1
    <2>3. QED
      BY <1>1, <2>2 DEF EntryOK
  <1>4. QED
    BY <1>2, <1>3

\* A history that is left alone keeps its lineage.
LEMMA SameKeepsLineage ==
    ASSUME NEW d, StoreOK(d), NEW n, NEW i \in Indexes, SameHistory(d, n, i),
           LineageOK(d, i)
    PROVE  LineageOK(n, i)
PROOF
  <1>1. d.heads[i].version \in Nat
    BY IndexTyped
  <1>2. QED
    BY <1>1, EntryStays DEF SameHistory, LineageOK

\* The entries an operation keeps are those of the version before, the ones it writes
\* are introduced by its own.
LEMMA AppliesKeepsLineage ==
    ASSUME NEW d, StoreOK(d), NEW n, NEW o \in Operations, Applies(d, n, o),
           PayloadsOK(d, o.index), LineageOK(d, o.index)
    PROVE  LineageOK(n, o.index)
PROOF
  <1> DEFINE i == o.index
             head == d.heads[i]
             current == ActivePayload(d, i)
             h == d.heads[i].version
             payload == SuccessorIn(d, o).payload
  <1>1. PermittedIn(d, o) /\ n.heads[i] = SuccessorIn(d, o).head
    BY DEF Applies
  <1>2. CASE o.transition = "Destroy"
    BY <1>1, <1>2, DestroyIn DEF LineageOK
  <1>3. CASE o.transition # "Destroy"
    <2>1. /\ h \in Nat /\ NextVersion(d, i) = h + 1 /\ i \in Indexes
          /\ n.heads[i].version = h + 1 /\ head.state # "Destroyed"
      BY <1>1, <1>3, VersionIn DEF NextVersion
    <2>2. /\ n.versions[i][h + 1] = payload
          /\ \A u \in 1 .. h : n.versions[i][u] = d.versions[i][u]
      BY <1>3, <2>1 DEF Applies
    <2>3. ASSUME NEW v \in 1 .. h, NEW m \in Members
          PROVE  EntryOK(n, i, v, m)
      <3>1. head.state = "Active"
        BY <2>1, IndexTyped DEF IndexStateKind, HeadOK, AbsentHead
      <3>2. EntryOK(d, i, v, m)
        BY <3>1 DEF LineageOK
      <3>3. QED
        BY <2>1, <2>2, <3>2, EntryStays
    <2>4. ASSUME NEW m \in Members
          PROVE  EntryOK(n, i, h + 1, m)
      <3> DEFINE old == OldEntry(head, current, m)
                 entry == payload.members[m]
                 content == payload.engine.contents[m]
      <3>1. /\ Changes(o, head, current, m) /\ old \in MemberEntries \cup {None}
            /\ head.state = "Active" =>
                  /\ current = d.versions[i][h] /\ h \in 1 .. h
        BY <1>1, <1>3, MemberStepIn
      <3>2. SuccessorIn(d, o) = Successor(o, head, current)
        BY DEF SuccessorIn
      <3>3. CASE entry = old /\ content = OldContent(head, current, m) /\ entry # None
        <4>1. head.state = "Active" /\ old = current.members[m]
              /\ content = current.engine.contents[m]
          BY <3>3 DEF OldEntry, OldContent
        <4>2. EntryOK(d, i, h, m)
          BY <3>1, <4>1 DEF LineageOK
        <4>3. d.versions[i][h].members[m] = entry /\ d.versions[i][h].engine.contents[m] = content
          BY <3>1, <3>3, <4>1
        <4>4. entry.introduced \in 2 .. h
          BY <3>3, <4>2, <4>3 DEF EntryOK
        <4>5. /\ entry.introduced \in 1 .. h /\ entry.introduced - 1 \in 1 .. h
              /\ entry.introduced \in 2 .. h + 1
          BY <2>1, <4>4
        <4> HIDE DEF entry, content, h
        <4>6. QED
          BY <2>2, <3>3, <4>2, <4>3, <4>5 DEF EntryOK, entry, content
      <3>4. CASE /\ head.state = "Active" /\ o.items[m] \in IndexMember
                 /\ entry = Written(o.items[m], h + 1, old)
        <4>1. /\ entry.introduced = h + 1
              /\ entry.supersedes = IF old # None THEN old.introduced ELSE None
          BY <3>4 DEF Written, MemberEntry
        <4>2. n.versions[i][h].members[m] = old /\ h + 1 \in 2 .. h + 1 /\ (h + 1) - 1 = h
          BY <2>1, <2>2, <3>1, <3>4 DEF OldEntry
        <4> HIDE DEF entry, content, h, old
        <4>3. QED
          BY <2>2, <4>1, <4>2 DEF EntryOK, entry, content
      <3>5. CASE entry = None
        BY <2>2, <3>5 DEF EntryOK
      <3>6. QED
        BY <3>1, <3>2, <3>3, <3>4, <3>5 DEF Changes
    <2>5. \A v \in 1 .. h + 1 : v = h + 1 \/ v \in 1 .. h
      BY <2>1
    <2>6. QED
      BY <2>1, <2>3, <2>4, <2>5 DEF LineageOK
  <1>4. QED
    BY <1>2, <1>3

(***************************************************************************)
(* The audit of members.                                                   *)
(***************************************************************************)
\* The records that touched a member before a version, and the last of them.
Earlier(S, v, m) == {s \in S : s.from < v /\ Touches(s, m)}
Latest(S, v, m) == {s \in Earlier(S, v, m) : \A u \in Earlier(S, v, m) : u.from <= s.from}

\* The records alone say which entry a member had before a version.
Explains(S, v, m, previous) ==
    IF \E s \in Latest(S, v, m) : Writes(s, m)
    THEN \E s \in Latest(S, v, m) :
            previous = [provenance |-> s.operation.digest.items[m].provenance,
                        introduced |-> s.from + 1,
                        supersedes |->
                            IF s.changes[m].kind = "Replaced"
                            THEN s.changes[m].previous.introduced ELSE None]
    ELSE previous = None

AuditOK(d, i) ==
    /\ \A r \in Records(d, i), m \in Members :
          r.changes[m] # None => Explains(Records(d, i), r.from, m, r.changes[m].previous)
    /\ d.heads[i].state = "Active" =>
          \A m \in Members :
             Explains(Records(d, i), d.heads[i].version, m,
                      d.versions[i][d.heads[i].version].members[m])

\* A record changes nothing of what stood before the version it starts from.
LEMMA LaterExplains ==
    ASSUME NEW S, NEW r, NEW v \in Int, r.from \in Int, r.from >= v,
           NEW m, NEW previous, Explains(S, v, m, previous)
    PROVE  Explains(S \cup {r}, v, m, previous)
PROOF
  <1>1. Earlier(S \cup {r}, v, m) = Earlier(S, v, m)
    BY DEF Earlier
  <1>2. QED
    BY <1>1 DEF Explains, Latest

\* A record that does not touch a member leaves it what it was.
LEMMA UntouchedExplains ==
    ASSUME NEW S, NEW h \in Nat, \A s \in S : s.from \in 0 .. h - 1,
           NEW r, NEW m, ~ Touches(r, m), NEW previous, Explains(S, h, m, previous)
    PROVE  Explains(S \cup {r}, h + 1, m, previous)
PROOF
  <1>1. Earlier(S \cup {r}, h + 1, m) = Earlier(S, h, m)
    BY DEF Earlier
  <1>2. QED
    BY <1>1 DEF Explains, Latest

\* A record that touches a member and comes after all the others is the latest.
LEMMA TouchedLatest ==
    ASSUME NEW S, NEW h \in Nat, \A s \in S : s.from \in 0 .. h - 1,
           NEW r, r.from = h, NEW m, Touches(r, m)
    PROVE  Latest(S \cup {r}, h + 1, m) = {r}
PROOF
  <1>1. r \in Earlier(S \cup {r}, h + 1, m)
    BY DEF Earlier
  <1>2. \A s \in Earlier(S \cup {r}, h + 1, m) : s = r \/ s.from \in 0 .. h - 1
    BY DEF Earlier
  <1>3. r \in Latest(S \cup {r}, h + 1, m)
    BY <1>1, <1>2 DEF Latest
  <1>4. ASSUME NEW s \in Latest(S \cup {r}, h + 1, m) PROVE s = r
    <2>1. s \in Earlier(S \cup {r}, h + 1, m) /\ h <= s.from
      BY <1>1 DEF Latest
    <2>2. s.from \notin 0 .. h - 1
      BY <2>1
    <2>3. QED
      BY <1>2, <2>1, <2>2
  <1>5. QED
    BY <1>3, <1>4

\* The records of an index, as the chain numbers them.
LEMMA RecordsTyped ==
    ASSUME NEW d, StoreOK(d), NEW i \in Indexes, ChainOK(d, i), d.heads[i].state # "Destroyed"
    PROVE  \A r \in Records(d, i) : r.from \in 0 .. d.heads[i].version - 1
PROOF
  <1>1. \A k \in Done(d, i) : d.operations[i][k].from \in 0 .. d.heads[i].version - 1
    BY IndexTyped DEF ChainOK, LinkOK, HistoryLength
  <1>2. QED
    BY <1>1 DEF Records, Done

\* What an operation finds is what the records explain: nothing, when there is no index.
LEMMA OldExplained ==
    ASSUME NEW d, StoreOK(d), NEW i \in Indexes, ChainOK(d, i), AuditOK(d, i),
           d.heads[i].state # "Destroyed", NEW m \in Members
    PROVE  Explains(Records(d, i), d.heads[i].version, m,
                    OldEntry(d.heads[i], ActivePayload(d, i), m))
PROOF
  <1>1. CASE d.heads[i].state = "Active"
    BY <1>1 DEF AuditOK, OldEntry, ActivePayload
  <1>2. CASE d.heads[i].state # "Active"
    <2>1. d.heads[i].version = 0
      BY <1>2, IndexTyped DEF IndexStateKind, HeadOK, AbsentHead
    <2>2. Records(d, i) = {}
      BY <2>1, RecordsTyped
    <2>3. QED
      BY <1>2, <2>2 DEF Explains, Latest, Earlier, OldEntry
  <1>3. QED
    BY <1>1, <1>2

\* A history that is left alone keeps its audit.
LEMMA SameKeepsAudit ==
    ASSUME NEW d, StoreOK(d), NEW n, NEW i \in Indexes, SameHistory(d, n, i), AuditOK(d, i)
    PROVE  AuditOK(n, i)
PROOF
  <1>1. Records(n, i) = Records(d, i) /\ n.heads[i] = d.heads[i]
    BY DEF SameHistory, Records
  <1>2. d.heads[i].state = "Active" => d.heads[i].version \in 1 .. d.heads[i].version
    BY MaxVersionAssumption, IndexTyped DEF HeadOK, IndexVersion
  <1>3. d.heads[i].state = "Active" =>
           n.versions[i][d.heads[i].version] = d.versions[i][d.heads[i].version]
    BY <1>2 DEF SameHistory
  <1>4. QED
    BY <1>1, <1>3 DEF AuditOK

\* Such an audit is what ProvenanceHolds asks of the records.
LEMMA AuditGivesExplained ==
    ASSUME NEW d, NEW i \in Indexes, AuditOK(d, i)
    PROVE  ExplainedIn(d, i)
  BY DEF AuditOK, ExplainedIn, Explains, Latest, Earlier

\* A record names the entry each member it changes had when the operation found it.
LEMMA RecordNamesOld ==
    ASSUME NEW d, StoreOK(d), NEW o \in Operations, PermittedIn(d, o),
           PayloadsOK(d, o.index), NEW m \in Members,
           SuccessorIn(d, o).record.changes[m] # None
    PROVE  SuccessorIn(d, o).record.changes[m].previous =
               OldEntry(d.heads[o.index], ActivePayload(d, o.index), m)
PROOF
  <1> DEFINE head == d.heads[o.index]
             current == ActivePayload(d, o.index)
  <1>1. SuccessorIn(d, o) = Successor(o, head, current)
    BY DEF SuccessorIn
  <1>2. CASE o.transition = "Destroy"
    <2>1. head.state = "Active"
      BY <1>2, DestroyIn
    <2> HIDE DEF head, current
    <2>2. Successor(o, head, current).record.changes[m] =
             IF current.members[m] # None
             THEN [kind |-> "Retired", previous |-> current.members[m]] ELSE None
      BY <1>2 DEF Successor, DestroySuccessor, OperationRecord
    <2>3. QED
      BY <1>1, <2>1, <2>2 DEF OldEntry, head, current
  <1>3. CASE o.transition # "Destroy"
    <2>1. Changes(o, head, current, m)
      BY <1>3, MemberStepIn
    <2> HIDE DEF head, current
    <2>2. QED
      BY <1>1, <2>1 DEF Changes, Untouched, WrittenChange, head, current
  <1>4. QED
    BY <1>2, <1>3

\* The record of a publish says of every member which entry it now has.
LEMMA RecordExplainsNew ==
    ASSUME NEW d, StoreOK(d), NEW o \in Operations, PermittedIn(d, o),
           o.transition # "Destroy", ChainOK(d, o.index), PayloadsOK(d, o.index),
           AuditOK(d, o.index), NEW m \in Members
    PROVE  Explains(Records(d, o.index) \cup {SuccessorIn(d, o).record},
                    NextVersion(d, o.index), m, SuccessorIn(d, o).payload.members[m])
PROOF
  <1> DEFINE i == o.index
             head == d.heads[i]
             current == ActivePayload(d, i)
             h == d.heads[i].version
             S == Records(d, i)
             r == SuccessorIn(d, o).record
             entry == SuccessorIn(d, o).payload.members[m]
             old == OldEntry(head, current, m)
             change == r.changes[m]
  <1>1. /\ h \in Nat /\ NextVersion(d, i) = h + 1 /\ i \in Indexes
        /\ head.state # "Destroyed" /\ r.from = h
        /\ r.operation = OperationIdentity(o)
    BY VersionIn DEF NextVersion
  <1>2. \A s \in S : s.from \in 0 .. h - 1
    BY <1>1, RecordsTyped
  <1>3. Explains(S, h, m, old)
    BY <1>1, OldExplained
  <1>4. /\ Changes(o, head, current, m) /\ old \in MemberEntries \cup {None}
        /\ SuccessorIn(d, o) = Successor(o, head, current)
    BY MemberStepIn DEF SuccessorIn
  <1> HIDE DEF S, h, r, head, current, old, i
  <1>5. CASE Untouched(change, old) /\ entry = old
    <2>1. ~ Touches(r, m)
      BY <1>5 DEF Untouched, Touches
    <2>2. QED
      BY <1>1, <1>2, <1>3, <1>5, <2>1, UntouchedExplains DEF S, r, i
  <1>6. CASE /\ o.items[m] \in IndexMember /\ change = WrittenChange(old)
             /\ entry = Written(o.items[m], h + 1, old)
    <2>1. change \in MemberChanges
      BY <1>4, <1>6 DEF WrittenChange, MemberChanges
    <2>2. Touches(r, m) /\ Writes(r, m)
      BY <1>6, <2>1, NoneAssumption DEF Touches, Writes, WrittenChange
    <2>3. Latest(S \cup {r}, h + 1, m) = {r}
      BY <1>1, <1>2, <2>2, TouchedLatest
    <2>4. entry = [provenance |-> r.operation.digest.items[m].provenance,
                   introduced |-> r.from + 1,
                   supersedes |-> IF r.changes[m].kind = "Replaced"
                                  THEN r.changes[m].previous.introduced ELSE None]
      BY <1>1, <1>6 DEF Written, MemberEntry, WrittenChange, OperationIdentity
    <2>5. QED
      BY <1>1, <2>2, <2>3, <2>4 DEF Explains, S, r, i
  <1>7. CASE change # None /\ change.kind \in {"Removed", "Dropped"} /\ entry = None
    <2>1. Touches(r, m) /\ ~ Writes(r, m)
      BY <1>7 DEF Touches, Writes
    <2>2. Latest(S \cup {r}, h + 1, m) = {r}
      BY <1>1, <1>2, <2>1, TouchedLatest
    <2>3. QED
      BY <1>1, <1>7, <2>1, <2>2 DEF Explains, S, r, i
  <1>8. QED
    BY <1>4, <1>5, <1>6, <1>7 DEF Changes, r, h, head, current, old, i

\* Every operation leaves an audit that explains the members it found and those it left.
LEMMA AppliesKeepsAudit ==
    ASSUME NEW d, StoreOK(d), NEW n, NEW o \in Operations, Applies(d, n, o),
           ChainOK(d, o.index), PayloadsOK(d, o.index), AuditOK(d, o.index)
    PROVE  AuditOK(n, o.index)
PROOF
  <1> DEFINE i == o.index
             h == d.heads[i].version
             S == Records(d, i)
             r == SuccessorIn(d, o).record
  <1>1. PermittedIn(d, o) /\ n.heads[i] = SuccessorIn(d, o).head
    BY DEF Applies
  <1>2. /\ i \in Indexes /\ o.key \in Keys /\ h \in Nat
        /\ r \in OperationRecords /\ r.from = h /\ d.heads[i].state # "Destroyed"
    BY <1>1, VersionIn, DestroyIn, IndexTyped
  <1>3. Records(n, i) = S \cup {r}
    <2>1. /\ d.operations[i] \in [Keys -> OperationRecords \cup {None}]
          /\ d.operations[i][o.key] = None
          /\ n.operations[i] = [d.operations[i] EXCEPT ![o.key] = r]
      BY <1>2, IndexTyped DEF Applies
    <2>2. /\ Done(n, i) = Done(d, i) \cup {o.key} /\ n.operations[i][o.key] = r
          /\ \A k \in Done(d, i) : n.operations[i][k] = d.operations[i][k]
      BY <1>2, <2>1, NoneAssumption DEF Done
    <2>3. \A e : Records(e, i) = {e.operations[i][k] : k \in Done(e, i)}
      BY DEF Records, Done
    <2>4. QED
      BY <2>2, <2>3
  <1>4. \A s \in S : s.from \in 0 .. h - 1
    BY <1>2, RecordsTyped
  <1>5. ASSUME NEW s \in Records(n, i), NEW m \in Members, s.changes[m] # None
        PROVE  Explains(Records(n, i), s.from, m, s.changes[m].previous)
    <2>1. CASE s = r
      <3>1. Explains(S, h, m, s.changes[m].previous)
        BY <1>1, <1>2, <1>5, <2>1, RecordNamesOld, OldExplained
      <3> HIDE DEF S, h, r
      <3>2. QED
        BY <1>2, <1>3, <2>1, <3>1, LaterExplains
    <2>2. CASE s \in S
      <3>1. Explains(S, s.from, m, s.changes[m].previous)
        BY <1>5, <2>2 DEF AuditOK
      <3>2. s.from \in Int /\ r.from \in Int /\ r.from >= s.from
        BY <1>2, <1>4, <2>2
      <3> HIDE DEF S, h, r
      <3>3. QED
        BY <1>3, <3>1, <3>2, LaterExplains
    <2>3. QED
      BY <1>3, <1>5, <2>1, <2>2
  <1>6. ASSUME n.heads[i].state = "Active", NEW m \in Members
        PROVE  Explains(Records(n, i), n.heads[i].version, m,
                        n.versions[i][n.heads[i].version].members[m])
    <2>1. o.transition # "Destroy"
      BY <1>1, <1>6, DestroyIn
    <2>2. /\ n.heads[i].version = NextVersion(d, i)
          /\ n.versions[i][NextVersion(d, i)] = SuccessorIn(d, o).payload
      BY <1>1, <2>1, VersionIn DEF Applies
    <2>3. QED
      BY <1>1, <1>3, <2>1, <2>2, RecordExplainsNew
  <1>7. QED
    BY <1>5, <1>6 DEF AuditOK

(***************************************************************************)
(* Histories, in every store a read or a reopen may see.                   *)
(***************************************************************************)
HistoryOK(d, i) == ChainOK(d, i) /\ PayloadsOK(d, i) /\ LineageOK(d, i) /\ AuditOK(d, i)

HistoriesOK(d) == \A i \in Indexes : HistoryOK(d, i)

\* A batch keeps the history of every index, those it leaves alone and the one an
\* operation is applied to.
LEMMA BatchKeepsHistories ==
    ASSUME NEW d, StoreOK(d), HistoriesOK(d), NEW n, HistoryBatch(d, n)
    PROVE  HistoriesOK(n)
PROOF
  <1>1. ASSUME NEW i \in Indexes, SameHistory(d, n, i) PROVE HistoryOK(n, i)
    BY <1>1, SameKeepsChain, SameKeepsPayloads, SameKeepsLineage, SameKeepsAudit
    DEF HistoriesOK, HistoryOK
  <1>2. ASSUME NEW o \in Operations, Applies(d, n, o) PROVE HistoryOK(n, o.index)
    <2>1. o.index \in Indexes
      BY OperationIdentityTyped
    <2>2. HistoryOK(d, o.index)
      BY <2>1 DEF HistoriesOK
    <2>3. QED
      BY <1>2, <2>2, AppliesKeepsChain, AppliesKeepsPayloads, AppliesKeepsLineage,
         AppliesKeepsAudit
      DEF HistoryOK
  <1>3. QED
    BY <1>1, <1>2 DEF HistoryBatch, HistoriesOK

\* A store without an index has no history.
LEMMA EmptyHistories == HistoriesOK(EmptyStore)
PROOF
  <1> SUFFICES ASSUME NEW i \in Indexes PROVE HistoryOK(EmptyStore, i)
    BY DEF HistoriesOK
  <1>1. /\ EmptyStore.heads[i].state = "Absent" /\ EmptyStore.heads[i].version = 0
        /\ \A k \in Keys : EmptyStore.operations[i][k] = None
    BY DEF EmptyStore, AbsentHead
  <1>2. ChainOK(EmptyStore, i)
    BY <1>1 DEF ChainOK, Done, HistoryLength
  <1>3. AuditOK(EmptyStore, i)
    BY <1>1 DEF AuditOK, Records
  <1>4. QED
    BY <1>1, <1>2, <1>3 DEF HistoryOK, PayloadsOK, LineageOK

\* What a reopen may find is the history reads see, or that with one batch more.
DiskHistory == \A d \in onDisk : HistoryBatch(db, d)

HistoryInv == (\A d \in Stores : HistoriesOK(d)) /\ DiskHistory

\* A history is left alone by nothing at all.
LEMMA HistoryOfNothing == \A d : HistoryBatch(d, d)
  BY DEF HistoryBatch, SameHistory

\* A new backend has no history.
LEMMA InitHistory == Init => HistoryInv
  BY EmptyHistories, HistoryOfNothing
  DEF Init, StoreInit, HistoryInv, Stores, DiskHistory

\* Every step takes the stores a batch further in their history, or a reopen there.
LEMMA NextKeepsHistory ==
    StoreInv /\ StagesInv /\ HistoryInv /\ [Next]_vars =>
        HistoryInv' /\ HistoryBatch(db, db')
PROOF
  <1> SUFFICES ASSUME StoreInv, StagesInv, HistoryInv, Moves
               PROVE  HistoryInv' /\ HistoryBatch(db, db')
    BY NextKeepsStoreInv
  <1>1. StoreOK(db) /\ StagedBuilt(db) /\ HistoriesOK(db)
    BY DEF StoreInv, Inv, StoresOK, StagesInv, StagesOK, HistoryInv, Stores
  <1>2. ASSUME NEW n, Batch(db, n) PROVE HistoryBatch(db, n) /\ HistoriesOK(n)
    BY <1>1, <1>2, BatchIsHistory, BatchKeepsHistories
  <1>3. QED
    BY <1>2, HistoryOfNothing DEF Moves, HistoryInv, Stores, DiskHistory

LifecycleInv == StoreInv /\ StagesInv /\ HistoryInv

\* Every reachable state of the lifecycle satisfies the three parts: its stores, what is
\* staged in them, and the histories they hold.
THEOREM LifecycleInvariance == Spec => []LifecycleInv
PROOF
  <1>1. Init => LifecycleInv
    BY InitStoreInv, InitStages, InitHistory DEF LifecycleInv
  <1>2. LifecycleInv /\ [Next]_vars => LifecycleInv'
    BY NextKeepsStoreInv, NextKeepsStages, NextKeepsHistory DEF LifecycleInv
  <1>3. QED
    BY <1>1, <1>2, PTL DEF Spec

\* The operation records of an index form one chain in every store a read or a reopen
\* may see: one record for each version and one for a destroy, each naming the operation
\* whose payload is stored (publish and destroy of the adapters, apply.rs).
THEOREM AuditChain == Spec => []AuditChainComplete
PROOF
  <1>1. LifecycleInv => AuditChainComplete
    BY ChainGivesAudit
    DEF LifecycleInv, StoreInv, Inv, StoresOK, HistoryInv, HistoriesOK, HistoryOK,
        AuditChainComplete, Stores
  <1>2. QED
    BY <1>1, LifecycleInvariance, PTL

\* The lineage this proof keeps is the one LineageHolds asks for.
LEMMA LineageGivesHistory ==
    ASSUME NEW d, StoreOK(d), NEW i \in Indexes, LineageOK(d, i)
    PROVE  LineageOf(d, i)
PROOF
  <1>1. \A v \in 1 .. d.heads[i].version : \A x : x \in 2 .. v => x \in 1 .. v
    OBVIOUS
  <1>2. QED
    BY <1>1 DEF LineageOK, EntryOK, LineageOf, Present

\* The history of every member can be followed back: through the payloads of a live
\* index to the version that introduced each entry, and through the records of any index
\* to the operation that wrote what another displaced (apply.rs, member.rs).
THEOREM Provenance == Spec => []ProvenanceHolds
PROOF
  <1>1. LifecycleInv => ProvenanceHolds
    BY LineageGivesHistory, AuditGivesExplained
    DEF LifecycleInv, StoreInv, Inv, StoresOK, HistoryInv, HistoriesOK, HistoryOK,
        ProvenanceHolds, LineageHolds, AuditExplainsMembers, Stores
  <1>2. QED
    BY <1>1, LifecycleInvariance, PTL

(***************************************************************************)
(* The refinement of IndexHistory.                                         *)
(***************************************************************************)
\* What reads of a store see of an index, as IndexView says of the one they see.
View(d, i) ==
    LET head == d.heads[i]
    IN  [kind |-> head.state, version |-> head.version, config |-> head.config,
         contents |-> IF head.state = "Active"
                      THEN d.versions[i][head.version].engine.contents
                      ELSE [m \in Members |-> None],
         applied |-> {k \in Keys : d.operations[i][k] # None}]

\* What IndexHistory makes of a view when an operation is applied to it.
ViewAfter(s, o) ==
    [kind |-> IF o.transition = "Destroy" THEN "Destroyed" ELSE "Active",
     version |-> IF o.transition = "Destroy" THEN s.version ELSE s.version + 1,
     config |-> IF o.transition \in {"Create", "Rebuild"} THEN o.config ELSE s.config,
     contents |-> History!After(o, s.contents),
     applied |-> s.applied \cup {o.key}]

\* The engine that create, insert, remove and rebuild of apply.rs build holds for each
\* member what IndexHistory says the operation leaves.
LEMMA ContentStep ==
    ASSUME NEW o, NEW head, NEW current, Permitted(o, head, current),
           o.transition # "Destroy", NEW contents,
           head.state = "Active" =>
               /\ Present(current.engine.contents) = Present(current.members)
               /\ contents = current.engine.contents
    PROVE  Successor(o, head, current).payload.engine.contents = History!After(o, contents)
PROOF
  <1> DEFINE built == BuiltVersion(o, current)
  <1>1. /\ o \in Operations /\ o.transition \in Transitions
        /\ o.items \in [Members -> IndexMember \cup {None}]
    BY OperationsAssumption, OperationIdentityTyped DEF Permitted, LifecycleOperation
  <1>2. Successor(o, head, current).payload.engine.contents = built.engine.contents
    BY DEF Successor, PublishedSuccessor, VersionPayload
  <1>3. o.transition # "Create" =>
           /\ contents = current.engine.contents
           /\ current.engine \in Engines
           /\ \A m \in Members : current.members[m] = None => contents[m] = None
    BY PermittedState DEF Permitted, VersionPayloads, Present
  <1>4. ASSUME NEW engine \in Engines, NEW items
        PROVE  Inserted(engine, items).contents =
                  [m \in Members |-> IF items[m] # None THEN items[m].content
                                                       ELSE engine.contents[m]]
    BY DEF Inserted, Engines
  <1>5. CASE o.transition = "Create"
    BY <1>2, <1>5 DEF BuiltVersion, BuildCreate, Built, EmptyEngine, History!After,
        History!Nothing
  <1>6. CASE o.transition = "Insert"
    <2>1. built.engine.contents = Inserted(current.engine, o.items).contents
      BY <1>6 DEF BuiltVersion, BuildInsert, Built
    <2>2. QED
      BY <1>2, <1>3, <1>4, <1>6, <2>1 DEF History!After
  <1>7. CASE o.transition = "Remove"
    <2>1. built.engine.contents =
             [m \in Members |-> IF m \in o.ids /\ current.members[m] # None THEN None
                                ELSE contents[m]]
      BY <1>3, <1>7 DEF BuiltVersion, BuildRemove, Built, Engines
    <2>2. built.engine.contents = [m \in Members |-> IF m \in o.ids THEN None ELSE contents[m]]
      BY <1>3, <1>7, <2>1
    <2>3. QED
      BY <1>2, <1>7, <2>2 DEF History!After
  <1>8. CASE o.transition = "Rebuild"
    <2>1. o.config \in Configs
      BY <1>1, <1>8, OperationsAssumption DEF LifecycleOperation, Checked
    <2>2. /\ EmptyEngine(o.config) \in Engines
          /\ \A m \in Members : EmptyEngine(o.config).contents[m] = None
      BY <2>1, EmptyEngineTyped DEF EmptyEngine
    <2>3. built.engine.contents = Inserted(EmptyEngine(o.config), o.items).contents
      BY <1>8 DEF BuiltVersion, BuildRebuild, Built
    <2>4. built.engine.contents =
             [m \in Members |-> IF o.items[m] = None THEN None ELSE o.items[m].content]
      BY <1>4, <2>2, <2>3
    <2>5. QED
      BY <1>2, <1>8, <2>4 DEF History!After
  <1>9. QED
    BY <1>1, <1>5, <1>6, <1>7, <1>8 DEF Transitions

\* Publishing or destroying takes an index from one view to the one IndexHistory names,
\* under a key that was not applied, from the state the operation is permitted in.
LEMMA AppliesView ==
    ASSUME NEW d, StoreOK(d), NEW n, NEW o \in Operations, Applies(d, n, o),
           PayloadsOK(d, o.index)
    PROVE  /\ o.key \notin View(d, o.index).applied
           /\ View(d, o.index).kind = IF o.transition = "Create" THEN "Absent" ELSE "Active"
           /\ View(n, o.index) = ViewAfter(View(d, o.index), o)
PROOF
  <1> DEFINE i == o.index
             head == d.heads[i]
             current == ActivePayload(d, i)
             s == View(d, i)
             next == SuccessorIn(d, o)
  <1>1. /\ PermittedIn(d, o) /\ Permitted(o, head, current)
        /\ d.operations[i][o.key] = None
        /\ n.heads[i] = next.head
        /\ n.operations[i] = [d.operations[i] EXCEPT ![o.key] = next.record]
        /\ next = Successor(o, head, current)
    BY DEF Applies, PermittedIn, SuccessorIn
  <1>2. i \in Indexes /\ o.key \in Keys /\ next.record \in OperationRecords
    BY <1>1, VersionIn, DestroyIn
  <1>3. o.key \notin s.applied /\ View(n, i).applied = s.applied \cup {o.key}
    <2>1. d.operations[i] \in [Keys -> OperationRecords \cup {None}]
      BY <1>2, IndexTyped
    <2>2. QED
      BY <1>1, <1>2, <2>1, NoneAssumption DEF View
  <1>4. s.kind = IF o.transition = "Create" THEN "Absent" ELSE "Active"
    BY <1>1, PermittedState DEF View, AbsentHead
  <1>5. CASE o.transition = "Destroy"
    <2>1. n.heads[i].state = "Destroyed" /\ n.heads[i].version = head.version
          /\ n.heads[i].config = head.config
      BY <1>1, <1>5, DestroyIn
    <2>2. View(n, i) = ViewAfter(s, o)
      BY <1>3, <1>5, <2>1 DEF View, ViewAfter, History!After, History!Nothing
    <2>3. QED
      BY <1>3, <1>4, <2>2
  <1>6. CASE o.transition # "Destroy"
    <2>1. /\ n.heads[i] = ActiveHead(head.version + 1, next.payload.config)
          /\ NextVersion(d, i) = head.version + 1
      BY <1>1, <1>6, VersionIn DEF NextVersion
    <2>2. n.versions[i][head.version + 1] = next.payload
      BY <1>6, <2>1 DEF Applies
    <2>3. head.state = "Active" =>
             /\ current = d.versions[i][head.version]
             /\ DecodesAs(current, i, head.version)
             /\ current.config = head.config
      BY <1>2, ActiveDecodes DEF ActivePayload, PayloadsOK
    <2>4. next.payload.config =
             IF o.transition \in {"Create", "Rebuild"} THEN o.config ELSE head.config
      <3>1. head.state = "Active" => current.engine.config = current.config
        BY <2>3 DEF DecodesAs
      <3>2. next.payload.config =
               IF o.transition \in {"Create", "Rebuild"} THEN o.config ELSE current.config
        BY <1>1, <1>6, <3>1, ConfigStep
      <3>3. QED
        BY <1>1, <2>3, <3>2, PermittedState
    <2>5. next.payload.engine.contents = History!After(o, s.contents)
      <3>1. head.state = "Active" =>
               /\ Present(current.engine.contents) = Present(current.members)
               /\ s.contents = current.engine.contents
        BY <2>3 DEF DecodesAs, View
      <3>2. QED
        BY <1>1, <1>6, <3>1, ContentStep
    <2>6. /\ n.heads[i].state = "Active" /\ n.heads[i].version = head.version + 1
          /\ n.heads[i].config = next.payload.config
      BY <2>1 DEF ActiveHead
    <2>7. /\ s.version = head.version /\ s.config = head.config
          /\ View(n, i).contents = next.payload.engine.contents
      BY <2>2, <2>6 DEF View
    <2>8. View(n, i) = ViewAfter(s, o)
      BY <1>3, <1>6, <2>4, <2>5, <2>6, <2>7 DEF View, ViewAfter
    <2>9. QED
      BY <1>3, <1>4, <2>8
  <1>7. QED
    BY <1>5, <1>6

\* A history that is left alone looks the same.
LEMMA SameView ==
    ASSUME NEW d, StoreOK(d), NEW n, NEW i \in Indexes, SameHistory(d, n, i)
    PROVE  View(n, i) = View(d, i)
PROOF
  <1>1. d.heads[i].state = "Active" => d.heads[i].version \in 1 .. d.heads[i].version
    BY MaxVersionAssumption, IndexTyped DEF HeadOK, IndexVersion
  <1>2. d.heads[i].state = "Active" =>
           n.versions[i][d.heads[i].version] = d.versions[i][d.heads[i].version]
    BY <1>1 DEF SameHistory
  <1>3. QED
    BY <1>2 DEF SameHistory, View

\* A step of the driver is an operation of the abstract history, or none.
LEMMA NextIsHistory ==
    ASSUME LifecycleInv, [Next]_vars
    PROVE  [History!Next]_([i \in Indexes |-> IndexView(i)])
PROOF
  <1> DEFINE before == [i \in Indexes |-> View(db, i)]
             after == [i \in Indexes |-> View(db', i)]
  <1>1. /\ [i \in Indexes |-> IndexView(i)] = before
        /\ [i \in Indexes |-> IndexView(i)]' = after
    BY DEF IndexView, View
  <1>2. StoreOK(db) /\ HistoriesOK(db) /\ HistoryBatch(db, db')
    BY NextKeepsHistory
    DEF LifecycleInv, StoreInv, Inv, StoresOK, HistoryInv, Stores
  <1>3. CASE \A i \in Indexes : SameHistory(db, db', i)
    <2>1. after = before
      BY <1>2, <1>3, SameView
    <2>2. QED
      BY <1>1, <2>1
  <1>4. ASSUME NEW o \in Operations, Applies(db, db', o),
               \A i \in Indexes \ {o.index} : SameHistory(db, db', i)
        PROVE  [i \in Indexes |-> IndexView(i)]' =
                   [[i \in Indexes |-> IndexView(i)] EXCEPT ![o.index] =
                       ViewAfter([i \in Indexes |-> IndexView(i)][o.index], o)]
               /\ o.key \notin [i \in Indexes |-> IndexView(i)][o.index].applied
               /\ [i \in Indexes |-> IndexView(i)][o.index].kind =
                      IF o.transition = "Create" THEN "Absent" ELSE "Active"
    <2>1. o.index \in Indexes
      BY OperationIdentityTyped
    <2>2. PayloadsOK(db, o.index)
      BY <1>2, <2>1 DEF HistoriesOK, HistoryOK
    <2>3. before[o.index] = View(db, o.index) /\ after[o.index] = View(db', o.index)
      BY <2>1
    <2>4. \A i \in Indexes \ {o.index} : after[i] = before[i]
      BY <1>2, <1>4, SameView
    <2>5. /\ o.key \notin before[o.index].applied
          /\ before[o.index].kind = IF o.transition = "Create" THEN "Absent" ELSE "Active"
          /\ after[o.index] = ViewAfter(before[o.index], o)
      BY <1>2, <1>4, <2>2, <2>3, AppliesView
    <2>6. after = [before EXCEPT ![o.index] = ViewAfter(before[o.index], o)]
      BY <2>4, <2>5
    <2> HIDE DEF before, after
    <2>7. QED
      BY <1>1, <2>5, <2>6
  <1>5. CASE \E o \in Operations : /\ Applies(db, db', o)
                                   /\ \A i \in Indexes \ {o.index} : SameHistory(db, db', i)
    <2>1. PICK o \in Operations : /\ Applies(db, db', o)
                                  /\ \A i \in Indexes \ {o.index} : SameHistory(db, db', i)
      BY <1>5
    <2>2. History!Apply(o)
      BY <1>4, <2>1 DEF History!Apply, ViewAfter
    <2>3. QED
      BY <2>2 DEF History!Next
  <1>6. QED
    BY <1>2, <1>3, <1>5 DEF HistoryBatch

\* The driver implements the history: every operation takes effect at most once and all
\* at once on the version before it, whatever was staged, retried, interleaved, refused,
\* half written or restarted on the way (lifecycle/driver.rs over either adapter).
THEOREM Implementation == Spec => ImplementsHistory
PROOF
  <1>1. Init => History!Init
    <2> SUFFICES ASSUME Init PROVE History!Init
      OBVIOUS
    <2>1. ASSUME NEW i \in Indexes
          PROVE  IndexView(i) = [kind |-> "Absent", version |-> 0, config |-> None,
                                 contents |-> [m \in Members |-> None], applied |-> {}]
      <3>1. /\ db.heads[i] = AbsentHead
            /\ \A k \in Keys : db.operations[i][k] = None
        BY DEF Init, StoreInit, EmptyStore
      <3>2. {k \in Keys : db.operations[i][k] # None} = {}
        BY <3>1
      <3>3. QED
        BY <3>1, <3>2 DEF IndexView, AbsentHead
    <2>2. QED
      BY <2>1 DEF History!Init, History!Nothing
  <1>2. LifecycleInv /\ [Next]_vars => [History!Next]_([i \in Indexes |-> IndexView(i)])
    BY NextIsHistory
  <1>3. QED
    BY <1>1, <1>2, LifecycleInvariance, PTL DEF Spec, ImplementsHistory, History!Spec

(***************************************************************************)
(* What one call of the driver may rely on while others run, for every     *)
(* value of the constants.                                                 *)
(*                                                                         *)
(* Reads take no lock.  No call ever reports damage, and index() returns   *)
(* only versions that were published whole, although a head and its        *)
(* payload are read at different times.  The argument is about a head a    *)
(* thread read some steps ago: while the index lives, the version that     *)
(* head names keeps its payload, under the configuration the head named;   *)
(* when the payload is gone the index is destroyed, and stays so until     *)
(* the second head read.                                                   *)
(*                                                                         *)
(* Operations take the backend's writer.  When no thread bypasses it, an   *)
(* operation that started finds the store as it read it until it           *)
(* publishes.  Nothing in the driver refuses a second operation: the       *)
(* argument is that the thread of a running call owns the writer           *)
(* (writer.rs), that only running calls write, and so that what one read   *)
(* still stands.                                                           *)
(***************************************************************************)

(***************************************************************************)
(* A step of one thread leaves what every other thread holds.              *)
(***************************************************************************)
Holds(t) == <<pc[t], op[t], seenHead[t], seenPayload[t], found[t], result[t]>>

WriterActs(t) == WriterStep(t) \/ \E o \in Operations : BeginPrepare(t, o)
ReaderActs(r) == ReaderStep(r) \/ \E i \in Indexes : BeginIndex(r, i)
RecovererActs(q) == RecovererStep(q) \/ BeginRecover(q)

\* The thread of a step is the only one whose call moves on (driver.rs shares nothing
\* between two operations but the backend and its writer).
LEMMA ActsAlone ==
    ASSUME Inv, NEW u \in Threads,
           \/ u \in Writers /\ WriterActs(u)
           \/ u \in Readers /\ ReaderActs(u)
           \/ u \in Recoverers /\ RecovererActs(u)
           \/ Abandon(u),
           NEW t \in Threads, t # u
    PROVE  UNCHANGED Holds(t)
PROOF
  <1>1. ThreadsTyped
    BY DEF Inv
  <1>2. ASSUME \/ \E outcome : Finish(u, outcome)
               \/ \E next : Continue(u, next)
               \/ Idle(u) \/ Staged(u)
        PROVE  UNCHANGED Holds(t)
    BY <1>1, <1>2 DEF Holds, Finish, Continue, Idle, Staged, ThreadsTyped
  <1>3. ASSUME \/ (\E next : ReadPayload(u, next)) \/ (\E gone : Recheck(u, gone))
               \/ Return(u) \/ Abandon(u)
        PROVE  UNCHANGED Holds(t)
    BY <1>1, <1>2, <1>3 DEF ReadPayload, Recheck, Return, Abandon, Holds, ThreadsTyped
  <1>4. ASSUME WriterActs(u) PROVE UNCHANGED Holds(t)
    <2>1. CASE ReadHead(u) \/ \E o \in Operations : BeginPrepare(u, o)
      BY <1>1, <2>1 DEF ReadHead, BeginPrepare, Holds, ThreadsTyped
    <2>2. CASE Replay(u) \/ Permit(u) \/ Stage(u) \/ Publish(u)
      BY <1>2, <2>2 DEF Replay, Permit, Stage, Publish
    <2>3. QED
      BY <1>3, <1>4, <2>1, <2>2 DEF WriterActs, WriterStep
  <1>5. ASSUME ReaderActs(u) PROVE UNCHANGED Holds(t)
    <2>1. ASSUME NEW i \in Indexes, BeginIndex(u, i) PROVE UNCHANGED Holds(t)
      BY <1>1, <2>1 DEF BeginIndex, Holds, ThreadsTyped
    <2>2. QED
      BY <1>3, <1>5, <2>1 DEF ReaderActs, ReaderStep
  <1>6. ASSUME RecovererActs(u) PROVE UNCHANGED Holds(t)
    <2>1. CASE BeginRecover(u)
      BY <1>1, <2>1 DEF BeginRecover, Holds, ThreadsTyped
    <2>2. ASSUME NEW i \in Indexes, NEW v \in IndexVersion, ListStaged(u, i, v)
          PROVE  UNCHANGED Holds(t)
      BY <1>1, <2>2 DEF ListStaged, Holds, ThreadsTyped
    <2>3. CASE Quarantine(u)
      BY <1>1, <2>3 DEF Quarantine, Holds, ThreadsTyped
    <2>4. CASE NothingStaged(u)
      BY <1>2, <2>4 DEF NothingStaged
    <2>5. QED
      BY <1>3, <1>6, <2>1, <2>2, <2>3, <2>4 DEF RecovererActs, RecovererStep
  <1>7. QED
    BY <1>3, <1>4, <1>5, <1>6

\* A step is one of the thread's own, or one that leaves what it holds.
LEMMA OwnOrOther ==
    ASSUME Inv, [Next]_vars, NEW t \in Threads
    PROVE  \/ UNCHANGED Holds(t)
           \/ Restart \/ Abandon(t)
           \/ t \in Writers /\ WriterActs(t)
           \/ t \in Readers /\ ReaderActs(t)
           \/ t \in Recoverers /\ RecovererActs(t)
PROOF
  <1>1. CASE UNCHANGED vars
    BY <1>1 DEF vars, threadVars, Holds
  <1>2. ASSUME NEW u \in Threads,
               \/ u \in Writers /\ WriterActs(u)
               \/ u \in Readers /\ ReaderActs(u)
               \/ u \in Recoverers /\ RecovererActs(u)
               \/ Abandon(u)
        PROVE  \/ UNCHANGED Holds(t)
               \/ Abandon(t)
               \/ t \in Writers /\ WriterActs(t)
               \/ t \in Readers /\ ReaderActs(t)
               \/ t \in Recoverers /\ RecovererActs(t)
    <2>1. CASE u = t
      BY <1>2, <2>1
    <2>2. CASE u # t
      BY <1>2, <2>2, ActsAlone
    <2>3. QED
      BY <2>1, <2>2
  <1>3. CASE Next
    BY <1>2, <1>3 DEF Next, WriterActs, ReaderActs, RecovererActs, Threads
  <1>4. QED
    BY <1>1, <1>3

(***************************************************************************)
(* A head that was read some steps ago.                                    *)
(***************************************************************************)
SeenOK(d, p, i, seen) ==
    p \in {"replay", "payload", "recheck"} /\ seen.state = "Active" =>
        /\ HeadPast(seen, d.heads[i])
        /\ d.heads[i].state = "Active" =>
              /\ p # "recheck"
              /\ seen.version \in 1 .. d.heads[i].version
              /\ d.versions[i][seen.version].config = seen.config

\* A version that was published whole: its operation is on record as producing it.
PublishedOnce(d, i, payload) ==
    \E k \in Keys :
        LET record == d.operations[i][k]
        IN  /\ record # None
            /\ record.operation = payload.operation
            /\ record.resulting = IndexState(ActiveHead(payload.version, payload.config))

Damage == {"CorruptSnapshot", "VersionStored"}

\* What a thread holds is sound.
ReadOK(t) ==
    /\ t \in Writers \cup Readers => SeenOK(db, pc[t], IndexOf(t), seenHead[t])
    /\ result[t] \notin Damage
    /\ t \in Readers /\ result[t] = "Found" =>
          /\ pc[t] = "done" /\ found[t].index \in Indexes
          /\ PublishedOnce(db, found[t].index, seenPayload[t])

ReadInv == \A t \in Threads : ReadOK(t)

\* A head stays as sound as it was when the store moves on: a live index keeps its
\* versions, a destroyed one stays destroyed.
LEMMA SeenStays ==
    ASSUME NEW d, StoreOK(d), NEW n, StoreOK(n), Kept(d, n),
           NEW p, NEW i \in Indexes, NEW seen \in IndexRecords, HeadOK(seen),
           SeenOK(d, p, i, seen)
    PROVE  SeenOK(n, p, i, seen)
PROOF
  <1> SUFFICES ASSUME p \in {"replay", "payload", "recheck"}, seen.state = "Active"
               PROVE  /\ HeadPast(seen, n.heads[i])
                      /\ n.heads[i].state = "Active" =>
                            /\ p # "recheck"
                            /\ seen.version \in 1 .. n.heads[i].version
                            /\ n.versions[i][seen.version].config = seen.config
    BY DEF SeenOK
  <1>1. /\ d.heads[i] \in IndexRecords /\ n.heads[i] \in IndexRecords
        /\ HeadOK(d.heads[i]) /\ HeadStep(d.heads[i], n.heads[i])
        /\ HeadPast(seen, d.heads[i])
    BY DEF StoreOK, StoreType, Kept, SeenOK
  <1>2. HeadPast(seen, n.heads[i])
    BY <1>1, PastStays
  <1>3. seen.version \in Nat /\ seen.version >= 1
    BY MaxVersionAssumption DEF HeadOK, IndexVersion
  <1>4. d.heads[i].state # "Absent"
    BY <1>1, <1>3 DEF HeadPast, HeadOK, AbsentHead
  <1>5. ASSUME n.heads[i].state = "Active"
        PROVE  /\ p # "recheck"
               /\ seen.version \in 1 .. n.heads[i].version
               /\ n.versions[i][seen.version].config = seen.config
    <2>1. d.heads[i].state = "Active"
      BY <1>1, <1>4, <1>5 DEF HeadStep, IndexRecords, IndexStateKind
    <2>2. /\ p # "recheck" /\ seen.version \in 1 .. d.heads[i].version
          /\ d.versions[i][seen.version].config = seen.config
      BY <2>1 DEF SeenOK
    <2>3. n.heads[i].version >= d.heads[i].version
          /\ n.heads[i].version \in Nat /\ d.heads[i].version \in Nat
      BY <1>1, MaxVersionAssumption DEF HeadStep, IndexRecords
    <2>4. n.versions[i][seen.version] = d.versions[i][seen.version]
      BY <1>5, <2>2 DEF Kept, PublishedKept
    <2>5. QED
      BY <1>3, <2>2, <2>3, <2>4
  <1>6. QED
    BY <1>2, <1>5

\* A head that is read now is sound.
LEMMA SeenNow ==
    ASSUME NEW d, StoreOK(d), NEW i \in Indexes, PayloadsOK(d, i), NEW p, p # "recheck"
    PROVE  SeenOK(d, p, i, d.heads[i])
PROOF
  <1>1. d.heads[i].state = "Active" => d.heads[i].version \in 1 .. d.heads[i].version
    BY ActiveDecodes
  <1>2. QED
    BY <1>1 DEF SeenOK, HeadPast, PayloadsOK

\* The payload a sound head names is there, reads back and has the head's configuration,
\* unless the index is no longer active.
LEMMA SeenPayload ==
    ASSUME NEW d, StoreOK(d), NEW i \in Indexes, PayloadsOK(d, i),
           NEW seen \in IndexRecords, HeadOK(seen), seen.state = "Active",
           SeenOK(d, "payload", i, seen)
    PROVE  LET payload == d.versions[i][seen.version]
           IN  /\ payload = None <=> d.heads[i].state # "Active"
               /\ payload # None =>
                     /\ DecodesAs(payload, i, seen.version)
                     /\ payload.config = seen.config
                     /\ seen.version \in 1 .. d.heads[i].version
PROOF
  <1>1. seen.version \in IndexVersion
    BY DEF HeadOK
  <1>2. CASE d.heads[i].state = "Active"
    <2>1. /\ seen.version \in 1 .. d.heads[i].version
          /\ d.versions[i][seen.version].config = seen.config
      BY <1>2 DEF SeenOK
    <2>2. DecodesAs(d.versions[i][seen.version], i, seen.version)
      BY <1>2, <2>1 DEF PayloadsOK
    <2>3. d.versions[i][seen.version] # None
      BY <1>1, <1>2, <2>1 DEF StoreOK, PayloadLayout
    <2>4. QED
      BY <1>2, <2>1, <2>2, <2>3
  <1>3. CASE d.heads[i].state # "Active"
    <2>1. d.heads[i].state = "Destroyed"
      <3>1. HeadPast(seen, d.heads[i]) /\ d.heads[i] \in IndexRecords /\ HeadOK(d.heads[i])
        BY DEF SeenOK, StoreOK, StoreType
      <3>2. d.heads[i].state # "Absent"
        BY <1>1, <3>1, MaxVersionAssumption DEF HeadPast, HeadOK, AbsentHead, IndexVersion
      <3>3. QED
        BY <1>3, <3>1, <3>2 DEF IndexRecords, IndexStateKind
    <2>2. d.versions[i][seen.version] = None
      BY <1>1, <2>1 DEF StoreOK, PayloadLayout
    <2>3. QED
      BY <1>3, <2>2
  <1>4. QED
    BY <1>2, <1>3

\* A published version is on record, and stays there.
LEMMA VersionPublished ==
    ASSUME NEW d, StoreOK(d), NEW i \in Indexes, ChainOK(d, i), PayloadsOK(d, i),
           d.heads[i].state = "Active", NEW v \in 1 .. d.heads[i].version
    PROVE  PublishedOnce(d, i, d.versions[i][v])
PROOF
  <1>1. d.heads[i].version \in Nat /\ v - 1 \in 0 .. HistoryLength(d.heads[i]) - 1
    BY IndexTyped DEF HistoryLength
  <1>2. PICK k \in Done(d, i) : d.operations[i][k].from = v - 1
    BY <1>1 DEF ChainOK
  <1>3. LinkOK(d, i, d.operations[i][k])
    BY DEF ChainOK
  <1>4. (v - 1) + 1 = v /\ v - 1 < d.heads[i].version
    BY <1>1
  <1>5. /\ d.operations[i][k].operation = d.versions[i][v].operation
        /\ d.operations[i][k].resulting = PublishedState(v)
    BY <1>2, <1>3, <1>4 DEF LinkOK
  <1>6. d.versions[i][v].version = v
    BY DEF PayloadsOK, DecodesAs
  <1>7. QED
    BY <1>5, <1>6
    DEF PublishedOnce, PublishedState, IndexState, ActiveHead, Done

\* A record, once written, keeps saying so.
LEMMA PublishedStays ==
    ASSUME NEW d, NEW n, Kept(d, n), NEW i \in Indexes, NEW payload,
           PublishedOnce(d, i, payload)
    PROVE  PublishedOnce(n, i, payload)
  BY DEF PublishedOnce, Kept, RecordsKept

(***************************************************************************)
(* The steps of writers and readers.                                       *)
(***************************************************************************)
\* The index and head of a thread between its two reads.
LEMMA ReadingTyped ==
    ASSUME Inv, NEW t \in Writers \cup Readers, pc[t] \in {"replay", "payload", "recheck"}
    PROVE  /\ t \in Threads /\ IndexOf(t) \in Indexes
           /\ seenHead[t] \in IndexRecords /\ HeadOK(seenHead[t])
           /\ pc[t] \in {"payload", "recheck"} => seenHead[t].state = "Active"
           /\ t \in Readers => found[t].index \in Indexes
PROOF
  <1>1. t \in Threads /\ seenHead[t] \in IndexRecords
    BY DEF Threads, Inv, ThreadsTyped
  <1>2. CASE t \in Writers
    <2>1. WriterOK(pc[t], op[t], seenHead[t], seenPayload[t]) /\ t \notin Readers
      BY <1>2, ThreadsAssumption DEF Inv, RolesOK
    <2>2. op[t].index \in Indexes
      BY <2>1, OperationIdentityTyped DEF WriterOK
    <2>3. QED
      BY <1>1, <1>2, <2>1, <2>2 DEF WriterOK, IndexOf
  <1>3. CASE t \in Readers
    <2>1. ReaderOK(pc[t], seenHead[t], found[t]) /\ t \notin Writers
      BY <1>3, ThreadsAssumption DEF Inv, RolesOK
    <2>2. QED
      BY <1>1, <1>3, <2>1 DEF ReaderOK, IndexOf, Reads
  <1>4. QED
    BY <1>2, <1>3

\* The state of every index is sound in the store reads see.
LEMMA SoundStore ==
    ASSUME LifecycleInv, NEW i \in Indexes
    PROVE  StoreOK(db) /\ ChainOK(db, i) /\ PayloadsOK(db, i)
  BY DEF LifecycleInv, StoreInv, Inv, StoresOK, HistoryInv, HistoriesOK, HistoryOK, Stores

\* The first read of a payload meets no damage, and when it finds none the index is
\* destroyed for the second read of the head (active_payload of driver.rs).
LEMMA ReadPayloadSound ==
    ASSUME LifecycleInv, ReadInv, NEW t \in Writers \cup Readers, NEW next,
           next \in {"permit", "done"}, ReadPayload(t, next)
    PROVE  \/ /\ pc'[t] = "recheck" /\ UNCHANGED <<op, found, seenHead, result>>
              /\ SeenOK(db, "recheck", IndexOf(t), seenHead[t])
           \/ /\ pc'[t] = next /\ UNCHANGED <<op, found, seenHead>>
              /\ result'[t] = IF next = "done" THEN "Found" ELSE result[t]
              /\ IndexOf(t) \in Indexes
              /\ PublishedOnce(db, IndexOf(t), seenPayload'[t])
PROOF
  <1> DEFINE i == IndexOf(t)
             seen == seenHead[t]
             payload == db.versions[i][seen.version]
  <1>1. /\ ThreadsTyped /\ t \in Threads /\ i \in Indexes
        /\ seen \in IndexRecords /\ HeadOK(seen) /\ seen.state = "Active"
    BY ReadingTyped DEF LifecycleInv, StoreInv, Inv, ReadPayload
  <1>2. StoreOK(db) /\ ChainOK(db, i) /\ PayloadsOK(db, i)
    BY <1>1, SoundStore
  <1>3. SeenOK(db, "payload", i, seen)
    BY <1>1 DEF ReadInv, ReadOK, ReadPayload
  <1>4. /\ payload = None <=> db.heads[i].state # "Active"
        /\ payload # None => /\ DecodesAs(payload, i, seen.version)
                             /\ payload.config = seen.config
                             /\ seen.version \in 1 .. db.heads[i].version
    BY <1>1, <1>2, <1>3, SeenPayload
  <1>5. CASE payload = None
    <2>1. pc'[t] = "recheck" /\ UNCHANGED <<op, found, seenHead, result>>
      BY <1>1, <1>5 DEF ReadPayload, Continue, ThreadsTyped
    <2>2. SeenOK(db, "recheck", i, seen)
      BY <1>3, <1>4, <1>5 DEF SeenOK
    <2>3. QED
      BY <2>1, <2>2
  <1>6. CASE payload # None
    <2>1. PublishedOnce(db, i, payload)
      BY <1>1, <1>2, <1>4, <1>6, VersionPublished
    <2>2. /\ pc'[t] = next /\ UNCHANGED <<op, found, seenHead>>
          /\ seenPayload'[t] = payload
          /\ result'[t] = IF next = "done" THEN "Found" ELSE result[t]
      BY <1>1, <1>4, <1>6 DEF ReadPayload, ThreadsTyped
    <2>3. QED
      BY <1>1, <2>1, <2>2
  <1>7. QED
    BY <1>5, <1>6

\* The second head read finds an index that is no longer active, never damage.
LEMMA RecheckSound ==
    ASSUME LifecycleInv, ReadInv, NEW t \in Writers \cup Readers, NEW gone, Recheck(t, gone)
    PROVE  pc'[t] = "done" /\ result'[t] = gone
PROOF
  <1>1. ThreadsTyped /\ t \in Threads /\ seenHead[t].state = "Active"
    BY ReadingTyped DEF LifecycleInv, StoreInv, Inv, Recheck
  <1>2. SeenOK(db, "recheck", IndexOf(t), seenHead[t])
    BY <1>1 DEF ReadInv, ReadOK, Recheck
  <1>3. db.heads[IndexOf(t)].state # "Active"
    BY <1>1, <1>2 DEF SeenOK
  <1>4. QED
    BY <1>1, <1>3 DEF Recheck, Finish, ThreadsTyped

\* The version a stage would write is not stored yet when the head is the one it expects
\* and nothing is staged (stage of the adapters).
LEMMA StageNeverStored ==
    ASSUME Inv, NEW t \in Writers, pc[t] = "prepared", op[t].transition # "Destroy"
    PROVE  StageRefusal(db, StageWrite(t)) # "VersionStored"
PROOF
  <1> DEFINE o == op[t]
             i == op[t].index
             v == Plan(t).payload.version
  <1>1. Permitted(o, seenHead[t], seenPayload[t]) /\ o \in Operations
    BY DEF Inv, RolesOK, WriterOK, Permitted
  <1>2. /\ i \in Indexes /\ v \in IndexVersion /\ v = seenHead[t].version + 1
        /\ seenHead[t].version \in Nat
    BY <1>1, OperationIdentityTyped, VersionSuccessor, MaxVersionAssumption
    DEF Plan, VersionPayloads, Permitted, IndexRecords
  <1>3. PayloadLayout(db)
    BY DEF Inv, StoresOK, StoreOK
  <1>4. ASSUME db.heads[i] = seenHead[t], ~ HasStaged(db, i)
        PROVE  db.versions[i][v] = None
    BY <1>2, <1>3, <1>4 DEF PayloadLayout, HasStaged
  <1>5. QED
    BY <1>4, NoneAssumption DEF StageRefusal, StageWrite, Refusals

\* A writer's own step meets no damage, and what it reads on the way is sound.
LEMMA WriterReads ==
    ASSUME LifecycleInv, ReadInv, NEW t \in Writers, WriterActs(t) \/ Abandon(t)
    PROVE  /\ result'[t] \notin Damage
           /\ \/ pc'[t] \notin {"replay", "payload", "recheck"}
              \/ db' = db /\ SeenOK(db, pc'[t], op'[t].index, seenHead'[t])
PROOF
  <1>1. /\ Inv /\ ThreadsTyped /\ t \in Threads /\ t \notin Readers
        /\ WriterOK(pc[t], op[t], seenHead[t], seenPayload[t]) /\ IndexOf(t) = op[t].index
    BY ThreadsAssumption DEF LifecycleInv, StoreInv, Inv, RolesOK, Threads, IndexOf
  <1>2. SeenOK(db, pc[t], op[t].index, seenHead[t]) /\ result[t] \notin Damage
    BY <1>1 DEF ReadInv, ReadOK
  <1>3. None \notin Damage
    BY NoneAssumption DEF Refusals, Damage
  <1>4. ASSUME NEW outcome, Finish(t, outcome)
        PROVE  pc'[t] = "done" /\ result'[t] = outcome
    BY <1>1, <1>4 DEF Finish, ThreadsTyped
  <1>5. ASSUME NEW next, Continue(t, next)
        PROVE  pc'[t] = next /\ UNCHANGED <<op, seenHead, result>>
    BY <1>1, <1>5 DEF Continue, ThreadsTyped
  <1>6. CASE Abandon(t) \/ Return(t)
    BY <1>1, <1>3, <1>6 DEF Abandon, Return, Idle, ThreadsTyped
  <1>7. CASE \E o \in Operations : BeginPrepare(t, o)
    BY <1>1, <1>2, <1>7 DEF BeginPrepare, ThreadsTyped
  <1>8. CASE ReadHead(t)
    <2>1. op[t].index \in Indexes
      BY <1>1, <1>8, OperationIdentityTyped DEF ReadHead, WriterOK
    <2>2. SeenOK(db, "replay", op[t].index, db.heads[op[t].index])
      BY <2>1, SoundStore, SeenNow
    <2>3. QED
      BY <1>1, <1>2, <1>8, <2>2 DEF ReadHead, ThreadsTyped, storeVars
  <1>9. CASE Replay(t)
    <2>1. CASE Continue(t, IF seenHead[t].state = "Active" THEN "payload" ELSE "permit")
      BY <1>2, <1>5, <1>9, <2>1 DEF Replay, SeenOK, storeVars
    <2>2. CASE Finish(t, "Replayed") \/ Finish(t, "OperationConflict")
      BY <1>4, <2>2 DEF Damage
    <2>3. QED
      BY <1>9, <2>1, <2>2 DEF Replay
  <1>10. CASE ReadPayload(t, "permit")
    BY <1>1, <1>2, <1>10, ReadPayloadSound DEF ReadPayload, storeVars
  <1>11. CASE Recheck(t, "HeadChanged")
    BY <1>11, RecheckSound DEF Damage
  <1>12. CASE Permit(t)
    <2>1. PermitRefusal(op[t], seenHead[t]) \notin Damage
      BY <1>3 DEF PermitRefusal, Damage
    <2>2. QED
      BY <1>2, <1>4, <1>5, <1>12, <2>1 DEF Permit, Damage
  <1>13. CASE Stage(t)
    <2>1. CASE Staged(t)
      BY <1>1, <1>2, <2>1 DEF Staged, ThreadsTyped
    <2>2. CASE Finish(t, "Persistence")
      BY <1>4, <2>2 DEF Damage
    <2>3. CASE /\ op[t].transition # "Destroy"
               /\ Finish(t, StageRefusal(db, StageWrite(t)))
      <3>1. StageRefusal(db, StageWrite(t)) \notin Damage
        BY <1>1, <1>3, <1>13, <2>3, StageNeverStored DEF Stage, StageRefusal, Damage
      <3>2. QED
        BY <1>4, <2>3, <3>1
    <2>4. QED
      BY <1>13, <2>1, <2>2, <2>3 DEF Stage
  <1>14. CASE Publish(t)
    <2>1. PublishRefusalOf(t) \notin Damage
      BY <1>3 DEF PublishRefusalOf, PublishRefusal, DestroyRefusal, Damage
    <2>2. QED
      BY <1>4, <1>14, <2>1 DEF Publish, Damage
  <1>15. QED
    BY <1>6, <1>7, <1>8, <1>9, <1>10, <1>11, <1>12, <1>13, <1>14 DEF WriterActs, WriterStep

\* The same of a reader, which returns only what was published.
LEMMA ReaderReads ==
    ASSUME LifecycleInv, ReadInv, NEW t \in Readers, ReaderActs(t) \/ Abandon(t)
    PROVE  /\ result'[t] \notin Damage
           /\ \/ pc'[t] \notin {"replay", "payload", "recheck"}
              \/ db' = db /\ SeenOK(db, pc'[t], found'[t].index, seenHead'[t])
           /\ result'[t] = "Found" =>
                 /\ pc'[t] = "done" /\ db' = db /\ found'[t].index \in Indexes
                 /\ PublishedOnce(db, found'[t].index, seenPayload'[t])
PROOF
  <1>1. /\ Inv /\ ThreadsTyped /\ t \in Threads /\ t \notin Writers
        /\ ReaderOK(pc[t], seenHead[t], found[t]) /\ IndexOf(t) = found[t].index
    BY ThreadsAssumption DEF LifecycleInv, StoreInv, Inv, RolesOK, Threads, IndexOf
  <1>2. /\ SeenOK(db, pc[t], found[t].index, seenHead[t]) /\ result[t] \notin Damage
        /\ result[t] = "Found" =>
              /\ pc[t] = "done" /\ found[t].index \in Indexes
              /\ PublishedOnce(db, found[t].index, seenPayload[t])
    BY <1>1 DEF ReadInv, ReadOK
  <1>3. None \notin Damage /\ None # "Found"
    BY OutcomesAssumption DEF Outcomes, Refusals, Damage
  <1>4. CASE Abandon(t) \/ Return(t)
    BY <1>1, <1>3, <1>4 DEF Abandon, Return, Idle, ThreadsTyped
  <1>5. ASSUME NEW i \in Indexes, BeginIndex(t, i)
        PROVE  /\ result'[t] \notin Damage /\ db' = db
               /\ SeenOK(db, pc'[t], found'[t].index, seenHead'[t])
               /\ result'[t] # "Found"
    <2>1. /\ found'[t].index = i /\ seenHead'[t] = db.heads[i]
          /\ pc'[t] \in {"done", "payload"} /\ db' = db /\ seenPayload' = seenPayload
          /\ result'[t] = "IndexNotFound" \/ result'[t] = result[t]
      BY <1>1, <1>5 DEF BeginIndex, ThreadsTyped, storeVars
    <2>2. SeenOK(db, pc'[t], i, db.heads[i])
      BY <2>1, SoundStore, SeenNow
    <2>3. result[t] # "Found"
      BY <1>2, <1>5 DEF BeginIndex
    <2>4. QED
      BY <1>2, <2>1, <2>2, <2>3 DEF Damage
  <1>6. CASE ReadPayload(t, "done")
    <2>1. pc[t] = "payload" /\ db' = db /\ result[t] # "Found"
      BY <1>2, <1>6 DEF ReadPayload, storeVars
    <2>2. QED
      BY <1>1, <1>2, <1>6, <2>1, ReadPayloadSound DEF Damage
  <1>7. CASE Recheck(t, "IndexNotFound")
    BY <1>7, RecheckSound DEF Damage
  <1>8. QED
    BY <1>4, <1>5, <1>6, <1>7 DEF ReaderActs, ReaderStep

\* A recovery pass meets no damage: it reads no payload.
LEMMA RecovererReads ==
    ASSUME Inv, NEW t \in Recoverers, result[t] \notin Damage, RecovererActs(t) \/ Abandon(t)
    PROVE  result'[t] \notin Damage
PROOF
  <1>1. ThreadsTyped /\ t \in Threads
    BY DEF Inv, Threads
  <1>2. None \notin Damage
    BY NoneAssumption DEF Refusals, Damage
  <1>3. CASE Abandon(t) \/ Return(t)
    BY <1>1, <1>2, <1>3 DEF Abandon, Return, Idle, ThreadsTyped
  <1>4. CASE BeginRecover(t) \/ \E i \in Indexes, v \in IndexVersion : ListStaged(t, i, v)
    BY <1>4 DEF BeginRecover, ListStaged
  <1>5. CASE NothingStaged(t)
    BY <1>1, <1>5 DEF NothingStaged, Finish, ThreadsTyped, Damage
  <1>6. CASE Quarantine(t)
    <2>1. QuarantineRefusal(db, found[t]) \notin Damage
      BY <1>2 DEF QuarantineRefusal, Damage
    <2>2. QED
      BY <1>1, <1>6, <2>1 DEF Quarantine, ThreadsTyped, Damage
  <1>7. QED
    BY <1>3, <1>4, <1>5, <1>6 DEF RecovererActs, RecovererStep

\* A thread that did not move keeps what it holds sound, whatever others commit.
LEMMA HoldsStays ==
    ASSUME LifecycleInv, LifecycleInv', Kept(db, db'), NEW t \in Threads, ReadOK(t),
           UNCHANGED Holds(t)
    PROVE  ReadOK(t)'
PROOF
  <1>1. /\ pc'[t] = pc[t] /\ op'[t] = op[t] /\ seenHead'[t] = seenHead[t]
        /\ seenPayload'[t] = seenPayload[t] /\ found'[t] = found[t] /\ result'[t] = result[t]
        /\ IndexOf(t)' = IndexOf(t)
    BY DEF Holds, IndexOf
  <1>2. StoreOK(db) /\ StoreOK(db')
    BY DEF LifecycleInv, StoreInv, Inv, StoresOK
  <1>3. ASSUME t \in Writers \cup Readers
        PROVE  SeenOK(db', pc[t], IndexOf(t), seenHead[t])
    <2>1. SeenOK(db, pc[t], IndexOf(t), seenHead[t])
      BY <1>3 DEF ReadOK
    <2>2. CASE pc[t] \in {"replay", "payload", "recheck"}
      BY <1>2, <1>3, <2>1, <2>2, ReadingTyped, SeenStays DEF LifecycleInv, StoreInv
    <2>3. CASE pc[t] \notin {"replay", "payload", "recheck"}
      BY <2>3 DEF SeenOK
    <2>4. QED
      BY <2>2, <2>3
  <1>4. ASSUME t \in Readers, result[t] = "Found"
        PROVE  /\ pc[t] = "done" /\ found[t].index \in Indexes
               /\ PublishedOnce(db', found[t].index, seenPayload[t])
    BY <1>4, PublishedStays DEF ReadOK
  <1>5. result'[t] \notin Damage
    BY <1>1 DEF ReadOK
  <1>6. t \in Writers \cup Readers => SeenOK(db', pc'[t], IndexOf(t)', seenHead'[t])
    BY <1>1, <1>3
  <1>7. t \in Readers /\ result'[t] = "Found" =>
          /\ pc'[t] = "done" /\ found'[t].index \in Indexes
          /\ PublishedOnce(db', found'[t].index, seenPayload'[t])
    BY <1>1, <1>4
  <1>8. QED
    BY <1>5, <1>6, <1>7 DEF ReadOK

\* No thread holds anything before its first call.
LEMMA InitRead == Init => ReadInv
PROOF
  <1>1. None \notin Damage /\ None # "Found"
    BY OutcomesAssumption DEF Outcomes, Refusals, Damage
  <1>2. QED
    BY <1>1 DEF Init, ReadInv, ReadOK, SeenOK, Threads

\* Every step keeps what every thread holds sound.
LEMMA NextKeepsRead == LifecycleInv /\ LifecycleInv' /\ ReadInv /\ [Next]_vars => ReadInv'
PROOF
  <1> SUFFICES ASSUME LifecycleInv, LifecycleInv', ReadInv, [Next]_vars, NEW t \in Threads
               PROVE  ReadOK(t)'
    BY DEF ReadInv
  <1>1. Inv /\ Kept(db, db') /\ ReadOK(t)
    BY NextKeepsStoreInv DEF LifecycleInv, StoreInv, ReadInv
  <1>2. CASE UNCHANGED Holds(t)
    BY <1>1, <1>2, HoldsStays
  <1>3. CASE Restart
    <2>1. pc'[t] = "idle" /\ result'[t] = None
      BY <1>3 DEF Restart
    <2>2. None \notin Damage /\ None # "Found"
      BY OutcomesAssumption DEF Outcomes, Refusals, Damage
    <2>3. QED
      BY <2>1, <2>2 DEF ReadOK, SeenOK
  <1>4. CASE t \in Writers /\ (WriterActs(t) \/ Abandon(t))
    <2>1. /\ result'[t] \notin Damage
          /\ \/ pc'[t] \notin {"replay", "payload", "recheck"}
             \/ db' = db /\ SeenOK(db, pc'[t], op'[t].index, seenHead'[t])
      BY <1>4, WriterReads
    <2>2. IndexOf(t)' = op'[t].index /\ t \notin Readers
      BY <1>4, ThreadsAssumption DEF IndexOf
    <2>3. SeenOK(db', pc'[t], op'[t].index, seenHead'[t])
      BY <2>1 DEF SeenOK
    <2>4. QED
      BY <2>1, <2>2, <2>3 DEF ReadOK
  <1>5. CASE t \in Readers /\ (ReaderActs(t) \/ Abandon(t))
    <2>1. /\ result'[t] \notin Damage
          /\ \/ pc'[t] \notin {"replay", "payload", "recheck"}
             \/ db' = db /\ SeenOK(db, pc'[t], found'[t].index, seenHead'[t])
          /\ result'[t] = "Found" =>
                /\ pc'[t] = "done" /\ db' = db /\ found'[t].index \in Indexes
                /\ PublishedOnce(db, found'[t].index, seenPayload'[t])
      BY <1>5, ReaderReads
    <2>2. IndexOf(t)' = found'[t].index /\ t \notin Writers
      BY <1>5, ThreadsAssumption DEF IndexOf
    <2>3. SeenOK(db', pc'[t], found'[t].index, seenHead'[t])
      BY <2>1 DEF SeenOK
    <2>4. QED
      BY <2>1, <2>2, <2>3 DEF ReadOK
  <1>6. CASE t \in Recoverers /\ (RecovererActs(t) \/ Abandon(t))
    <2>1. t \notin Writers /\ t \notin Readers /\ result[t] \notin Damage
      BY <1>1, <1>6, ThreadsAssumption DEF ReadOK
    <2>2. result'[t] \notin Damage
      BY <1>1, <1>6, <2>1, RecovererReads
    <2>3. QED
      BY <2>1, <2>2 DEF ReadOK
  <1>7. QED
    BY <1>1, <1>2, <1>3, <1>4, <1>5, <1>6, OwnOrOther DEF Threads

\* What every thread holds of the store is sound, in every reachable state.
THEOREM ReadInvariance == Spec => []ReadInv
PROOF
  <1>1. LifecycleInv /\ ReadInv /\ [Next]_vars /\ LifecycleInv' => ReadInv'
    BY NextKeepsRead
  <1>2. QED
    BY <1>1, InitRead, LifecycleInvariance, PTL DEF Spec

\* No call reports damage: prepare and index() read the head and the payload it names at
\* different times, and tell a destroy between them from a store that lost a payload;
\* stage never finds its version stored (driver.rs, backend.rs).
THEOREM NoDamage == Spec => []NeverCorrupt
PROOF
  <1>1. ReadInv => NeverCorrupt
    BY DEF ReadInv, ReadOK, NeverCorrupt, Damage
  <1>2. QED
    BY <1>1, ReadInvariance, PTL

\* What index() returns without a lock is a version that some operation on record
\* published, whole, whoever publishes or destroys between its two reads (driver.rs).
THEOREM ReadersSound == Spec => []ReadersSeePublishedVersions
PROOF
  <1>1. ReadInv => ReadersSeePublishedVersions
    BY DEF ReadInv, ReadOK, ReadersSeePublishedVersions, Damage, PublishedOnce, Records,
           Threads
  <1>2. QED
    BY <1>1, ReadInvariance, PTL

(***************************************************************************)
(* Operations under the writer.                                            *)
(***************************************************************************)
Conflicts == {"HeadChanged", "StagedStateMissing", "OperationRecorded"}

Running(t) == pc[t] \notin {"idle", "done"}

\* What a writer relies on at each step of its call.
RelyOK(t) ==
    LET i == op[t].index
        v == Plan(t).payload.version
    IN  /\ pc[t] \in {"replay", "payload", "recheck", "permit", "prepared", "staged"} =>
              db.heads[i] = seenHead[t]
        /\ pc[t] \in {"payload", "recheck", "permit", "prepared", "staged"} =>
              db.operations[i][op[t].key] = None
        /\ pc[t] = "prepared" \/ (pc[t] = "staged" /\ op[t].transition = "Destroy") =>
              ~ HasStaged(db, i)
        /\ pc[t] = "staged" =>
              /\ intact[t]
              /\ op[t].transition # "Destroy" => db.staging[i][v] = StagingMarker(op[t], v)

\* What a recovery pass relies on: the entry it listed is still staged.
ListedOK(q) ==
    pc[q] = "quarantine" => CheckMarker(db, found[q].index, found[q].version, found[q].marker)

ThreadLockOK(t) ==
    /\ t \in Writers \cup Recoverers /\ Running(t) => owner = t
    /\ t \in Writers => RelyOK(t)
    /\ t \in Recoverers => ListedOK(t)
    /\ result[t] \notin Conflicts

LockInv == \A t \in Threads : ThreadLockOK(t)

(***************************************************************************)
(* The other threads.                                                      *)
(***************************************************************************)
\* While one call holds the writer, a step of another thread neither takes the writer
\* from it nor writes to the store.
LEMMA OwnerKept ==
    ASSUME Inv, LockInv, Bypass = {}, NEW t \in Threads, owner = t, NEW u \in Threads, u # t,
           \/ u \in Writers /\ WriterActs(u)
           \/ u \in Readers /\ ReaderActs(u)
           \/ u \in Recoverers /\ RecovererActs(u)
           \/ Abandon(u)
    PROVE  owner' = owner /\ db' = db /\ intact'[t] = intact[t]
PROOF
  <1>1. ThreadsTyped /\ t # None
    BY ThreadsAssumption DEF Inv
  <1>2. u \in Writers \cup Recoverers => pc[u] \in {"idle", "done"}
    BY DEF LockInv, ThreadLockOK, Running
  <1>3. ~ Acquire(u)
    BY <1>1 DEF Acquire
  <1>4. ASSUME \/ \E outcome : Finish(u, outcome)
               \/ \E next : Continue(u, next)
        PROVE  owner' = owner /\ intact'[t] = intact[t]
    BY <1>4 DEF Finish, Continue, Release
  <1>5. CASE Abandon(u) \/ Return(u)
    BY <1>1, <1>5 DEF Abandon, Return, Idle, Release, ThreadsTyped, storeVars
  <1>6. CASE u \in Writers /\ WriterActs(u)
    <2>1. Return(u)
      BY <1>2, <1>3, <1>6
      DEF WriterActs, WriterStep, ReadHead, Replay, ReadPayload, Recheck, Permit, Stage,
          Publish, BeginPrepare
    <2>2. QED
      BY <1>5, <2>1
  <1>7. CASE u \in Recoverers /\ RecovererActs(u)
    <2>1. Return(u)
      BY <1>2, <1>3, <1>7
      DEF RecovererActs, RecovererStep, ListStaged, NothingStaged, Quarantine, BeginRecover
    <2>2. QED
      BY <1>5, <2>1
  <1>8. CASE u \in Readers /\ ReaderActs(u)
    <2>1. CASE ReadPayload(u, "done")
      BY <1>4, <2>1 DEF ReadPayload, storeVars
    <2>2. CASE Recheck(u, "IndexNotFound")
      BY <1>4, <2>2 DEF Recheck, storeVars
    <2>3. CASE \E i \in Indexes : BeginIndex(u, i)
      BY <2>3 DEF BeginIndex, storeVars
    <2>4. QED
      BY <1>5, <1>8, <2>1, <2>2, <2>3 DEF ReaderActs, ReaderStep
  <1>9. QED
    BY <1>5, <1>6, <1>7, <1>8

\* So a step of another thread leaves a call what it relies on.
LEMMA OthersKeepLock ==
    ASSUME Inv, LockInv, Bypass = {}, NEW t \in Threads, NEW u \in Threads, u # t,
           \/ u \in Writers /\ WriterActs(u)
           \/ u \in Readers /\ ReaderActs(u)
           \/ u \in Recoverers /\ RecovererActs(u)
           \/ Abandon(u)
    PROVE  ThreadLockOK(t)'
PROOF
  <1>1. UNCHANGED Holds(t)
    BY ActsAlone
  <1>2. /\ pc'[t] = pc[t] /\ op'[t] = op[t] /\ seenHead'[t] = seenHead[t]
        /\ seenPayload'[t] = seenPayload[t] /\ found'[t] = found[t] /\ result'[t] = result[t]
    BY <1>1 DEF Holds
  <1>3. ThreadLockOK(t)
    BY DEF LockInv
  <1>4. CASE t \in Writers \cup Recoverers /\ Running(t)
    <2>1. owner = t
      BY <1>3, <1>4 DEF ThreadLockOK
    <2>2. owner' = owner /\ db' = db /\ intact'[t] = intact[t]
      BY <2>1, OwnerKept
    <2>3. Plan(t)' = Plan(t)
      BY <1>2 DEF Plan
    <2>4. t \in Writers => RelyOK(t)'
      BY <1>2, <1>3, <2>2, <2>3 DEF ThreadLockOK, RelyOK
    <2>5. t \in Recoverers => ListedOK(t)'
      BY <1>2, <1>3, <2>2 DEF ThreadLockOK, ListedOK
    <2>6. QED
      BY <1>2, <1>3, <2>1, <2>2, <2>4, <2>5 DEF ThreadLockOK
  <1>5. CASE ~ (t \in Writers \cup Recoverers /\ Running(t))
    <2>1. ~ (t \in Writers \cup Recoverers /\ Running(t)')
      BY <1>2, <1>5 DEF Running
    <2>2. t \in Writers => RelyOK(t)'
      BY <2>1 DEF RelyOK, Running
    <2>3. t \in Recoverers => ListedOK(t)'
      BY <2>1 DEF ListedOK, Running
    <2>4. QED
      BY <1>2, <1>3, <2>1, <2>2, <2>3 DEF ThreadLockOK
  <1>6. QED
    BY <1>4, <1>5

(***************************************************************************)
(* A call's own steps.                                                     *)
(***************************************************************************)
\* What prepare permitted, and where the call writes.
LEMMA WritesTyped ==
    ASSUME Inv, NEW t \in Writers, Running(t)
    PROVE  /\ t \in Threads /\ op[t] \in Operations
           /\ op[t].index \in Indexes /\ op[t].key \in Keys
           /\ pc[t] \in {"prepared", "staged"} /\ op[t].transition # "Destroy" =>
                 /\ Plan(t).payload.version \in IndexVersion
                 /\ StagingMarker(op[t], Plan(t).payload.version) \in StagingMarkers
PROOF
  <1>1. /\ t \in Threads /\ op[t] \in Operations
        /\ pc[t] \in {"prepared", "staged"} => Permitted(op[t], seenHead[t], seenPayload[t])
    BY DEF Inv, RolesOK, WriterOK, Running, Threads
  <1>2. op[t].index \in Indexes /\ op[t].key \in Keys
    BY <1>1, OperationIdentityTyped
  <1>3. ASSUME pc[t] \in {"prepared", "staged"}, op[t].transition # "Destroy"
        PROVE  /\ Plan(t).payload.version \in IndexVersion
               /\ StagingMarker(op[t], Plan(t).payload.version) \in StagingMarkers
    <2>1. Plan(t).payload.version \in IndexVersion
      BY <1>1, <1>3, VersionSuccessor DEF Plan, VersionPayloads
    <2>2. QED
      BY <1>1, <2>1, OperationIdentityTyped DEF StagingMarker, StagingMarkers
  <1>4. QED
    BY <1>1, <1>2, <1>3

\* No write of a call that holds the writer is refused for another's doing, and none of
\* its publishes meets a staged version that is not its own.
LEMMA NoConflict ==
    ASSUME Inv, LockInv, NEW t \in Writers
    PROVE  /\ pc[t] = "prepared" => StageRefusal(db, StageWrite(t)) \notin Conflicts
           /\ pc[t] = "staged" =>
                 PublishRefusalOf(t) \notin Conflicts \cup {"StagedStateExists"}
PROOF
  <1>1. None \notin Conflicts \cup {"StagedStateExists"}
    BY NoneAssumption DEF Refusals, Conflicts
  <1>2. RelyOK(t)
    BY DEF LockInv, ThreadLockOK, Threads
  <1>3. CASE pc[t] = "prepared"
    BY <1>1, <1>2, <1>3 DEF RelyOK, StageRefusal, StageWrite, Conflicts
  <1>4. CASE pc[t] = "staged" /\ op[t].transition = "Destroy"
    BY <1>1, <1>2, <1>4 DEF RelyOK, PublishRefusalOf, DestroyRefusal, DestroyWrite, Conflicts
  <1>5. CASE pc[t] = "staged" /\ op[t].transition # "Destroy"
    <2> DEFINE i == op[t].index
               v == Plan(t).payload.version
    <2>1. /\ i \in Indexes /\ v \in IndexVersion
          /\ StagingMarker(op[t], v) \in StagingMarkers
      BY <1>5, WritesTyped DEF Running
    <2>2. /\ db.heads[i] = seenHead[t] /\ db.operations[i][op[t].key] = None
          /\ db.staging[i][v] = StagingMarker(op[t], v)
      BY <1>2, <1>5 DEF RelyOK
    <2>3. db.staging[i][v] # None
      BY <2>1, <2>2, NoneAssumption
    <2>4. db.versions[i][v] # None
      BY <2>1, <2>3 DEF Inv, StoresOK, StoreOK, PayloadLayout
    <2>5. QED
      BY <1>1, <1>5, <2>2, <2>4
      DEF PublishRefusalOf, PublishRefusal, PublishWrite, CheckMarker, Conflicts
  <1>6. QED
    BY <1>3, <1>4, <1>5

\* A call that ended relies on nothing.
LEMMA EndedKeepsLock ==
    ASSUME NEW t \in Threads, pc'[t] \in {"idle", "done"}, result'[t] \notin Conflicts
    PROVE  ThreadLockOK(t)'
  BY DEF ThreadLockOK, Running, RelyOK, ListedOK

\* A writer that holds the backend keeps, step by step, what it relies on, and is refused
\* nothing for the doing of another.
LEMMA WriterKeepsLock ==
    ASSUME LifecycleInv, ReadInv, LockInv, Bypass = {}, NEW t \in Writers,
           WriterActs(t) \/ Abandon(t)
    PROVE  ThreadLockOK(t)'
PROOF
  <1>1. /\ Inv /\ ThreadsTyped /\ t \in Threads /\ t \notin Recoverers
        /\ WriterOK(pc[t], op[t], seenHead[t], seenPayload[t])
    BY ThreadsAssumption DEF LifecycleInv, StoreInv, Inv, RolesOK, Threads
  <1>2. RelyOK(t) /\ result[t] \notin Conflicts /\ (Running(t) => owner = t)
    BY <1>1 DEF LockInv, ThreadLockOK
  <1>3. None \notin Conflicts
    BY NoneAssumption DEF Refusals, Conflicts
  <1>4. ASSUME NEW outcome, outcome \notin Conflicts, Finish(t, outcome)
        PROVE  ThreadLockOK(t)'
    <2>1. pc'[t] = "done" /\ result'[t] = outcome
      BY <1>1, <1>4 DEF Finish, ThreadsTyped
    <2>2. QED
      BY <1>1, <1>4, <2>1, EndedKeepsLock
  <1>5. ASSUME NEW next, next \in {"payload", "recheck", "permit", "prepared"},
               Continue(t, next), db' = db, Running(t),
               db.heads[op[t].index] = seenHead[t],
               db.operations[op[t].index][op[t].key] = None,
               next = "prepared" => ~ HasStaged(db, op[t].index)
        PROVE  ThreadLockOK(t)'
    <2>1. /\ pc'[t] = next /\ op'[t] = op[t] /\ seenHead'[t] = seenHead[t]
          /\ result'[t] = result[t] /\ owner' = t
      BY <1>1, <1>2, <1>5 DEF Continue, ThreadsTyped
    <2>2. QED
      BY <1>1, <1>2, <1>5, <2>1 DEF ThreadLockOK, RelyOK
  <1>6. CASE Abandon(t) \/ Return(t)
    <2>1. pc'[t] = "idle" /\ result'[t] = None
      BY <1>1, <1>6 DEF Abandon, Return, Idle, ThreadsTyped
    <2>2. QED
      BY <1>1, <1>3, <2>1, EndedKeepsLock
  <1>7. CASE \E o \in Operations : BeginPrepare(t, o)
    <2>1. pc'[t] = "head" /\ result'[t] = result[t] /\ owner' = t
      BY <1>1, <1>7 DEF BeginPrepare, Acquire, ThreadsTyped
    <2>2. QED
      BY <1>1, <1>2, <2>1 DEF ThreadLockOK, RelyOK
  <1>8. CASE ReadHead(t)
    <2>1. /\ pc'[t] = "replay" /\ result'[t] = result[t] /\ owner' = owner /\ owner = t
          /\ db' = db /\ op'[t] = op[t] /\ seenHead'[t] = db.heads[op[t].index]
      BY <1>1, <1>2, <1>8 DEF ReadHead, ThreadsTyped, storeVars, Running
    <2>2. QED
      BY <1>1, <1>2, <2>1 DEF ThreadLockOK, RelyOK
  <1>9. CASE Replay(t)
    <2>1. pc[t] = "replay" /\ db' = db /\ Running(t)
      BY <1>9 DEF Replay, storeVars, Running
    <2>2. CASE /\ db.operations[op[t].index][op[t].key] = None
               /\ Continue(t, IF seenHead[t].state = "Active" THEN "payload" ELSE "permit")
      BY <1>2, <1>5, <2>1, <2>2 DEF RelyOK
    <2>3. CASE Finish(t, "Replayed") \/ Finish(t, "OperationConflict")
      BY <1>4, <2>3 DEF Conflicts
    <2>4. QED
      BY <1>9, <2>2, <2>3 DEF Replay
  <1>10. CASE ReadPayload(t, "permit")
    <2>1. /\ pc[t] = "payload" /\ db' = db /\ Running(t)
          /\ db.heads[op[t].index] = seenHead[t]
          /\ db.operations[op[t].index][op[t].key] = None
      BY <1>2, <1>10 DEF ReadPayload, storeVars, Running, RelyOK
    <2>2. CASE Continue(t, "recheck")
      BY <1>5, <2>1, <2>2
    <2>3. CASE Finish(t, "CorruptSnapshot")
      BY <1>4, <2>3 DEF Conflicts
    <2>4. CASE /\ pc' = [pc EXCEPT ![t] = "permit"]
               /\ result' = [result EXCEPT ![t] = IF "permit" = "done" THEN "Found" ELSE @]
               /\ UNCHANGED <<owner, op, seenHead, found, intact>>
      <3>1. /\ pc'[t] = "permit" /\ result'[t] = result[t] /\ owner' = t
            /\ op'[t] = op[t] /\ seenHead'[t] = seenHead[t]
        BY <1>1, <1>2, <2>1, <2>4 DEF ThreadsTyped
      <3>2. QED
        BY <1>1, <1>2, <2>1, <3>1 DEF ThreadLockOK, RelyOK
    <2>5. QED
      BY <1>10, <2>2, <2>3, <2>4 DEF ReadPayload
  <1>11. CASE Recheck(t, "HeadChanged")
    <2>1. SeenOK(db, "recheck", op[t].index, seenHead[t]) /\ seenHead[t].state = "Active"
      BY <1>1, <1>11 DEF ReadInv, ReadOK, Recheck, IndexOf, WriterOK
    <2>2. db.heads[op[t].index] = seenHead[t]
      BY <1>2, <1>11 DEF RelyOK, Recheck
    <2>3. QED
      BY <2>1, <2>2 DEF SeenOK
  <1>12. CASE Permit(t)
    <2>1. /\ db' = db /\ Running(t)
          /\ db.heads[op[t].index] = seenHead[t]
          /\ db.operations[op[t].index][op[t].key] = None
      BY <1>2, <1>12 DEF Permit, storeVars, Running, RelyOK
    <2>2. PermitRefusal(op[t], seenHead[t]) \notin Conflicts
      BY <1>3 DEF PermitRefusal, Conflicts
    <2>3. CASE Finish(t, PermitRefusal(op[t], seenHead[t])) \/ Finish(t, "StagedStateExists")
                 \/ Finish(t, "InvalidIdentifier")
      BY <1>4, <2>2, <2>3 DEF Conflicts
    <2>4. CASE ~ HasStaged(db, op[t].index) /\ Continue(t, "prepared")
      BY <1>5, <2>1, <2>4
    <2>5. QED
      BY <1>12, <2>3, <2>4 DEF Permit
  <1>13. CASE Stage(t)
    <2>1. pc[t] = "prepared" /\ Running(t)
      BY <1>13 DEF Stage, Running
    <2>2. CASE Staged(t)
      <3> DEFINE i == op[t].index
                 v == Plan(t).payload.version
      <3>1. /\ pc'[t] = "staged" /\ intact'[t] /\ op'[t] = op[t] /\ seenHead'[t] = seenHead[t]
            /\ seenPayload'[t] = seenPayload[t] /\ result'[t] = result[t] /\ owner' = t
        BY <1>1, <1>2, <2>1, <2>2 DEF Staged, ThreadsTyped
      <3>2. /\ db.heads[i] = seenHead[t] /\ db.operations[i][op[t].key] = None
            /\ ~ HasStaged(db, i) /\ Plan(t)' = Plan(t)
        BY <1>2, <2>1, <3>1 DEF RelyOK, Plan
      <3>3. CASE op[t].transition = "Destroy"
        <4>1. db' = db
          BY <1>13, <3>3 DEF Stage, storeVars
        <4>2. QED
          BY <1>1, <1>2, <3>1, <3>2, <3>3, <4>1 DEF ThreadLockOK, RelyOK
      <3>4. CASE op[t].transition # "Destroy"
        <4>1. pc'[t] # "done"
          BY <3>1
        <4>2. db' = StageEffect(db, StageWrite(t))
          BY <1>1, <1>13, <3>4, <4>1 DEF Stage, Finish, Commit, ThreadsTyped
        <4>3. i \in Indexes /\ v \in IndexVersion /\ db \in StoreType
          BY <1>1, <2>1, <3>4, WritesTyped DEF Inv, StoresOK, StoreOK
        <4>4. /\ db'.heads = db.heads /\ db'.operations = db.operations
              /\ db'.staging[i][v] = StagingMarker(op[t], v)
          BY <4>2, <4>3 DEF StageEffect, StageWrite, StoreType
        <4>5. RelyOK(t)'
          BY <3>1, <3>2, <3>4, <4>4 DEF RelyOK
        <4>6. QED
          BY <1>1, <1>2, <3>1, <4>5 DEF ThreadLockOK
      <3>5. QED
        BY <3>3, <3>4
    <2>3. CASE Finish(t, "Persistence") \/ Finish(t, StageRefusal(db, StageWrite(t)))
      BY <1>1, <1>4, <2>1, <2>3, NoConflict DEF Conflicts
    <2>4. QED
      BY <1>13, <2>2, <2>3 DEF Stage
  <1>14. CASE Publish(t)
    <2>1. PublishRefusalOf(t) \notin Conflicts
      BY <1>1, <1>14, NoConflict DEF Publish
    <2>2. QED
      BY <1>4, <1>14, <2>1 DEF Publish, Conflicts
  <1>15. QED
    BY <1>6, <1>7, <1>8, <1>9, <1>10, <1>11, <1>12, <1>13, <1>14 DEF WriterActs, WriterStep

\* A recovery pass that holds the backend finds the entry it listed still staged.
LEMMA RecovererKeepsLock ==
    ASSUME Inv, LockInv, Bypass = {}, NEW t \in Recoverers, RecovererActs(t) \/ Abandon(t)
    PROVE  ThreadLockOK(t)'
PROOF
  <1>1. ThreadsTyped /\ t \in Threads /\ t \notin Writers
    BY ThreadsAssumption DEF Inv, Threads
  <1>2. ListedOK(t) /\ result[t] \notin Conflicts /\ (Running(t) => owner = t)
    BY <1>1 DEF LockInv, ThreadLockOK
  <1>3. None \notin Conflicts
    BY NoneAssumption DEF Refusals, Conflicts
  <1>4. CASE Abandon(t) \/ Return(t)
    <2>1. pc'[t] = "idle" /\ result'[t] = None
      BY <1>1, <1>4 DEF Abandon, Return, Idle, ThreadsTyped
    <2>2. QED
      BY <1>1, <1>3, <2>1, EndedKeepsLock
  <1>5. CASE BeginRecover(t)
    <2>1. pc'[t] = "list" /\ result'[t] = result[t] /\ owner' = t
      BY <1>1, <1>5 DEF BeginRecover, Acquire, ThreadsTyped
    <2>2. QED
      BY <1>1, <1>2, <2>1 DEF ThreadLockOK, ListedOK
  <1>6. ASSUME NEW i \in Indexes, NEW v \in IndexVersion, ListStaged(t, i, v)
        PROVE  ThreadLockOK(t)'
    <2>1. /\ pc'[t] = "quarantine" /\ result'[t] = result[t] /\ owner' = t /\ db' = db
          /\ found'[t] = [index |-> i, version |-> v, marker |-> db.staging[i][v]]
      BY <1>1, <1>2, <1>6 DEF ListStaged, ThreadsTyped, Running, storeVars
    <2>2. QED
      BY <1>1, <1>2, <2>1 DEF ThreadLockOK, ListedOK, CheckMarker
  <1>7. CASE NothingStaged(t)
    <2>1. pc'[t] = "done" /\ result'[t] = "NothingStaged"
      BY <1>1, <1>7 DEF NothingStaged, Finish, ThreadsTyped
    <2>2. QED
      BY <1>1, <2>1, EndedKeepsLock DEF Conflicts
  <1>8. CASE Quarantine(t)
    <2>1. QuarantineRefusal(db, found[t]) \notin Conflicts
      BY <1>2, <1>3, <1>8 DEF Quarantine, ListedOK, QuarantineRefusal, Conflicts
    <2>2. pc'[t] = "done" /\ result'[t] \notin Conflicts
      BY <1>1, <1>8, <2>1 DEF Quarantine, ThreadsTyped, Conflicts
    <2>3. QED
      BY <1>1, <2>2, EndedKeepsLock
  <1>9. QED
    BY <1>4, <1>5, <1>6, <1>7, <1>8 DEF RecovererActs, RecovererStep

\* A reader is refused nothing for the doing of a writer but the index being gone.
LEMMA ReaderKeepsLock ==
    ASSUME LifecycleInv, ReadInv, LockInv, NEW t \in Readers, ReaderActs(t) \/ Abandon(t)
    PROVE  ThreadLockOK(t)'
PROOF
  <1>1. ThreadsTyped /\ t \in Threads /\ t \notin Writers /\ t \notin Recoverers
    BY ThreadsAssumption DEF LifecycleInv, StoreInv, Inv, Threads
  <1>2. result[t] \notin Conflicts
    BY <1>1 DEF LockInv, ThreadLockOK
  <1>3. result'[t] \notin Conflicts
    <2>1. None \notin Conflicts
      BY NoneAssumption DEF Refusals, Conflicts
    <2>2. CASE Abandon(t) \/ Return(t)
      BY <1>1, <2>1, <2>2 DEF Abandon, Return, Idle, ThreadsTyped
    <2>3. CASE \E i \in Indexes : BeginIndex(t, i)
      BY <1>1, <1>2, <2>3 DEF BeginIndex, ThreadsTyped, Conflicts
    <2>4. CASE ReadPayload(t, "done")
      BY <1>2, <2>4, ReadPayloadSound DEF Conflicts
    <2>5. CASE Recheck(t, "IndexNotFound")
      BY <2>5, RecheckSound DEF Conflicts
    <2>6. QED
      BY <2>2, <2>3, <2>4, <2>5 DEF ReaderActs, ReaderStep
  <1>4. QED
    BY <1>1, <1>3 DEF ThreadLockOK

\* No call is running on a new backend.
LEMMA InitLock == Init => LockInv
PROOF
  <1>1. None \notin Conflicts
    BY NoneAssumption DEF Refusals, Conflicts
  <1>2. QED
    BY <1>1 DEF Init, LockInv, ThreadLockOK, RelyOK, ListedOK, Running, Threads

\* Every step keeps what every running call relies on.
LEMMA NextKeepsLock ==
    ASSUME LifecycleInv, ReadInv, LockInv, Bypass = {}, [Next]_vars
    PROVE  LockInv'
PROOF
  <1>1. Inv
    BY DEF LifecycleInv, StoreInv
  <1> SUFFICES ASSUME NEW t \in Threads PROVE ThreadLockOK(t)'
    BY DEF LockInv
  <1>2. CASE UNCHANGED vars
    <2>1. UNCHANGED <<db, owner, pc, op, seenHead, seenPayload, found, result, intact>>
      BY <1>2 DEF vars, threadVars, storeVars
    <2>2. ThreadLockOK(t)
      BY DEF LockInv
    <2>3. Plan(t)' = Plan(t)
      BY <2>1 DEF Plan
    <2>4. QED
      BY <2>1, <2>2, <2>3 DEF ThreadLockOK, Running, RelyOK, ListedOK
  <1>3. CASE Restart
    <2>1. pc'[t] = "idle" /\ result'[t] = None /\ None \notin Conflicts
      BY <1>3, NoneAssumption DEF Restart, Refusals, Conflicts
    <2>2. QED
      BY <2>1, EndedKeepsLock
  <1>4. ASSUME NEW u \in Threads,
               \/ u \in Writers /\ WriterActs(u)
               \/ u \in Readers /\ ReaderActs(u)
               \/ u \in Recoverers /\ RecovererActs(u)
               \/ Abandon(u)
        PROVE  ThreadLockOK(t)'
    <2>1. CASE u # t
      BY <1>1, <1>4, <2>1, OthersKeepLock
    <2>2. CASE u = t
      BY <1>1, <1>4, <2>2, WriterKeepsLock, ReaderKeepsLock, RecovererKeepsLock DEF Threads
    <2>3. QED
      BY <2>1, <2>2
  <1>5. QED
    BY <1>2, <1>3, <1>4 DEF Next, WriterActs, ReaderActs, RecovererActs, Threads

(***************************************************************************)
(* What the writer guarantees.                                             *)
(***************************************************************************)
\* When no thread bypasses the writer, every running call may rely on what it read, in
\* every reachable state.
THEOREM LockInvariance == Spec => [](Bypass = {} => LockInv)
PROOF
  <1>1. Init => (Bypass = {} => LockInv)
    BY InitLock
  <1>2. LifecycleInv /\ ReadInv /\ (Bypass = {} => LockInv) /\ [Next]_vars =>
            (Bypass = {} => LockInv)'
    BY NextKeepsLock
  <1>3. QED
    BY <1>1, <1>2, LifecycleInvariance, ReadInvariance, PTL DEF Spec

\* A conflict with another writer, HeadChanged, StagedStateMissing or OperationRecorded,
\* comes only from one that bypasses the backend's writer (the statement of driver.rs and
\* backend.rs about prepare, stage and publish).
THEOREM NoLockedConflict == Spec => []LockedOperationsNeverConflict
PROOF
  <1>1. (Bypass = {} => LockInv) => LockedOperationsNeverConflict
    BY DEF LockInv, ThreadLockOK, LockedOperationsNeverConflict, Conflicts
  <1>2. QED
    BY <1>1, LockInvariance, PTL

\* The step of a call that ends a publish.
PublishStep ==
    \A t \in Writers : result[t] # "Published" /\ result'[t] = "Published" => intact[t]

\* Only the commit of a publish ends a call so, and its own stage is then in place.
LEMMA PublishesIntact ==
    ASSUME Inv, LockInv, [Next]_vars
    PROVE  PublishStep
PROOF
  <1> SUFFICES ASSUME NEW t \in Writers, result[t] # "Published", result'[t] = "Published"
               PROVE  intact[t]
    BY DEF PublishStep
  <1>1. /\ ThreadsTyped /\ t \in Threads /\ t \notin Readers /\ t \notin Recoverers
        /\ None # "Published"
    BY ThreadsAssumption, OutcomesAssumption DEF Inv, Threads, Outcomes
  <1>2. RelyOK(t)
    BY <1>1 DEF LockInv, ThreadLockOK
  <1>3. ASSUME NEW outcome, Finish(t, outcome) PROVE outcome = "Published"
    BY <1>1, <1>3 DEF Finish, ThreadsTyped
  <1>4. ~ (\E next : Continue(t, next)) /\ ~ Staged(t)
    BY DEF Continue, Staged
  <1>5. ~ Restart /\ ~ Abandon(t) /\ ~ Return(t)
    BY <1>1 DEF Restart, Abandon, Return, Idle, ThreadsTyped
  <1>6. WriterActs(t)
    BY <1>1, <1>5, OwnOrOther DEF Holds
  <1>7. ~ ReadHead(t) /\ ~ (\E o \in Operations : BeginPrepare(t, o))
    BY DEF ReadHead, BeginPrepare
  <1>8. ~ Replay(t) /\ ~ Recheck(t, "HeadChanged")
    BY <1>3, <1>4 DEF Replay, Recheck
  <1>9. ~ ReadPayload(t, "permit")
    <2>1. "CorruptSnapshot" # "Published" /\ "permit" # "done"
      OBVIOUS
    <2>2. QED
      BY <1>1, <1>3, <1>4, <2>1 DEF ReadPayload, ThreadsTyped
  <1>10. ~ Permit(t)
    BY <1>3, <1>4 DEF Permit, PermitRefusal
  <1>11. ~ Stage(t)
    BY <1>3, <1>4 DEF Stage, StageRefusal
  <1>12. QED
    BY <1>2, <1>5, <1>6, <1>7, <1>8, <1>9, <1>10, <1>11
    DEF WriterActs, WriterStep, Publish, RelyOK

\* Among operations that abide by the writer, a publish commits the very stage its writer
\* made: no recovery pass can have moved it in between (Staged::publish of driver.rs).
THEOREM OwnStagePublished == ASSUME Bypass = {} PROVE Spec => PublishesOwnStage
PROOF
  <1>1. Inv /\ LockInv /\ [Next]_vars => [PublishStep]_vars
    BY PublishesIntact
  <1>2. LifecycleInv => Inv
    BY DEF LifecycleInv, StoreInv
  <1>3. (Bypass = {} => LockInv) => LockInv
    OBVIOUS
  <1>4. QED
    BY <1>1, <1>2, <1>3, LifecycleInvariance, LockInvariance, PTL
    DEF Spec, PublishesOwnStage, PublishStep

\* The step that refuses a call for staged state.
RefusedStep ==
    Bypass = {} =>
        \A t \in Writers :
            result[t] = None /\ result'[t] = "StagedStateExists" =>
                \A u \in Writers : ~ (pc[u] = "staged" /\ op[u].index = op[t].index)

\* Only a running call is refused for staged state, and not once it staged itself.
LEMMA RefusedWhileAlone ==
    ASSUME Inv, Bypass = {} => LockInv, [Next]_vars
    PROVE  RefusedStep
PROOF
  <1> SUFFICES ASSUME Bypass = {}, LockInv,
                      NEW t \in Writers, result[t] = None, result'[t] = "StagedStateExists",
                      NEW u \in Writers, pc[u] = "staged"
               PROVE  FALSE
    BY DEF RefusedStep
  <1>1. /\ ThreadsTyped /\ t \in Threads /\ u \in Threads
        /\ t \notin Readers /\ t \notin Recoverers
        /\ None # "StagedStateExists"
    BY ThreadsAssumption, NoneAssumption DEF Inv, Threads, Refusals
  <1>2. owner = u
    BY <1>1 DEF LockInv, ThreadLockOK, Running
  <1>3. Running(t) => t = u
    BY <1>1, <1>2 DEF LockInv, ThreadLockOK
  <1>4. WriterActs(t) /\ ~ Return(t)
    <2>1. ~ Restart /\ ~ Abandon(t) /\ ~ Return(t)
      BY <1>1 DEF Restart, Abandon, Return, Idle, ThreadsTyped
    <2>2. QED
      BY <1>1, <2>1, OwnOrOther DEF Holds
  <1>5. ~ \E o \in Operations : BeginPrepare(t, o)
    BY <1>1 DEF BeginPrepare
  <1>6. Running(t)
    BY <1>4, <1>5
    DEF WriterActs, WriterStep, ReadHead, Replay, ReadPayload, Recheck, Permit, Stage,
        Publish, Running
  <1>7. pc[t] = "staged"
    BY <1>3, <1>6
  <1>8. Publish(t)
    BY <1>4, <1>5, <1>7
    DEF WriterActs, WriterStep, ReadHead, Replay, ReadPayload, Recheck, Permit, Stage
  <1>9. PublishRefusalOf(t) # "StagedStateExists"
    BY <1>7, NoConflict
  <1>10. QED
    BY <1>1, <1>8, <1>9 DEF Publish, Finish, ThreadsTyped

\* A refusal for staged state names a stage that was interrupted: no operation that abides
\* by the writer is between its stage and its publish on that index when another one is
\* refused (what error.rs promises of StagedStateExists and RecoveryRequired).
THEOREM InterruptedOnly == Spec => RefusedStageIsInterrupted
PROOF
  <1>1. Inv /\ (Bypass = {} => LockInv) /\ [Next]_vars => [RefusedStep]_vars
    BY RefusedWhileAlone
  <1>2. LifecycleInv => Inv
    BY DEF LifecycleInv, StoreInv
  <1>3. QED
    BY <1>1, <1>2, LifecycleInvariance, LockInvariance, PTL
    DEF Spec, RefusedStageIsInterrupted, RefusedStep
==============================================================================
