--------------------------- MODULE LifecycleSafety ---------------------------
(***************************************************************************)
(* What the lifecycle promises, as properties of LifecycleDriver.  The     *)
(* properties of stored state are stated of one store `d' and required of  *)
(* every store a reopen may find, as well as of the one reads see.         *)
(***************************************************************************)
EXTENDS LifecycleDriver

Stores == {db} \cup onDisk

Outcomes ==
    Refusals \cup {"Published", "Replayed", "Found", "NothingStaged", "Quarantined"}

ASSUME OutcomesAssumption == None \notin Outcomes

\* What a staged entry a recovery pass listed looks like, or what a reader reads.
StagedEntries == [index : Indexes, version : IndexVersion, marker : StagingMarkers]
Reads == [index : Indexes]

QuarantinedEntries ==
    [sequence : 1 .. MaxSequence, index : Indexes, version : IndexVersion,
     marker : StagingMarkers, payload : VersionPayloads \cup {None}]

StoreType ==
    [heads : [Indexes -> IndexRecords],
     versions : [Indexes -> [IndexVersion -> VersionPayloads \cup {None}]],
     staging : [Indexes -> [IndexVersion -> StagingMarkers \cup {None}]],
     operations : [Indexes -> [Keys -> OperationRecords \cup {None}]],
     quarantine : Seq(QuarantinedEntries)]

\* The types of the store and of the threads of lifecycle/driver.rs.
TypeOK ==
    /\ db \in StoreType
    /\ \A d \in onDisk : d \in StoreType
    /\ poisoned \in BOOLEAN
    /\ owner \in Threads \cup {None}
    /\ pc \in [Threads -> {"idle", "head", "replay", "payload", "recheck", "permit",
                           "prepared", "staged", "list", "quarantine", "done"}]
    /\ op \in [Threads -> Operations \cup {None}]
    /\ seenHead \in [Threads -> IndexRecords]
    /\ seenPayload \in [Threads -> VersionPayloads \cup {None}]
    /\ found \in [Threads -> StagedEntries \cup Reads \cup {None}]
    /\ result \in [Threads -> Outcomes \cup {None}]
    /\ intact \in [Threads -> BOOLEAN]

(***************************************************************************)
(* The store.                                                              *)
(***************************************************************************)
\* The payloads stored for an index are exactly its published versions, all of
\* them until it is destroyed and none after, and at most one staged version,
\* the one after the head's: stage, publish, destroy and quarantine of the
\* adapters never lose, overwrite or leak one, whoever bypasses the writer.
PayloadLayout(d) ==
    \A i \in Indexes, v \in IndexVersion :
        /\ d.staging[i][v] # None =>
              d.heads[i].state # "Destroyed" /\ v = d.heads[i].version + 1
        /\ d.versions[i][v] # None <=>
              \/ d.staging[i][v] # None
              \/ d.heads[i].state = "Active" /\ v <= d.heads[i].version

PayloadsMatchHeads == \A d \in Stores : PayloadLayout(d)

Records(d, i) == {d.operations[i][k] : k \in {x \in Keys : d.operations[i][x] # None}}

\* The operation records of an index form one chain: exactly one record for each
\* version up to the head's, each applied to the version before it and naming
\* the operation whose payload is stored, and one more for a destroy.
ChainOf(d, i) ==
    LET head == d.heads[i]
        length == head.version + (IF head.state = "Destroyed" THEN 1 ELSE 0)
        chain == d.operations[i]
        recorded == {k \in Keys : chain[k] # None}
    IN  /\ \A k \in recorded : chain[k].from \in 0 .. length - 1
        /\ \A k, l \in recorded : chain[k].from = chain[l].from => k = l
        /\ \A v \in 1 .. length : \E r \in Records(d, i) :
              /\ r.from = v - 1
              /\ r.resulting.version = IF v <= head.version THEN v ELSE head.version
              /\ v = length => r.resulting = IndexState(head)
              /\ v <= head.version /\ head.state = "Active" =>
                    d.versions[i][v].operation = r.operation

AuditChainComplete == \A d \in Stores : \A i \in Indexes : ChainOf(d, i)

\* Staged state belongs to one operation that is not recorded: payload and marker
\* agree, so neither a replay nor a publish can take it for another's, and a
\* quarantined entry always holds the payload beside its marker, under the next
\* sequence number.
StagedStateOf(d) ==
    /\ \A i \in Indexes, v \in IndexVersion :
          LET marker == d.staging[i][v]
          IN  marker # None =>
                /\ d.versions[i][v].operation = marker.operation
                /\ d.operations[i][marker.operation.key] = None
    /\ \A n \in 1 .. Len(d.quarantine) :
          LET entry == d.quarantine[n]
          IN  /\ entry.sequence = n
              /\ entry.payload # None
              /\ entry.payload.operation = entry.marker.operation

StagedStateIsWhole == \A d \in Stores : StagedStateOf(d)

(***************************************************************************)
(* Member history.                                                         *)
(***************************************************************************)
\* Every entry of a published member table is the one its introducing version
\* wrote, with the content the engine still holds, and a `supersedes' link names
\* the entry that stood there just before: provenance can be followed back
\* through every version that apply.rs built.
LineageOf(d, i) ==
    d.heads[i].state = "Active" =>
        \A v \in 1 .. d.heads[i].version :
            \A m \in Present(d.versions[i][v].members) :
                LET entry == d.versions[i][v].members[m]
                    origin == d.versions[i][entry.introduced]
                    before == d.versions[i][entry.introduced - 1].members[m]
                IN  /\ entry.introduced \in 1 .. v
                    /\ origin.members[m] = entry
                    /\ origin.engine.contents[m] = d.versions[i][v].engine.contents[m]
                    /\ entry.supersedes =
                          IF before = None THEN None ELSE before.introduced

LineageHolds == \A d \in Stores : \A i \in Indexes : LineageOf(d, i)

\* A change an operation made to a member, as its record tells it.
Touches(r, m) == r.changes[m] # None /\ r.changes[m].kind # "AbsentOnRemove"

Writes(r, m) == Touches(r, m) /\ r.changes[m].kind \in {"Inserted", "Replaced"}

\* The audit records alone explain every entry an operation displaced: the entry
\* is the one the latest earlier record that touched the member wrote, and there
\* is none when no record wrote it or the latest removed it.  This is what a
\* destroyed index keeps once apply.rs and destroy removed its payloads.
ExplainedIn(d, i) ==
    \A r \in Records(d, i) : \A m \in {x \in Members : r.changes[x] # None} :
        LET earlier == {s \in Records(d, i) : s.from < r.from /\ Touches(s, m)}
            latest == {s \in earlier : \A u \in earlier : u.from <= s.from}
            previous == r.changes[m].previous
        IN  IF \E s \in latest : Writes(s, m)
            THEN \E s \in latest :
                    previous = [provenance |-> s.operation.digest.items[m].provenance,
                                introduced |-> s.from + 1,
                                supersedes |->
                                    IF s.changes[m].kind = "Replaced"
                                    THEN s.changes[m].previous.introduced ELSE None]
            ELSE previous = None

AuditExplainsMembers == \A d \in Stores : \A i \in Indexes : ExplainedIn(d, i)

\* The history of a member can be followed back, in the payloads of a live index
\* (member.rs, apply.rs) and in the records of any.
ProvenanceHolds == LineageHolds /\ AuditExplainsMembers

(***************************************************************************)
(* Callers.                                                                *)
(***************************************************************************)
\* A receipt is durable: whatever a reopen finds holds the record of every
\* operation a caller was told of, first time or by replay, with the state the
\* receipt named.
ReceiptsAreDurable ==
    \A receipt \in receipts : \A d \in Stores :
        LET record == d.operations[receipt.index][receipt.operation.key]
        IN  /\ record # None
            /\ record.operation = receipt.operation
            /\ record.resulting = receipt.state

\* No call ever meets damage: index() and prepare never report a head without its
\* payload or a payload that does not decode, although they read the two at
\* different times, and stage never meets a payload it would overwrite.
NeverCorrupt == \A t \in Threads : result[t] \notin {"CorruptSnapshot", "VersionStored"}

\* What index() returns without a lock, while writers publish and destroy between its
\* reads, is never damage, and is a version that was published whole: its operation is
\* on record as having produced exactly that version.
ReadersSeePublishedVersions ==
    \A r \in Readers :
        /\ result[r] # "CorruptSnapshot"
        /\ result[r] = "Found" =>
              LET payload == seenPayload[r]
              IN  \E record \in Records(db, found[r].index) :
                    /\ record.operation = payload.operation
                    /\ record.resulting =
                          IndexState(ActiveHead(payload.version, payload.config))

\* The statement made of prepare, stage and publish: a conflict with another
\* writer comes only from one that bypasses the backend's writer.
LockedOperationsNeverConflict ==
    Bypass = {} => \A t \in Threads :
        result[t] \notin {"HeadChanged", "StagedStateMissing", "OperationRecorded"}

(***************************************************************************)
(* Steps.                                                                  *)
(***************************************************************************)
\* A head moves only forward, one version at a time, and a destroyed one never
\* moves: "a head never returns to earlier bytes", on which the compare-and-set
\* of driver.rs rests.
HeadStep(old, new) ==
    \/ new = old
    \/ /\ old.state # "Destroyed"
       /\ new.state = "Active"
       /\ new.version = old.version + 1
    \/ /\ old.state = "Active"
       /\ new.state = "Destroyed"
       /\ new.version = old.version
       /\ new.config = old.config

HeadsOnlyAdvance ==
    [][\A i \in Indexes : HeadStep(db.heads[i], db'.heads[i])]_vars

\* A record and a published payload never change: the record stays for good, the
\* payload until the destroy that removes it.
PublishedIsImmutable ==
    [][\A i \in Indexes :
          /\ \A k \in Keys : db.operations[i][k] # None =>
                db'.operations[i][k] = db.operations[i][k]
          /\ \A v \in 1 .. db.heads[i].version :
                db'.heads[i].state = "Active" => db'.versions[i][v] = db.versions[i][v]]_vars

\* Staged state leaves only through its publish or into quarantine, payload and
\* marker together: "nothing ever deletes it".
StagedIsNeverDeleted ==
    [][\A i \in Indexes, v \in IndexVersion :
          db.staging[i][v] # None /\ db'.staging[i][v] # db.staging[i][v] =>
             \/ /\ db'.heads[i].version = v
                /\ db'.versions[i][v] = db.versions[i][v]
             \/ \E n \in 1 .. Len(db'.quarantine) :
                   /\ n > Len(db.quarantine)
                   /\ db'.quarantine[n].marker = db.staging[i][v]
                   /\ db'.quarantine[n].payload = db.versions[i][v]]_vars

\* Nothing stored is lost: not a record, not a published payload, not a staged one
\* (stage, publish, destroy and quarantine of either adapter).
StoredStateIsKept == PublishedIsImmutable /\ StagedIsNeverDeleted

\* A publish commits the very stage its writer made, never one that was moved to
\* quarantine and staged again by another writer.
PublishesOwnStage ==
    [][\A t \in Writers :
          result[t] # "Published" /\ result'[t] = "Published" => intact[t]]_vars

\* What error.rs promises a writer that abides by the lock: a refusal for staged state
\* (StagedStateExists, RecoveryRequired) names a stage that was interrupted, so moving
\* it to quarantine takes it from no operation that is still running.
RefusedStageIsInterrupted ==
    [][Bypass = {} =>
          \A t \in Writers :
              result[t] = None /\ result'[t] = "StagedStateExists" =>
                 \A u \in Writers : ~ (pc[u] = "staged" /\ op[u].index = op[t].index)]_vars

(***************************************************************************)
(* Refinement: what reads see of each index is a history of IndexHistory.  *)
(***************************************************************************)
IndexView(i) ==
    LET head == db.heads[i]
    IN  [kind |-> head.state, version |-> head.version, config |-> head.config,
         contents |-> IF head.state = "Active"
                      THEN db.versions[i][head.version].engine.contents
                      ELSE [m \in Members |-> None],
         applied |-> {k \in Keys : db.operations[i][k] # None}]

History == INSTANCE IndexHistory WITH state <- [i \in Indexes |-> IndexView(i)]

\* Every operation of IndexLifecycle takes effect at most once and all at once,
\* through retries, interleaved writers, failed commits and restarts.
ImplementsHistory == History!Spec

(***************************************************************************)
(* Liveness, of callers that run apply() and index() to their end.         *)
(***************************************************************************)
\* A started call keeps being scheduled; nothing is assumed of who wins a lock.
FairSpec ==
    /\ Spec
    /\ \A t \in Writers : WF_vars(WriterStep(t))
    /\ \A r \in Readers : WF_vars(ReaderStep(r))
    /\ \A q \in Recoverers : WF_vars(RecovererStep(q))

\* A call that got past the writer returns, and index() returns whatever the writers
\* do: no call waits for another thread once it started.  And it returns without the
\* writer of writer.rs, through every refusal, error and drop of an operation.
CallsReturn ==
    \A t \in Threads : pc[t] # "idle" ~> pc[t] = "idle" /\ owner # t
=============================================================================
