--------------------------- MODULE LifecycleStore ---------------------------
(***************************************************************************)
(* The storage a lifecycle runs on: the LifecycleBackend contract of       *)
(* heurema's lifecycle/backend.rs as the durable adapter thesauros keeps   *)
(* it (atmis makes the same checks in the same order under its one mutex). *)
(*                                                                         *)
(* A store holds five maps.  Each write runs its checks and its effect     *)
(* under one backend lock, so it is one step: it refuses, writing nothing, *)
(* or commits one atomic batch.  `db' is what reads see.  `onDisk' is the  *)
(* set of stores a reopen may find: a commit that fails leaves its batch   *)
(* whole in the journal or not there at all, is not applied in memory, and *)
(* poisons the database, which refuses every later write until reopen.     *)
(***************************************************************************)
EXTENDS IndexSuccessor, Sequences

CONSTANT MaxSequence    \* the largest quarantine sequence number (u64::MAX)

ASSUME MaxSequenceAssumption == MaxSequence \in Nat \ {0}

VARIABLES
    db,         \* the five maps, as in-process reads see them
    onDisk,     \* the stores a reopen may find
    poisoned    \* whether the database refuses writes until reopen

storeVars == <<db, onDisk, poisoned>>

EmptyStore ==
    [heads      |-> [i \in Indexes |-> AbsentHead],
     versions   |-> [i \in Indexes |-> [v \in IndexVersion |-> None]],
     staging    |-> [i \in Indexes |-> [v \in IndexVersion |-> None]],
     operations |-> [i \in Indexes |-> [k \in Keys |-> None]],
     quarantine |-> <<>>]

StoreInit ==
    /\ db = EmptyStore
    /\ onDisk = {EmptyStore}
    /\ poisoned = FALSE

(***************************************************************************)
(* The structural checks.                                                  *)
(***************************************************************************)
HasStaged(d, i) == \E v \in IndexVersion : d.staging[i][v] # None

CheckMarker(d, i, v, marker) == d.staging[i][v] = marker

\* A stage that trusts the reads of its caller instead of comparing the head.
StageRefusalUnfenced(d, w) ==
    IF HasStaged(d, w.index) THEN "StagedStateExists"
    ELSE IF d.versions[w.index][w.version] # None THEN "VersionStored"
    ELSE IF d.operations[w.index][w.key] # None THEN "OperationRecorded"
    ELSE None

StageRefusal(d, w) ==
    IF d.heads[w.index] # w.expectedHead THEN "HeadChanged"
    ELSE IF HasStaged(d, w.index) THEN "StagedStateExists"
    ELSE IF d.versions[w.index][w.version] # None THEN "VersionStored"
    ELSE IF d.operations[w.index][w.key] # None THEN "OperationRecorded"
    ELSE None

PublishRefusal(d, w) ==
    IF d.heads[w.index] # w.expectedHead THEN "HeadChanged"
    ELSE IF ~ CheckMarker(d, w.index, w.version, w.marker) THEN "StagedStateMissing"
    ELSE IF d.versions[w.index][w.version] = None THEN "StagedStateMissing"
    ELSE IF d.operations[w.index][w.key] # None THEN "OperationRecorded"
    ELSE None

\* A destroy that trusts the head its caller read.
DestroyRefusalUnfenced(d, w) ==
    IF HasStaged(d, w.index) THEN "StagedStateExists"
    ELSE IF d.operations[w.index][w.key] # None THEN "OperationRecorded"
    ELSE None

DestroyRefusal(d, w) ==
    IF d.heads[w.index] # w.expectedHead THEN "HeadChanged"
    ELSE IF HasStaged(d, w.index) THEN "StagedStateExists"
    ELSE IF d.operations[w.index][w.key] # None THEN "OperationRecorded"
    ELSE None

\* One past the last entry's sequence, or the first when there is none.
NextSequence(d) ==
    IF d.quarantine = <<>> THEN 1
    ELSE d.quarantine[Len(d.quarantine)].sequence + 1

\* A quarantine that moves what it was told to, staged or not.
QuarantineRefusalUnchecked(d, w) ==
    IF NextSequence(d) > MaxSequence THEN "Persistence" ELSE None

QuarantineRefusal(d, w) ==
    IF ~ CheckMarker(d, w.index, w.version, w.marker) THEN "StagedStateMissing"
    ELSE IF NextSequence(d) > MaxSequence THEN "Persistence"
    ELSE None

(***************************************************************************)
(* The effects: what one committed batch leaves in the store.              *)
(***************************************************************************)
StageEffect(d, w) ==
    [d EXCEPT !.versions[w.index][w.version] = w.payload,
              !.staging[w.index][w.version] = w.marker]

\* A publish that leaves its marker behind.
PublishEffectKeepingMarker(d, w) ==
    [d EXCEPT !.heads[w.index] = w.head, !.operations[w.index][w.key] = w.record]

\* A publish that moves the head and writes no operation record.
PublishEffectUnrecorded(d, w) ==
    [d EXCEPT !.heads[w.index] = w.head, !.staging[w.index][w.version] = None]

PublishEffect(d, w) ==
    [d EXCEPT !.heads[w.index] = w.head,
              !.operations[w.index][w.key] = w.record,
              !.staging[w.index][w.version] = None]

\* A destroy that removes the payload of its last version only.
DestroyEffectLastOnly(d, w) ==
    [d EXCEPT !.heads[w.index] = w.head,
              !.operations[w.index][w.key] = w.record,
              !.versions[w.index][w.head.version] = None]

DestroyEffect(d, w) ==
    [d EXCEPT !.heads[w.index] = w.head,
              !.operations[w.index][w.key] = w.record,
              !.versions[w.index] =
                  [v \in IndexVersion |-> IF v \in w.versions THEN None ELSE @[v]]]

\* A quarantine that drops the marker and the payload without keeping them.
QuarantineEffectLossy(d, w) ==
    [d EXCEPT !.versions[w.index][w.version] = None,
              !.staging[w.index][w.version] = None]

QuarantineEffect(d, w) ==
    [d EXCEPT !.quarantine =
                  Append(@, [sequence |-> NextSequence(d), index |-> w.index,
                             version |-> w.version, marker |-> w.marker,
                             payload |-> d.versions[w.index][w.version]]),
              !.versions[w.index][w.version] = None,
              !.staging[w.index][w.version] = None]

(***************************************************************************)
(* What becomes of a batch that passed its checks.                         *)
(***************************************************************************)
\* An acknowledgement sent before the journal reached the disk.
CommitUnsynced(new) ==
    /\ ~ poisoned
    /\ db' = new
    /\ onDisk' = {db, new}
    /\ UNCHANGED poisoned

Commit(new) ==
    /\ ~ poisoned
    /\ db' = new
    /\ onDisk' = {new}
    /\ UNCHANGED poisoned

\* The commit fails: the batch is in the journal or not, and reads miss it.
CommitPoisons(new) ==
    /\ ~ poisoned
    /\ UNCHANGED db
    /\ onDisk' = {db, new}
    /\ poisoned' = TRUE

\* A backend whose write takes effect and whose acknowledgement is lost.
CommitUnacknowledged(new) ==
    /\ ~ poisoned
    /\ db' = new
    /\ onDisk' = {new}
    /\ UNCHANGED poisoned

\* The backend cannot write, or refuses the size of a value, before any batch.
WriteRefused == UNCHANGED storeVars

\* A panic between a write's checks and its commit poisons the commit lock.
CommitLockPoisons ==
    /\ poisoned' = TRUE
    /\ UNCHANGED <<db, onDisk>>

(***************************************************************************)
(* The failures of a write whose batch passed its checks, which all end in *)
(* HeuremaError::Persistence: the caller cannot tell whether it landed.    *)
(***************************************************************************)
CommitFails(new) == CommitPoisons(new) \/ CommitUnacknowledged(new)

\* The failures that write nothing, before or during the checks.
WriteFails == WriteRefused \/ CommitLockPoisons

\* Reopening replays the whole batches of the journal.
Reopen ==
    /\ db' \in onDisk
    /\ onDisk' = {db'}
    /\ poisoned' = FALSE
=============================================================================
