-------------------------- MODULE LifecycleDriver --------------------------
(***************************************************************************)
(* The lifecycle driver of heurema (lifecycle/driver.rs) over the store:   *)
(* threads that apply operations through prepare, stage and publish,       *)
(* readers that resolve an index without a lock, and recovery passes that  *)
(* move staged state to quarantine.                                        *)
(*                                                                         *)
(* Every backend call is a step of its own.  A thread that abides by the   *)
(* contract holds the backend's writer from before its head read until its *)
(* publish, its error or its drop; a thread in Bypass runs the same steps  *)
(* without it, as a direct caller or a second lock would.  Dropping a      *)
(* Prepared or Staged, a failing read and a panic all end an operation     *)
(* where it stands and release the writer; a process stop ends every       *)
(* operation and reopens the store.                                        *)
(***************************************************************************)
EXTENDS LifecycleStore

CONSTANTS
    Writers,        \* threads that apply operations
    Readers,        \* threads that read the active version of an index
    Recoverers,     \* threads that quarantine staged state
    Bypass,         \* the threads that do not take the backend's writer
    Operations      \* the operations callers may request, any number of times

Threads == Writers \cup Readers \cup Recoverers

ASSUME ThreadsAssumption ==
    /\ Bypass \subseteq Writers \cup Recoverers
    /\ Writers \cap Readers = {}
    /\ Writers \cap Recoverers = {}
    /\ Readers \cap Recoverers = {}
    /\ None \notin Threads

ASSUME OperationsAssumption ==
    \A operation \in Operations : operation \in LifecycleOperation /\ Checked(operation)

VARIABLES
    owner,          \* the thread that holds the backend's writer, or None
    pc,             \* the next backend call of each thread
    op,             \* the operation a writer is applying
    seenHead,       \* the head it read: every later write expects it
    seenPayload,    \* the active payload it read
    found,          \* the staged entry a recovery pass listed, the index a reader reads
    result,         \* how the thread's last call ended
    intact,         \* history: the thread's own stage is still in place
    receipts        \* history: every receipt a caller was given

threadVars == <<pc, op, seenHead, seenPayload, found, result, intact>>
vars == <<storeVars, owner, threadVars, receipts>>

Init ==
    /\ StoreInit
    /\ owner = None
    /\ pc = [t \in Threads |-> "idle"]
    /\ op = [t \in Threads |-> None]
    /\ seenHead = [t \in Threads |-> AbsentHead]
    /\ seenPayload = [t \in Threads |-> None]
    /\ found = [t \in Threads |-> None]
    /\ result = [t \in Threads |-> None]
    /\ intact = [t \in Threads |-> FALSE]
    /\ receipts = {}

(***************************************************************************)
(* Helpers of the actions.                                                 *)
(***************************************************************************)
\* An acquire that does not wait for the guard another thread holds.
AcquireUnguarded(t) == IF t \in Bypass THEN UNCHANGED owner ELSE owner' = t

\* WriterLock::acquire, for a thread that abides by it.
Acquire(t) ==
    IF t \in Bypass THEN UNCHANGED owner ELSE owner = None /\ owner' = t

\* Dropping the WriterGuard, if the thread holds one.
Release(t) == owner' = IF owner = t THEN None ELSE owner

\* The call of `t' ends with `outcome' and its guard is dropped.
Finish(t, outcome) ==
    /\ pc' = [pc EXCEPT ![t] = "done"]
    /\ result' = [result EXCEPT ![t] = outcome]
    /\ Release(t)
    /\ UNCHANGED <<op, seenHead, seenPayload, found, intact>>

\* The call goes on to its next step.
Continue(t, next) ==
    /\ pc' = [pc EXCEPT ![t] = next]
    /\ UNCHANGED <<owner, op, seenHead, seenPayload, found, result, intact>>

Receipt(operation, state) ==
    [index |-> operation.index, operation |-> OperationIdentity(operation),
     state |-> state]

\* What Prepared holds: computed once from what prepare read.
Plan(t) == Successor(op[t], seenHead[t], seenPayload[t])

StageWrite(t) ==
    [index |-> op[t].index, version |-> Plan(t).payload.version, key |-> op[t].key,
     expectedHead |-> seenHead[t],
     marker |-> StagingMarker(op[t], Plan(t).payload.version),
     payload |-> Plan(t).payload]

PublishWrite(t) ==
    [index |-> op[t].index, version |-> Plan(t).payload.version, key |-> op[t].key,
     expectedHead |-> seenHead[t],
     marker |-> StagingMarker(op[t], Plan(t).payload.version),
     head |-> Plan(t).head, record |-> Plan(t).record]

DestroyWrite(t) ==
    [index |-> op[t].index, key |-> op[t].key, expectedHead |-> seenHead[t],
     head |-> Plan(t).head, record |-> Plan(t).record,
     versions |-> 1 .. Plan(t).head.version]

(***************************************************************************)
(* IndexLifecycle::prepare.                                                *)
(***************************************************************************)
BeginPrepare(t, operation) ==
    /\ pc[t] = "idle"
    /\ Acquire(t)
    /\ pc' = [pc EXCEPT ![t] = "head"]
    /\ op' = [op EXCEPT ![t] = operation]
    /\ UNCHANGED <<storeVars, seenHead, seenPayload, found, result, intact, receipts>>

ReadHead(t) ==
    /\ pc[t] = "head"
    /\ pc' = [pc EXCEPT ![t] = "replay"]
    /\ seenHead' = [seenHead EXCEPT ![t] = db.heads[op[t].index]]
    /\ UNCHANGED <<storeVars, owner, op, seenPayload, found, result, intact, receipts>>

Replay(t) ==
    LET record == db.operations[op[t].index][op[t].key]
    IN  /\ pc[t] = "replay"
        /\ \/ /\ record = None
              /\ Continue(t, IF seenHead[t].state = "Active" THEN "payload" ELSE "permit")
              /\ UNCHANGED receipts
           \/ /\ record # None
              /\ record.operation = OperationIdentity(op[t])
              /\ receipts' = receipts \cup {Receipt(op[t], record.resulting)}
              /\ Finish(t, "Replayed")
           \/ /\ record # None
              /\ record.operation # OperationIdentity(op[t])
              /\ Finish(t, "OperationConflict")
              /\ UNCHANGED receipts
        /\ UNCHANGED storeVars

\* The index a thread is working on.
IndexOf(t) == IF t \in Writers THEN op[t].index ELSE found[t].index

(***************************************************************************)
(* active_payload, for prepare and for index(): the payload the head       *)
(* names; when it is gone, a second head read tells a destroy from damage. *)
(***************************************************************************)
ReadPayload(t, next) ==
    LET payload == db.versions[IndexOf(t)][seenHead[t].version]
    IN  /\ pc[t] = "payload"
        /\ \/ payload = None /\ Continue(t, "recheck")
           \/ /\ payload # None
              /\ \/ ~ DecodesAs(payload, IndexOf(t), seenHead[t].version)
                 \/ payload.config # seenHead[t].config
              /\ Finish(t, "CorruptSnapshot")
           \/ /\ payload # None
              /\ DecodesAs(payload, IndexOf(t), seenHead[t].version)
              /\ payload.config = seenHead[t].config
              /\ pc' = [pc EXCEPT ![t] = next]
              /\ seenPayload' = [seenPayload EXCEPT ![t] = payload]
              /\ result' = [result EXCEPT ![t] = IF next = "done" THEN "Found" ELSE @]
              /\ UNCHANGED <<owner, op, seenHead, found, intact>>
        /\ UNCHANGED <<storeVars, receipts>>

\* A missing payload taken for damage without a second head read.
RecheckAssumingDamage(t, gone) ==
    /\ pc[t] = "recheck"
    /\ Finish(t, "CorruptSnapshot")
    /\ UNCHANGED <<storeVars, receipts>>

\* A missing payload looked for again.
RecheckRetrying(t, gone) ==
    /\ pc[t] = "recheck"
    /\ Continue(t, "payload")
    /\ UNCHANGED <<storeVars, receipts>>

Recheck(t, gone) ==
    /\ pc[t] = "recheck"
    /\ Finish(t, IF db.heads[IndexOf(t)].state = "Active" THEN "CorruptSnapshot"
                                                         ELSE gone)
    /\ UNCHANGED <<storeVars, receipts>>

\* permit, the staged-state check, and the build of the successor version.
Permit(t) ==
    LET refusal == PermitRefusal(op[t], seenHead[t])
    IN  /\ pc[t] = "permit"
        /\ IF refusal # None THEN Finish(t, refusal)
           ELSE IF HasStaged(db, op[t].index) THEN Finish(t, "StagedStateExists")
           ELSE IF VersionExhausted(op[t], seenHead[t]) THEN Finish(t, "InvalidIdentifier")
           ELSE Continue(t, "prepared")
        /\ UNCHANGED <<storeVars, receipts>>

(***************************************************************************)
(* Prepared::stage and Staged::publish.                                    *)
(***************************************************************************)
\* A stage whose guard is dropped with its Prepared.
StagedReleasing(t) ==
    /\ pc' = [pc EXCEPT ![t] = "staged"]
    /\ intact' = [intact EXCEPT ![t] = TRUE]
    /\ Release(t)
    /\ UNCHANGED <<op, seenHead, seenPayload, found, result>>

\* A stage that found its checks passed and committed.
Staged(t) ==
    /\ pc' = [pc EXCEPT ![t] = "staged"]
    /\ intact' = [intact EXCEPT ![t] = TRUE]
    /\ UNCHANGED <<owner, op, seenHead, seenPayload, found, result>>

Stage(t) ==
    /\ pc[t] = "prepared"
    /\ UNCHANGED receipts
    /\ IF op[t].transition = "Destroy"
       THEN UNCHANGED storeVars /\ Staged(t)
       ELSE LET refusal == StageRefusal(db, StageWrite(t))
                new == StageEffect(db, StageWrite(t))
            IN  \/ refusal # None /\ UNCHANGED storeVars /\ Finish(t, refusal)
                \/ refusal = None /\ Commit(new) /\ Staged(t)
                \/ refusal = None /\ CommitFails(new) /\ Finish(t, "Persistence")
                \/ WriteFails /\ Finish(t, "Persistence")

PublishRefusalOf(t) ==
    IF op[t].transition = "Destroy" THEN DestroyRefusal(db, DestroyWrite(t))
                                    ELSE PublishRefusal(db, PublishWrite(t))

PublishEffectOf(t) ==
    IF op[t].transition = "Destroy" THEN DestroyEffect(db, DestroyWrite(t))
                                    ELSE PublishEffect(db, PublishWrite(t))

Publish(t) ==
    LET refusal == PublishRefusalOf(t)
        new == PublishEffectOf(t)
    IN  /\ pc[t] = "staged"
        /\ \/ refusal # None /\ UNCHANGED <<storeVars, receipts>> /\ Finish(t, refusal)
           \/ /\ refusal = None
              /\ Commit(new)
              /\ receipts' = receipts \cup {Receipt(op[t], Plan(t).record.resulting)}
              /\ Finish(t, "Published")
           \/ /\ refusal = None
              /\ CommitFails(new)
              /\ UNCHANGED receipts
              /\ Finish(t, "Persistence")
           \/ WriteFails /\ UNCHANGED receipts /\ Finish(t, "Persistence")

(***************************************************************************)
(* IndexLifecycle::index: the head, then the payload it names, no lock.    *)
(***************************************************************************)
BeginIndex(r, i) ==
    /\ pc[r] = "idle"
    /\ found' = [found EXCEPT ![r] = [index |-> i]]
    /\ seenHead' = [seenHead EXCEPT ![r] = db.heads[i]]
    /\ \/ /\ db.heads[i].state # "Active"
          /\ pc' = [pc EXCEPT ![r] = "done"]
          /\ result' = [result EXCEPT ![r] = "IndexNotFound"]
       \/ /\ db.heads[i].state = "Active"
          /\ pc' = [pc EXCEPT ![r] = "payload"]
          /\ UNCHANGED result
    /\ UNCHANGED <<storeVars, owner, op, seenPayload, intact, receipts>>

(***************************************************************************)
(* A recovery pass over one staged entry: list_staged, then quarantine.    *)
(***************************************************************************)
BeginRecover(q) ==
    /\ pc[q] = "idle"
    /\ Acquire(q)
    /\ pc' = [pc EXCEPT ![q] = "list"]
    /\ UNCHANGED <<storeVars, op, seenHead, seenPayload, found, result, intact, receipts>>

ListStaged(q, i, v) ==
    /\ pc[q] = "list"
    /\ db.staging[i][v] # None
    /\ pc' = [pc EXCEPT ![q] = "quarantine"]
    /\ found' = [found EXCEPT ![q] = [index |-> i, version |-> v,
                                      marker |-> db.staging[i][v]]]
    /\ UNCHANGED <<storeVars, owner, op, seenHead, seenPayload, result, intact, receipts>>

NothingStaged(q) ==
    /\ pc[q] = "list"
    /\ \A i \in Indexes : ~ HasStaged(db, i)
    /\ Finish(q, "NothingStaged")
    /\ UNCHANGED <<storeVars, receipts>>

Quarantine(q) ==
    LET refusal == QuarantineRefusal(db, found[q])
        new == QuarantineEffect(db, found[q])
        ended(outcome) ==
            /\ pc' = [pc EXCEPT ![q] = "done"]
            /\ result' = [result EXCEPT ![q] = outcome]
            /\ Release(q)
            /\ UNCHANGED <<op, seenHead, seenPayload, found>>
        moved == intact' = [t \in Threads |->
                     intact[t] /\ (t \in Writers => op[t].index # found[q].index)]
    IN  /\ pc[q] = "quarantine"
        /\ \/ refusal # None /\ UNCHANGED <<storeVars, intact>> /\ ended(refusal)
           \/ refusal = None /\ Commit(new) /\ moved /\ ended("Quarantined")
           \/ refusal = None /\ CommitFails(new) /\ moved /\ ended("Persistence")
           \/ WriteFails /\ UNCHANGED intact /\ ended("Persistence")
        /\ UNCHANGED receipts

(***************************************************************************)
(* The end of a call, an operation given up, and a process stop.           *)
(***************************************************************************)
Idle(t) ==
    /\ pc' = [pc EXCEPT ![t] = "idle"]
    /\ op' = [op EXCEPT ![t] = None]
    /\ seenHead' = [seenHead EXCEPT ![t] = AbsentHead]
    /\ seenPayload' = [seenPayload EXCEPT ![t] = None]
    /\ found' = [found EXCEPT ![t] = None]
    /\ result' = [result EXCEPT ![t] = None]
    /\ intact' = [intact EXCEPT ![t] = FALSE]

Return(t) ==
    /\ pc[t] = "done"
    /\ Idle(t)
    /\ UNCHANGED <<storeVars, owner, receipts>>

\* A guard that outlives the operation it was taken for.
AbandonKeepingWriter(t) ==
    /\ pc[t] \notin {"idle", "done"}
    /\ Idle(t)
    /\ UNCHANGED <<storeVars, owner, receipts>>

\* The caller drops its Prepared or Staged, a read fails, or the thread panics.
Abandon(t) ==
    /\ pc[t] \notin {"idle", "done"}
    /\ Idle(t)
    /\ Release(t)
    /\ UNCHANGED <<storeVars, receipts>>

Restart ==
    /\ Reopen
    /\ owner' = None
    /\ pc' = [t \in Threads |-> "idle"]
    /\ op' = [t \in Threads |-> None]
    /\ seenHead' = [t \in Threads |-> AbsentHead]
    /\ seenPayload' = [t \in Threads |-> None]
    /\ found' = [t \in Threads |-> None]
    /\ result' = [t \in Threads |-> None]
    /\ intact' = [t \in Threads |-> FALSE]
    /\ UNCHANGED receipts

WriterStep(t) ==
    \/ ReadHead(t)
    \/ Replay(t)
    \/ ReadPayload(t, "permit")
    \/ Recheck(t, "HeadChanged")
    \/ Permit(t)
    \/ Stage(t)
    \/ Publish(t)
    \/ Return(t)

ReaderStep(r) ==
    \/ ReadPayload(r, "done")
    \/ Recheck(r, "IndexNotFound")
    \/ Return(r)

RecovererStep(q) ==
    \/ \E i \in Indexes, v \in IndexVersion : ListStaged(q, i, v)
    \/ NothingStaged(q)
    \/ Quarantine(q)
    \/ Return(q)

Next ==
    \/ \E t \in Writers : WriterStep(t) \/ \E operation \in Operations : BeginPrepare(t, operation)
    \/ \E r \in Readers : ReaderStep(r) \/ \E i \in Indexes : BeginIndex(r, i)
    \/ \E q \in Recoverers : RecovererStep(q) \/ BeginRecover(q)
    \/ \E t \in Threads : Abandon(t)
    \/ Restart

Spec == Init /\ [][Next]_vars
=============================================================================
