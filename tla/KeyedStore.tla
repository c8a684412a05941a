----------------------------- MODULE KeyedStore -----------------------------
(***************************************************************************)
(* The lifecycle maps of the two adapters, keyed by text: atmis keeps them *)
(* in ordered maps behind one mutex and changes them one at a time;        *)
(* thesauros keeps them in fjall keyspaces and commits one batch.  A write *)
(* is checked by looking keys up and by scanning for a prefix, and every   *)
(* listing parses the keys it meets.                                       *)
(*                                                                         *)
(* The contract both promise is LifecycleStore's, by identity and version. *)
(* The failures of a commit and reopening are modelled there.              *)
(***************************************************************************)
EXTENDS StorageKeys

CONSTANTS
    Indexes,        \* index identities
    Keys,           \* operation keys, texts
    MaxVersion,     \* a bound on versions
    MaxSequence,    \* the largest sequence number (u64::MAX)
    Heads,          \* head records
    Payloads,       \* version payloads
    Markers,        \* staging markers
    Records,        \* operation records
    None

KeyedAssumption ==
    /\ \A i \in Indexes : IsNamespace(i.namespace) /\ IsName(i.name)
    /\ \A k \in Keys : IsOperationKey(k)
    /\ MaxVersion \in 1..MaxNumber
    /\ MaxSequence \in 1..MaxNumber

VARIABLES
    adapter,        \* "atmis" or "thesauros"
    state,          \* LifecycleState of atmis, LifecycleKeyspaces of thesauros
    writing,        \* the write that holds the mutex: the state it found and what it still does
    mutex_poisoned  \* a thread panicked with the mutex held

vars == <<adapter, state, writing, mutex_poisoned>>

Versions == 1..MaxVersion

(***************************************************************************)
(* The keys of this store, written once.                                   *)
(***************************************************************************)
HeadKey == [i \in Indexes |-> head(i)]
Prefix == [i \in Indexes |-> index_prefix(i)]
VersionKey == [i \in Indexes |-> [v \in Versions |-> version(i, v)]]
StagingKey == [i \in Indexes |-> [v \in Versions |-> staging(i, v)]]
OperationKey == [i \in Indexes |-> [k \in Keys |-> operation(i, k)]]
QuarantineKey ==
    [n \in 1..MaxSequence |-> [i \in Indexes |-> [v \in Versions |->
        [part \in DOMAIN QuarantinePart |-> quarantine(n, i, v, part)]]]]

(***************************************************************************)
(* Maps from texts to values.                                              *)
(***************************************************************************)
Empty == [k \in {} |-> None]

Get(map, key) == IF key \in DOMAIN map THEN map[key] ELSE None

Insert(map, key, value) ==
    [k \in DOMAIN map \cup {key} |-> IF k = key THEN value ELSE map[k]]

Remove(map, key) == [k \in DOMAIN map \ {key} |-> map[k]]

\* The keys of S in byte order.
Ascending(S) ==
    [p \in 1..Cardinality(S) |->
        CHOOSE k \in S : Cardinality({j \in S : Before(j, k)}) = p - 1]

(***************************************************************************)
(* The checks.                                                             *)
(***************************************************************************)
\* The first key from the prefix on, of whichever index it is.
FirstStagedFrom(s, i) ==
    LET from == {k \in DOMAIN s.staging : k = Prefix[i] \/ Before(Prefix[i], k)}
    IN  IF from = {} THEN None ELSE Ascending(from)[1]

first_staged(s, i) ==
    LET from == {k \in DOMAIN s.staging : k = Prefix[i] \/ Before(Prefix[i], k)}
        first == Ascending(from)[1]
    IN  IF from = {} THEN None ELSE IF StartsWith(first, Prefix[i]) THEN first ELSE None

check_head(s, w) == Get(s.heads, HeadKey[w.index]) = w.expectedHead

check_marker(s, w) == Get(s.staging, StagingKey[w.index][w.version]) = w.marker

contains_version(s, w) == VersionKey[w.index][w.version] \in DOMAIN s.versions

contains_operation(s, w) == OperationKey[w.index][w.key] \in DOMAIN s.operations

\* The sequence of the last entry, by the order of the list or of the keys, and one more.
next_sequence(s) ==
    LET keys == DOMAIN s.quarantine
    IN  IF keys = {} THEN 1
        ELSE IF adapter = "atmis" THEN s.quarantine[Cardinality(keys)].sequence + 1
        ELSE parse_quarantine(Ascending(keys)[Cardinality(keys)])[1] + 1

StageRefusal(s, w) ==
    IF ~ check_head(s, w) THEN "HeadChanged"
    ELSE IF first_staged(s, w.index) # None THEN "StagedStateExists"
    ELSE IF contains_version(s, w) THEN "VersionStored"
    ELSE IF contains_operation(s, w) THEN "OperationRecorded"
    ELSE None

PublishRefusal(s, w) ==
    IF ~ check_head(s, w) THEN "HeadChanged"
    ELSE IF ~ check_marker(s, w) THEN "StagedStateMissing"
    ELSE IF ~ contains_version(s, w) THEN "StagedStateMissing"
    ELSE IF contains_operation(s, w) THEN "OperationRecorded"
    ELSE None

DestroyRefusal(s, w) ==
    IF ~ check_head(s, w) THEN "HeadChanged"
    ELSE IF first_staged(s, w.index) # None THEN "StagedStateExists"
    ELSE IF contains_operation(s, w) THEN "OperationRecorded"
    ELSE None

QuarantineRefusal(s, w) ==
    IF ~ check_marker(s, w) THEN "StagedStateMissing"
    ELSE IF next_sequence(s) > MaxSequence THEN "Persistence"
    ELSE None

(***************************************************************************)
(* What a write that passed its checks does: updates of single maps, in    *)
(* the order atmis makes them.                                             *)
(***************************************************************************)
Put(map, key, value) == [map |-> map, key |-> key, value |-> value]
Delete(map, key) == [map |-> map, key |-> key, value |-> None]

StageUpdates(s, w) ==
    <<Put("versions", VersionKey[w.index][w.version], w.payload),
      Put("staging", StagingKey[w.index][w.version], w.marker)>>

PublishUpdates(s, w) ==
    <<Put("heads", HeadKey[w.index], w.head),
      Put("operations", OperationKey[w.index][w.key], w.record),
      Delete("staging", StagingKey[w.index][w.version])>>

\* A destroy that removes the operation records of the versions too.
DestroyUpdatesSharedMap(s, w) ==
    <<Put("heads", HeadKey[w.index], w.head),
      Put("operations", OperationKey[w.index][w.key], w.record)>>
    \o [v \in 1..Cardinality(w.versions) |-> Delete("operations", VersionKey[w.index][v])]

DestroyUpdates(s, w) ==
    <<Put("heads", HeadKey[w.index], w.head),
      Put("operations", OperationKey[w.index][w.key], w.record)>>
    \o [v \in 1..Cardinality(w.versions) |-> Delete("versions", VersionKey[w.index][v])]

\* atmis appends an entry to its list; thesauros puts the marker, and the payload when
\* there is one, under keys of their own.
QuarantineUpdates(s, w) ==
    LET n == next_sequence(s)
        payload == Get(s.versions, VersionKey[w.index][w.version])
        emptied == <<Delete("versions", VersionKey[w.index][w.version]),
                     Delete("staging", StagingKey[w.index][w.version])>>
        PutPart(part, value) == Put("quarantine", QuarantineKey[n][w.index][w.version][part], value)
    IN  CASE adapter = "atmis" ->
                emptied \o <<Put("quarantine", Cardinality(DOMAIN s.quarantine) + 1,
                                 [sequence |-> n, index |-> w.index, version |-> w.version,
                                  marker |-> w.marker, payload |-> payload])>>
          [] adapter = "thesauros" ->
                <<PutPart("marker", w.marker)>>
                \o (IF payload = None THEN <<>> ELSE <<PutPart("payload", payload)>>)
                \o emptied

Applied(s, u) ==
    [s EXCEPT ![u.map] = IF u.value = None THEN Remove(@, u.key) ELSE Insert(@, u.key, u.value)]

\* All the updates of a write.
Committed(s, updates) ==
    LET after[p \in 0..Len(updates)] ==
            IF p = 0 THEN s ELSE Applied(after[p - 1], updates[p])
    IN  after[Len(updates)]

(***************************************************************************)
(* The writes.                                                             *)
(***************************************************************************)
StageWrites ==
    [index : Indexes, version : Versions, key : Keys, expectedHead : Heads \cup {None},
     marker : Markers, payload : Payloads]

PublishWrites ==
    [index : Indexes, version : Versions, key : Keys, expectedHead : Heads \cup {None},
     marker : Markers, head : Heads, record : Records]

DestroyWrites ==
    [index : Indexes, key : Keys, expectedHead : Heads, head : Heads, record : Records,
     versions : {1..v : v \in Versions}]

QuarantineWrites == [index : Indexes, version : Versions, marker : Markers]

NoWrite == [before |-> None, todo |-> <<>>]

Init ==
    /\ adapter \in {"atmis", "thesauros"}
    /\ state = [heads |-> Empty, versions |-> Empty, staging |-> Empty, operations |-> Empty,
                quarantine |-> Empty]
    /\ writing = NoWrite
    /\ mutex_poisoned = FALSE

MutexFree == writing = NoWrite /\ ~ mutex_poisoned

\* atmis changes one map after the other, thesauros commits them all.
Write(updates) ==
    \/ /\ adapter = "atmis"
       /\ writing' = [before |-> state, todo |-> updates]
       /\ UNCHANGED <<adapter, state, mutex_poisoned>>
    \/ /\ adapter = "thesauros"
       /\ state' = Committed(state, updates)
       /\ UNCHANGED <<adapter, writing, mutex_poisoned>>

Stage(w) == MutexFree /\ StageRefusal(state, w) = None /\ Write(StageUpdates(state, w))

Publish(w) == MutexFree /\ PublishRefusal(state, w) = None /\ Write(PublishUpdates(state, w))

Destroy(w) == MutexFree /\ DestroyRefusal(state, w) = None /\ Write(DestroyUpdates(state, w))

Quarantine(w) ==
    MutexFree /\ QuarantineRefusal(state, w) = None /\ Write(QuarantineUpdates(state, w))

\* The next update of the write that holds the mutex; the last one frees it.
Update ==
    /\ writing # NoWrite
    /\ ~ mutex_poisoned
    /\ state' = Applied(state, Head(writing.todo))
    /\ writing' = IF Len(writing.todo) = 1 THEN NoWrite
                  ELSE [writing EXCEPT !.todo = Tail(@)]
    /\ UNCHANGED <<adapter, mutex_poisoned>>

\* A panic with the mutex held, wherever the write has got to.
Panic ==
    /\ writing # NoWrite
    /\ ~ mutex_poisoned
    /\ mutex_poisoned' = TRUE
    /\ UNCHANGED <<adapter, state, writing>>

\* A call that the checks or the poisoned mutex refuse changes nothing.
Refuse ==
    /\ \/ mutex_poisoned
       \/ /\ MutexFree
          /\ \/ \E w \in StageWrites : StageRefusal(state, w) # None
             \/ \E w \in PublishWrites : PublishRefusal(state, w) # None
             \/ \E w \in DestroyWrites : DestroyRefusal(state, w) # None
             \/ \E w \in QuarantineWrites : QuarantineRefusal(state, w) # None
    /\ UNCHANGED vars

Next ==
    \/ \E w \in StageWrites : Stage(w)
    \/ \E w \in PublishWrites : Publish(w)
    \/ \E w \in DestroyWrites : Destroy(w)
    \/ \E w \in QuarantineWrites : Quarantine(w)
    \/ Update
    \/ Panic
    \/ Refuse

Spec == Init /\ [][Next]_vars

(***************************************************************************)
(* Reads and listings.  atmis reads with the mutex held and refuses it     *)
(* poisoned; thesauros reads a snapshot and takes no lock.                 *)
(***************************************************************************)
\* A lock that is recovered when it is poisoned, as the snapshot maps' locks are.
ReadableThroughPoison == adapter = "thesauros" \/ writing = NoWrite \/ mutex_poisoned

Readable == adapter = "thesauros" \/ MutexFree

read_staging(i) ==
    LET key == first_staged(state, i)
    IN  IF key = None THEN None ELSE <<parse_staging(key)[2], state.staging[key]>>

\* A listing in key order, refused as a whole when a key does not parse.
Listing(map, keys, Parse(_)) ==
    LET order == Ascending(keys)
    IN  IF \E k \in keys : Parse(k) = Corrupt THEN Corrupt
        ELSE [p \in DOMAIN order |-> Parse(order[p]) \o <<map[order[p]]>>]

list_heads == Listing(state.heads, DOMAIN state.heads, parse_head)

list_staged == Listing(state.staging, DOMAIN state.staging, parse_staging)

list_operations(i) ==
    Listing(state.operations, {k \in DOMAIN state.operations : StartsWith(k, Prefix[i])},
            parse_operation)

\* One entry for each marker; a payload belongs to the entry just before it.
Paired(entries, key, value) ==
    LET q == parse_quarantine(key)
        last == entries[Len(entries)]
    IN  IF entries = Corrupt \/ q = Corrupt THEN Corrupt
        ELSE IF q[4] = "marker"
        THEN Append(entries, [sequence |-> q[1], index |-> q[2], version |-> q[3],
                              marker |-> value, payload |-> None])
        ELSE IF entries = <<>> THEN Corrupt
        ELSE IF <<last.sequence, last.index, last.version, last.payload>> = <<q[1], q[2], q[3], None>>
        THEN [entries EXCEPT ![Len(entries)].payload = value]
        ELSE Corrupt

list_quarantined ==
    LET order == Ascending(DOMAIN state.quarantine)
        upto[p \in 0..Len(order)] ==
            IF p = 0 THEN <<>> ELSE Paired(upto[p - 1], order[p], state.quarantine[order[p]])
    IN  IF adapter = "atmis" THEN state.quarantine ELSE upto[Len(order)]

(***************************************************************************)
(* The contract.  The store that is promised is the one before the write   *)
(* under way, by identity and version.                                     *)
(***************************************************************************)
Promised == IF writing = NoWrite THEN state ELSE writing.before

L == INSTANCE LifecycleStore WITH
        db <- None, onDisk <- None, poisoned <- mutex_poisoned,
        Members <- {}, Provenances <- {}, Retentions <- {}, Configs <- {}, Contents <- {}

\* The entries of a quarantine, numbered from one.
Entries(s) ==
    IF adapter = "atmis" THEN s.quarantine
    ELSE LET Named(n, i, v, part) == QuarantineKey[n][i][v][part] \in DOMAIN s.quarantine
             numbers == {n \in 1..MaxSequence : \E i \in Indexes, v \in Versions : Named(n, i, v, "marker")}
         IN  [n \in 1..Cardinality(numbers) |->
                LET i == CHOOSE j \in Indexes : \E v \in Versions : Named(n, j, v, "marker")
                    v == CHOOSE u \in Versions : Named(n, i, u, "marker")
                IN  [sequence |-> n, index |-> i, version |-> v,
                     marker |-> s.quarantine[QuarantineKey[n][i][v].marker],
                     payload |-> Get(s.quarantine, QuarantineKey[n][i][v].payload)]]

AbsDb ==
    LET StoredHead(i) == Get(Promised.heads, HeadKey[i])
    IN  [heads |-> [i \in Indexes |-> IF StoredHead(i) = None THEN L!AbsentHead ELSE StoredHead(i)],
         versions |-> [i \in Indexes |-> [v \in Versions |->
                            Get(Promised.versions, VersionKey[i][v])]],
         staging |-> [i \in Indexes |-> [v \in Versions |->
                            Get(Promised.staging, StagingKey[i][v])]],
         operations |-> [i \in Indexes |-> [k \in Keys |->
                            Get(Promised.operations, OperationKey[i][k])]],
         quarantine |-> Entries(Promised)]

\* A write as the contract takes it.
Abs(w) == [w EXCEPT !.expectedHead = IF @ = None THEN L!AbsentHead ELSE @]

ContractStep ==
    \E before \in {AbsDb}, after \in {AbsDb'} :
        \/ \E w \in StageWrites :
            /\ L!StageRefusal(before, Abs(w)) = None
            /\ after = L!StageEffect(before, w)
        \/ \E w \in PublishWrites :
            /\ L!PublishRefusal(before, Abs(w)) = None
            /\ after = L!PublishEffect(before, w)
        \/ \E w \in DestroyWrites :
            /\ L!DestroyRefusal(before, Abs(w)) = None
            /\ after = L!DestroyEffect(before, w)
        \/ \E w \in QuarantineWrites :
            /\ L!QuarantineRefusal(before, w) = None
            /\ after = L!QuarantineEffect(before, w)

(***************************************************************************)
(* Properties.                                                             *)
(***************************************************************************)
(***************************************************************************)
(* Refinement: the maps change as the contract's store does, by the whole  *)
(* effect of one write whose checks hold, whatever texts the keys of two   *)
(* indexes, of a version and of an operation share.  A write that panics   *)
(* half way never counts.                                                  *)
(***************************************************************************)
ImplementsContract == AbsDb = L!EmptyStore /\ [][ContractStep]_<<adapter, Promised>>

(***************************************************************************)
(* Every write is refused exactly when the contract refuses it, for the    *)
(* same reason, although the adapters decide by scanning for a prefix and  *)
(* by the last key.                                                        *)
(***************************************************************************)
RefusalsMatchContract ==
    MutexFree =>
        \E db \in {AbsDb} :
            /\ \A w \in StageWrites : StageRefusal(state, w) = L!StageRefusal(db, Abs(w))
            /\ \A w \in PublishWrites : PublishRefusal(state, w) = L!PublishRefusal(db, Abs(w))
            /\ \A w \in DestroyWrites : DestroyRefusal(state, w) = L!DestroyRefusal(db, Abs(w))
            /\ \A w \in QuarantineWrites : QuarantineRefusal(state, w) = L!QuarantineRefusal(db, w)

(***************************************************************************)
(* What reads and listings return is what is promised: complete, of the    *)
(* right index, in the documented order, every payload with its marker,    *)
(* and never the half of a write that a panic left behind.                 *)
(***************************************************************************)
Elements(seq) == {seq[p] : p \in DOMAIN seq}

\* A listing has exactly these elements, its keys ascending.
Lists(listing, elements, Key(_)) ==
    /\ Elements(listing) = elements
    /\ \A p \in 1..(Len(listing) - 1) : Before(Key(listing[p]), Key(listing[p + 1]))

ReadsMatchContract ==
    Readable => \E db \in {AbsDb} :
        /\ Lists(list_heads,
                 {<<i, db.heads[i]>> : i \in {j \in Indexes : db.heads[j] # L!AbsentHead}},
                 LAMBDA e : HeadKey[e[1]])
        /\ Lists(list_staged,
                 {<<i, v, db.staging[i][v]>> : <<i, v>> \in
                    {x \in Indexes \X Versions : db.staging[x[1]][x[2]] # None}},
                 LAMBDA e : StagingKey[e[1]][e[2]])
        /\ list_quarantined = db.quarantine
        /\ \A i \in Indexes :
            /\ Lists(list_operations(i),
                     {<<i, k, db.operations[i][k]>> :
                        k \in {k \in Keys : db.operations[i][k] # None}},
                     LAMBDA e : e[2])
            /\ \/ /\ ~ L!HasStaged(db, i)
                  /\ read_staging(i) = None
               \/ /\ L!HasStaged(db, i)
                  /\ db.staging[i][read_staging(i)[1]] = read_staging(i)[2]
=============================================================================
