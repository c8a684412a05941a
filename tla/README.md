# TLA+ models and proofs for heurema

heurema keeps named search indexes (HNSW vectors, BM25 full text) whose every change is a
durable, idempotent, audited operation.  The part of it that is hard to get right is the
index lifecycle: an operation is prepared, staged and published over a storage backend,
while other threads write and read the same index, commits fail, acknowledgements are lost
and the process stops between any two steps.  Below it lie two search engines, a canonical
encoder, a text key grammar and two storage adapters.  This directory models them, checks
them with TLC on small instances and proves with TLAPS, for every size, the central facts
of the lifecycle, its writer, the snapshots, validation and both engines.

## The system

| component | source | state | operations | interacts with |
|---|---|---|---|---|
| lifecycle driver | `lifecycle/driver.rs` | none of its own: a `Prepared` or `Staged` on the caller's stack | `prepare`, `stage`, `publish`, `apply`, `index`, `record` | takes the backend's writer; calls the backend |
| lifecycle writer | `lifecycle/writer.rs` | owner thread, count of waiters, condition variable | `acquire`, drop of the guard | one per backend, shared by its lifecycles |
| backend contract | `lifecycle/backend.rs` | five maps: heads, versions, staging, operations, quarantine | `stage`, `publish`, `destroy`, `quarantine`, reads, listings | implemented by the two adapters |
| thesauros adapter | `thesauros/src/lib.rs` | the five maps as fjall keyspaces, a commit lock | the contract, one synced batch per write; reopen | fjall journal |
| atmis adapter | `atmis/src/lib.rs` | the five maps behind one mutex | the contract, in memory | |
| successor versions | `lifecycle/apply.rs` | none | `successor`: Create, Insert, Remove, Rebuild, Destroy | called by `prepare` |
| operations, validation | `lifecycle/operation.rs`, `validate.rs` | none | permission table, stateless checks, `permit` | called by `prepare` |
| records and encoding | `lifecycle/record.rs`, `encoding.rs`, `published.rs`, `member.rs` | none | heads, payloads, markers, audit records and their decoding | stored by the backend |
| identity, digest, storage keys | `lifecycle/identity.rs`, `digest.rs`, `backend.rs` | none | identifiers, versions, SHA-256 of the operation, key text | used by all of the above |
| recovery | contract in `backend.rs`, `driver.rs` | | lists staged state and quarantines it | takes the writer; not yet in the repository |
| HNSW engine | `hnsw/engine.rs` | nodes with links per level, a backbone cycle, an entry point | `insert`, `query`, `remove` | held in a version's payload |
| BM25 engine | `fts/bm25.rs` | documents, postings, total length | `insert`, `query`, `remove` | held in a version's payload |
| rank fusion | `rrf.rs` | none | `rrf` | pure |
| snapshots | `persistence.rs`, both adapters | one value per name and family | `save`, `load` | independent of the lifecycle |

What is hard: the driver reads the head, the replay record and the payload in separate
calls and writes in two more, so everything it read may be stale when it writes; `index()`
reads the head and the payload without any lock while a destroy removes payloads; a commit
that failed may or may not be found after a reopen; a retry must tell "already done" from
"not done" from "another operation under my key"; a stop between stage and publish leaves
state that must be neither lost nor readable; and the writer is a hand-made lock over a
condition variable.  The engines keep one fact in several places (a link at both ends,
postings beside documents) through any sequence of changes; the adapters know their records
only by the text of a key; a digest must be the same for a retry and different for
everything else; and what validation lets through must be applied whole and read back.
`PROJECT.json` lists each such place at its line, with the properties
that would catch it going wrong.

What makes each part correct:

- driver and backend together: a receipt is durable; an operation takes effect at most
  once and at one point; heads only advance; published payloads and records never change;
  staged state is never lost, never read, never published as another operation's;
- readers: a whole published version, or the answer that the index is gone;
- successor versions: the audit records form one chain and explain every member change;
- the writer: one holder, no self-deadlock, no lost wake-up, always released; two writers
  taken in one order never wait in a circle;
- adapters: the refusals, listings and writes of the contract, by keys that name one thing;
  an acknowledged snapshot is served for good;
- validation: no refusal depends on the order of a batch; what is accepted is applied whole,
  fits its index and decodes again;
- digest: one value per item, one item per value, one digest per request;
- engines: what a change leaves is what the snapshot decoder accepts, and a query returns
  exactly the best k of its contract; fusion keeps what all rankings agree on.

## Modules

`IndexSuccessor` (no state) has the records and the pure functions on them:
`PermitRefusal` (permission table, then the checks against the current configuration),
`Successor` (`apply::successor`, one operator per transition), `DecodesAs`
(`decode_payload`).  A member table, a batch and a list of member changes are functions on
member identities, since the code sorts every batch and refuses duplicates first.  A head
is an `IndexRecord` with its `IndexState` flattened into it; `IndexState(head)` is the part
an operation record and a receipt carry.

`LifecycleStore` extends it with the backend: `db` (what reads see), `onDisk` (the stores a
reopen may find) and `poisoned`.  Each write is a pair of operators, the refusal with its
checks in the code's order and the effect of its batch.  `Commit`, `CommitFails` and
`WriteFails` say what becomes of a batch: applied and durable; lost, or found only by a
reopen, or applied with its acknowledgement lost; or never written (a size refusal, a
backend that cannot write, a panic that poisons the commit lock).  Both adapters make the
same checks in the same order under one lock, so one module stands for both.

`LifecycleDriver` extends that with threads.  Writers run `prepare`, `stage` and
`publish`, one step per backend call: `BeginPrepare` (the writer), `ReadHead`, `Replay`,
`ReadPayload`, `Recheck` (the second head read when a payload is missing), `Permit`
(permission, staged-state check, build), `Stage`, `Publish`.  What a `Prepared` holds is
`Plan(t)`, computed from what was read.  Readers run `BeginIndex`, `ReadPayload` and
`Recheck` with no lock.  Recovery passes run `BeginRecover`, `ListStaged` and `Quarantine`.
`Abandon` ends an operation anywhere and drops its guard (a dropped `Prepared` or `Staged`,
a failing read, a panic); `Restart` ends all of them and reopens the store.  Threads in
`Bypass` take the same steps without the writer: the code claims to withstand them.

`LifecycleSafety` states the properties, `IndexHistory` is the abstract specification, and
`MCLifecycle` has the small instances.  `LifecycleProofs` has the theorems, in the order in
which they rest on each other: types and layout, what a batch keeps, the published history,
readers, and threads under the writer.

`WriterLock` models the writer by the critical sections of its mutex: `Enter` (`WriterHeld`,
a first wait, or the writer at once), `Woken` (`wait_while` looks again), `Drop` and, after
it and apart from it, `Notify`; a sleeper may wake for no reason and an acquire may barge
in.  `LifecycleDriver` uses it as one step to take and one to release, which is what
`GuardIsExclusive` and `HandsOverByRelease` justify.  `WriterLockProofs` has its theorems.
`BackendWriters` takes two instances of it, one per backend, with threads that are inside
one call at a time; `InOrderFirst` is the caller's order that the warning on `WriterLock`
asks for.  `BackendWritersProofs` shows that the order is enough.

`StorageKeys` (no state) has the key texts of `backend.rs` and their parsers, over bytes as
numbers, with the radix, the width and the identifier limits as constants.  `StoredKeyText`
grows texts segment by segment and reads each as every kind of key.  `KeyedStore` has the
lifecycle maps of an adapter keyed by those texts: the checks (`check_head`,
`first_staged`, `check_marker` and so on), the updates of each write in the code's order,
and the listings.  `adapter`, which never changes, says whose they are: for atmis `Write`
takes the mutex and `Update` makes one update at a time, and `Panic` may stop it anywhere and
poisons the mutex; thesauros commits all updates at once and finds its next sequence number
by parsing its last quarantine key.  It refines `LifecycleStore` by reading every map back by identity and
version: a write under way shows as the state it found, since nobody can read past the
mutex.

`SnapshotStore` has both adapters' named snapshots: a journal of inserts of which a crash
keeps a prefix, `Insert` and `Sync` as two steps of a thesauros save, and loads that decode
the envelope.  `adapter` says whose they are, here too: atmis is not `Durable`, an insert is
acknowledged at once and nothing outlives the process.  `SnapshotStoreProofs` has its
theorems.

Three modules put the small instances of the parts below the lifecycle side by side.  The
parts share no state, so a behaviour is of one part, named by `part`, and the others stay as
they began.  `MCStorage` extends `SnapshotStore`, whose properties its run checks by
the names the theorems have, and adds the maps of `KeyedStore`, of the same adapter, and
`StoredKeyText`; `MCRequests` has `OperationChecks`, `EncodedValue`, `DigestedOperation` and
`JsonNesting`; `MCRetrieval` extends `HnswGraph`, `Bm25Index` and `RankFusion`, whose names
differ for that (`TextInit`, `FusionInit` and so on).

`OperationChecks` has `CheckedOperation::check` and `permit` (`validate.rs`) as operators
that return the first refusal, over batches as lists in the caller's order, and then the
change applied by the engines' own checks, and queries.  A consumer value is known by
whether the encoder takes it, how deep its JSON nests and whether it reads back.
`sort_unstable_by` is defined by counting: the element at place k is the one with k - 1
elements before it, which says what sorting gives without saying how.
`OperationChecksProofs` has its theorems.
`JsonNesting` has the scan `json_depth` beside a writer of JSON that knows its own depth.

`CanonicalEncoding` has the encoder of `digest.rs` as a recursive operator from a tree of
serializer calls to bytes or a refusal (a serde_json number is judged by the item its field
makes, whatever calls made that item); `EncodedValue` grows such trees, including maps
whose calls come in any order, and states what each means; `DigestedOperation` encodes
whole operations.  SHA-256 is taken as injective, so a digest is the bytes it is taken of.

`HnswGraph` has the vector engine: `nodes`, `entry_point`, `max_level`, and the call under
way.  insert, remove and query borrow the index, so calls do not interleave; a step is one
turn of a loop (one move of `greedy_at_level`, one expansion of `search_layer`, one `link`
with its prunes), which makes termination a property.  Vectors are points on a line and the
level of a node is any level.  A float is the integer `total_cmp` orders it by, so that -0.0
and 0.0 are two (-1 and 0): `Distance` gives an inner product the sign its zero has in Rust,
and `Score` is a distance in a coarser format, as `f32` is to `f64`, with the sign kept.
`Representable` is the test of `is_finite`, which refuses both infinities.
`distance`, which never changes, says which of the three an index was made with.
`HnswGraphProofs` has its theorems.  `Bm25Index` has the text engine: tokens, term counts,
postings and the total length.  A score is the sum of a `Contribution` for each term of the
query, an integer in place of the `f32` expression; the first k of a ranking are those with
fewer than k before them.  `corpus` is not in the code: it remembers the texts themselves,
so that the index can be compared with what they make (`IndexOf`).
`RankFusion` has `rrf.rs`, one step per ranking, with `Round` to a number of significant
bits in place of `f64`: the exponent that leaves that many bits, and then the nearest
integer, of two the even one.  `One` is what 1 counts in the units of `k`, so `k` may be a
fraction.  `RankingProofs` has the theorems of the text engine and of the fusion, and
`Counting` the lemmas on ranks, totals and powers that the proofs about what answers a
search need.

## Runs

| run | instance | what it shows |
|---|---|---|
| `locked` | 2 writers, 1 recovery pass, all abide by the writer; create, insert, the same key with other content, destroy | receipts survive every reopen, staged state is whole, no call meets a conflict, a publish commits its own stage, and a stage reported as interrupted belongs to no running operation |
| `bypass` | 2 writers, 1 recovery pass, none takes the writer | the compare-and-set checks alone keep payloads and heads in step, heads advance, published state is immutable, staged state is never deleted |
| `history` | 1 writer, 7 operations of all 5 kinds on 2 members, 5 versions | audit chain, member lineage, change records; refinement of `IndexHistory` |
| `calls` | 1 writer, 1 reader, 1 recovery pass; create, insert, destroy | a lock-free read is a whole published version or "not found", never damage; every call returns, and without the writer |
| `writer_lock` | 4 threads | mutual exclusion, no self-deadlock, no lost wake-up, progress |
| `backend_writers` | 3 threads, 2 writers | no circular wait, held writers are given back |
| `retrieval`, vectors | 4 members by squared distance and 3 by each other distance, 2 layers, degree limits 2 and 1 | links at both ends in every state (`LinksReciprocal`), the snapshot decoder accepts every graph (`EveryGraphReopens`), queries within the beam are exact (`AnswersAreExact`), every turn of a loop brings its call nearer its end (`TurnsCount`) |
| `retrieval`, text | 3 documents over 8 texts | postings, lengths and totals agree and depend only on the documents held; queries are exact (`TextIndexIsItsDocuments`) |
| `retrieval`, fusion | up to 3 rankings of 3 identities, 8 significant bits | rounding never turns an order all rankings agree on; two rankings fuse alike in either order |
| `storage`, maps | each adapter with two indexes, `a/a` and `a/a.`, an operation key spelled like a version, 2 quarantines | refusals, listings and writes are those of `LifecycleStore`, panics included |
| `storage`, snapshots | 2 savers, 2 names, 3 saves, durable and in memory | an acknowledged save survives failures and, where it is durable, crashes; the header is judged before the payload |
| `storage`, texts | texts of up to 5 segments | a key names one thing, a prefix one index, quarantine keys sort by number |
| `requests`, checks | 5 identities, 7 values, 5 configurations, lists of up to 2 | no refusal depends on the order of a batch; what is accepted is applied whole and decodes again; every hit has its provenance |
| `requests`, encoding | 14 leaves and 11 serde_json numbers wrapped twice | an item reads back as its value alone; what has no item is refused |
| `requests`, digest | operations of up to 2 members on 2 indexes | equal bytes exactly for equal requests |
| `requests`, nesting | texts of up to 7 bytes | the scan counts what a parser would |
| `arrangement` | the fusion of `retrieval` | a violation: see below |
| `fencing` | a writer, a bypassing writer and a bypassing recovery pass, one operation | a violation: see below |
| `tied_scores` | the vector engine of `retrieval` with 2 members | a violation: see below |

Failed commits, lost acknowledgements, refused writes, drops and restarts are possible at
every step of the lifecycle runs, without a bound on their number: the model has no counter
for them.

Bounds.  `MaxVersion` and `MaxSequence` stand for `u64::MAX` and are reached: `history`
offers one operation more than there are versions, and a second quarantine finds no number
left, so the refusals at both limits are part of the runs.  Operations may be asked for any
number of times, which is what retries need; the keys bound how often an index changes.
One index is enough because no step reads or writes two.  Two writers are enough for the
races the checks are about, each between one thread's reads and another's write; the
proofs below cover any number.  Two members give a batch with one present and one absent
member, and a rebuild that keeps one and drops one.  One reader is enough because a read
changes nothing that another thread sees.  Four threads let two sleep while a
third releases and a fourth barges in.  Symmetry on writers is used in `locked` and
`bypass`, which check safety only and name no writer.

In `retrieval` four members are the least for which the backbone is a cycle that a removal
closes and a degree limit of two prunes; a construction beam of one makes every search as
narrow as the code allows.  The vectors are 0.0 and -3.0 and the queries 0.0, -4.0 and -7.0:
unequal distances share a score, both zeros come up in one query, and the last query has a
score past the largest one above zero (squared distance) and below it (inner product), so a
query that fails and one that does not are among the answers of both.  Eight bits make every kind of tie and rounding happen among three
ranks and the three values of `k`, which are one that is refused, one half, and one so large
that `k + rank` rounds.  `storage` uses base 2 and two digits, up to 2, for base 10 and twenty
digits: numbers in and out of range and of the right and the wrong width all occur, and
identifiers include each other's prefixes and ones of digits only.  Its maps bound versions and
quarantines by two, which is enough for a scan to meet another index's entry and for the second
entry to sort after the first.  Texts, values, JSON and saves are grown to a bound, and a state
without a successor is one at that bound: `storage` and `requests` do not check for deadlock,
the other runs do.

Fairness.  `calls` assumes that a thread inside a call keeps being scheduled (weak
fairness of its steps), which the operating system gives; nothing is assumed of callers
starting a call, of failures, or of who gets the writer, because `writer.rs` says that
waiters are not served in order.  So no property says that a particular waiter is served:
`CallsReturn` speaks of calls that passed the writer and of reads.  `writer_lock` assumes
the same of threads inside `acquire` and `drop`; a holder may keep its guard for ever.
`backend_writers` adds that a caller ends its operation at last (strong fairness of the
drops): a caller that asks again for a writer it holds, and is refused, disables its drop
while it asks.  The calls of the vector engine need no fairness to be shown to end:
`TurnsCount` says that each step within a call makes what is left of it less in a
well-founded order, and the check for deadlock that there is a next step until it returns.

### The fencing run

The comment on `PublishWrite` (`lifecycle/backend.rs`, lines 479 to 481) says that the
marker fences a publish to the exact stage its writer made, and that a version quarantined
and staged again by another writer has another marker.  A `StagingMarker` holds the index,
the version, the operation identity and the transition, so the same operation staged again
has the same marker.  In the run a writer stages, a recovery pass that does not take the
writer quarantines the stage, another such writer stages the same operation, and the first
writer's publish succeeds on it.  The published bytes are the same either way; the second
writer then meets `HeadChanged`, and a retry replays.  With everyone abiding by the writer
the property holds (`locked`).

### The arrangement run

`rrf.rs` (lines 18 and 19) says that the same set of rankings always fuses to the same order,
independent of ranking arrangement.  The terms are added in the order of the rankings, and
each addition rounds, so three terms may give two sums.  It happens in `f64`: with `k = 60`
the ranks 1, 2 and 8 give .04722835723395652 and the ranks 2, 8 and 1 give
.04722835723395651, so two identities with those ranks change places when the three
rankings are rotated.  With two rankings the claim holds, and an order that all rankings
agree on is never turned (`FusionKeepsOrder`).

### The tied scores run

The contract of `VectorIndex::query` (`hnsw.rs`, lines 114 and 115) says that equal scores are
ordered by ascending identity.  `query` sorts by `total_cmp`, for which -0.0 is less than 0.0
although the two are equal.  By inner product, a query of 0.0 over member 1 at -3.0 and
member 2 at 0.0 gives the scores 0.0 and -0.0, and member 2 comes first.  A zero is also what
`f32` has for an inner product of `f64` too small for it: a query of 1e-30 over members 1 at
-1e-30 and 2 at 1e-30 comes out the same way.  The order is still a total one and the same at
every repetition, and `AnswersAreExact`, which compares as `total_cmp` does, holds.  Squared
and cosine distances have no -0.0, and the sentence holds of them.

### What else the models show

- The grammar on `OperationDigest` (`identity.rs`, lines 481 to 483) says that a key emitted
  twice is refused.  `Map::key` overwrites the pending key, so of two keys in a row, without
  a value between them, the first is lost and the value goes to the second.  It takes a
  `Serialize` that breaks serde's protocol; the other breaches, a value before its key and a
  key without a value, are refused, and so is a repeated entry (`EncodingIsFaithful`).
- At a layer above the base, the search that `insert` makes for a new node may start from
  the node itself and leave it unlinked there; the base layer, with the backbone, still
  reaches it, which is what `AnswersAreExact` shows.
- In `search_layer` the early end for a full set of results is never taken, since results
  and expansions have one budget.
- A load may return a snapshot whose save has not been synced yet or whose sync fails
  later; it is lost by a crash only if no save acknowledged it.
- `list_heads` and `list_staged` order two indexes differently when one's name is the
  other's followed by `.` or `-`, which sort before the separator.

## Proofs

Each theorem holds for every value of the constants: any finite set of threads, bypassing
or not, any operations, indexes, members, keys and values, any limits.  What they assume of
the constants is named in the modules, and TLC evaluates it on every run:

- `LifecycleStore`, `LifecycleDriver`, `IndexSuccessor`, `LifecycleSafety`: limits are
  positive, the three kinds of thread are distinct, every operation passed `Checked`, and
  `None` is none of the values it stands beside (contents, member changes, outcomes);
- `WriterLock`, `BackendWriters`: finitely many threads, none of them `None`;
- `SnapshotStore`: `SnapshotAssumption` and `NoneIsNoEntry`;
- `OperationChecks`: identities are ordered, a family is one of the two, sizes and depths
  are natural numbers (`ChecksAssumption`);
- `HnswGraph`: finitely many members, ordered; vectors and queries are integers; the degree,
  the beam and the resolution are positive (`HnswAssumption`);
- `Bm25Index`: finitely many identities, ordered; every alphanumeric character has a lower
  case; the weight of a term is positive, as `ln(1 + x)` of a positive `x` is
  (`Bm25Assumption`);
- `RankFusion`: identities are ordered; a score has a bit at least, and a public score no
  more bits than a score; the units are so small, and the exponents so large, that no
  divisor is above `Unit` and no sum reaches `Limit` (`FusionAssumption`).  `f64` is such a
  format: the least term of a finite `f32` constant is far above its least number, and a sum
  of terms below one is far below its greatest.  Public scores of constants above `2^126` are
  subnormal in `f32` and have fewer bits than the model gives them; no property reads them.

Two theorems have a hypothesis of their own: `OwnStagePublished` that no thread bypasses the
writer, without which it is false (the fencing run), and `Decodes` and `PublishedDecodes`
that `MaxDepth + RecordWrapping <= JsonReadLimit`, which is what the comment on
`MAX_CONSUMER_JSON_DEPTH` claims of 64.

### The lifecycle

All of it is in `LifecycleProofs`, in this order.

Types and layout: `TypeCorrect`, `StoreLayout` (`PayloadsMatchHeads`), `HeadsAdvance`.
`PayloadsMatchHeads` is not inductive alone: a write is computed from reads made long
before.  `Inv` adds that every store a reopen may find is sound (`StoresOK`) and that each
thread is as far as its program counter says: a writer that is prepared or staged holds a
head and a payload from which its plan is a permitted successor (`Permitted`), whatever
became of the store since.  Lemmas on `IndexSuccessor` show that such a plan is well typed
and numbers the next version; lemmas on `LifecycleStore` show that an effect whose refusal
is `None` keeps a sound store sound, which needs no knowledge of the thread but its plan,
and so holds for bypassing ones.  `HeadsAdvance` needs one more fact (`DiskAhead`): the head
a reopen may find is the one reads see or one step ahead of it.

Stored state: `NothingStoredIsLost` (`StoredStateIsKept`), `StagedStateWhole`,
`ReceiptsDurable`.  Every step is reduced to a relation between two stores: `Batch(d, n)`
says that `n` is `d` after one batch of stage, publish, destroy or quarantine that passed
its checks, and `Moves` that a step changes what reads see by at most one batch and leaves
on disk that store or the next.  What is to be shown is then a fact about batches, shown
once.  The link to the threads is `SightOK`: while the head a writer read is still the head,
the payload it read is still the payload, so a write that passes the compare-and-set was
built from the very state it is applied to (`PlanIsSuccessor`).  `StagedBuilt` carries this
over the time between stage and publish: a marker in the store is that of some operation
whose successor of the present head is the payload beside it.

History: `AuditChain`, `Provenance`, `Implementation` (`ImplementsHistory`).
`HistoryBatch` says that a batch leaves the history of an index alone, adds the version an
operation builds, or ends it; this holds of a publish of another writer's stage too, by
`StagedBuilt`.  The invariant `HistoryOK` is the chain of operation records (`ChainOK`), the
form of the payloads (`PayloadsOK`), the lineage of member entries (`LineageOK`) and the
explanation of each change by its record (`AuditOK`); each needs the one before it for the
new version.  The refinement of `IndexHistory` follows from the same lemma: the view of an
index takes one abstract step for a `HistoryBatch`, and stutters otherwise; a reopen that
finds one batch more is that batch, seen late.

Readers: `NoDamage` (`NeverCorrupt`), `ReadersSound`
(`ReadersSeePublishedVersions`).  A read holds a head from some steps ago.  `SeenOK` says
what is left of it: while the index lives, the version it names keeps its payload under the
configuration it named, and once a payload is gone the index is destroyed and stays so until
the second head read.

Writers: `NoLockedConflict` (`LockedOperationsNeverConflict`),
`OwnStagePublished` (`PublishesOwnStage`), `InterruptedOnly` (`RefusedStageIsInterrupted`).
With `Bypass = {}` the invariant `LockInv` says that what a thread inside its operation has
read is what the store holds: the head, the payload, the absence of a record and of staged
state, and its own marker once it staged.  A step of another thread keeps it because only
the owner of the writer writes, a failed commit because it ends the operation.

### The writer

`WriterLockProofs`: `WriterTyped` (the count of waiters is the number of threads inside
`wait_while`, so lowering it never goes below zero; a drop notifies without reading it),
`MutualExclusion`, `NoWakeupIsLost`, `NobodyWaitsForItself`, `HandsOver`.  The invariant says
which threads may be where: the owner is the one guard holder and is not inside the lock,
and a free writer with sleepers has a thread awake or about to notify.
`HandsOverByRelease` is an action property that only the proof shows; the others are also
checked in `writer_lock`.

`BackendWritersProofs`: `NoDeadlockAcrossBackends` (`NoCircularWait`).  The order of the two
writers is checked when a call starts, and the wait comes later; `OrderOK` carries the check
over, because a thread is inside one call at a time and so still holds what it held.

### Snapshots

`SnapshotStoreProofs`: `Durability` (`AcknowledgedSavesServed`) and `SnapshotsSound`
(`SnapshotsAreSound`), which is `SnapshotTyped` and `PolicyFirst` together, for both adapters.  Serving is about the last insert
under a name, and a crash cuts off a suffix of the journal; `KeptOK` says that an
acknowledged insert lies in the part that lasts, and that one whose sync is still to come is
in the journal, so that any sync takes it.  `JournalOK` has the inserts in order, so a later
one under the name is a later save.

### Validation

`OperationChecksProofs`: `HitsProvenance`, `AppliedWhole` (`ValidatedIsApplied`),
`OrderIgnored` (`RefusalsIgnoreOrder`), and `RequestsTyped`, `Fits`, `Decodes`, which are
together `PublishedDecodes` (`PublishedReadsBack`).  `ChecksInv` says that engine and member
table name the same members, that each of them fits the configuration and can be stored, and
that the operation in progress passed `check`; what `permit` accepts is then what the
engine accepts member by member (`BatchChecksTyped`).

That the order of a batch does not matter is not an induction: the element at place k is
the one with k - 1 before it, and a rearrangement keeps, for each identity, how many are
below it (`BelowAlike`), so the sorted identities are the same list (`SortedAlike`).  Where
no identity repeats, the sorted members are the same too.  Where one does, the two sorted
batches may differ, but `check_member_identities` refuses both with the same member before
any check that looks further (`IdentitiesDecide`).

### The vector engine

`HnswGraphProofs`: `Invariance` (`IInv`), and from it `LinksAlwaysReciprocal`
(`LinksReciprocal`), `GraphsReopen` (`EveryGraphReopens`), `EveryAnswerIsExact`
(`AnswersAreExact`) and `EveryTurnCounts` (`TurnsCount`), for every degree, beam, number of
levels and distance.  `IInv` says of the graph, at every step of every call, that links are
stored at both ends and within their limits, that the backbone is one ring, and that the
entry point is the canonical one of the members that are settled; and of the call under way
what its locals hold: which member is being removed or linked, what a search has visited,
which candidates it kept.

What the source says with paths, the invariant says with sets.  The ring is connected: a set
of members that holds the backbone links of its members is empty or holds everyone.  That
one ring stays one ring when a member leaves it or a new one is spliced in is then a fact
about such sets, without an induction along the ring.  A search that stops has visited a set
closed under links or as many members as its beam, so a query whose beam covers the members
has seen them all: its best k are the best of all, and it fails when any score is infinite.
The decoder's walk
(`BackboneReach`) adds a member in every round until a round is closed, and there are as many
rounds as members (`RoundsReach`).

What a call has left (`Remaining`) is compared by its first difference: the stage of the
call, the layer, the loop at that layer, and the turns of that loop, which are links to make,
a budget of visits or a budget of moves.  Each step within a call makes it less
(`StepCounts`).

### The text engine

`RankingProofs`, first part: `TextInvariance` (`TextInv`) and `TextIndexKept`
(`TextIndexIsItsDocuments`: types, `EveryIndexReopens`, `HistoryIndependent`,
`MatchesAreExact`).  The three views are updated apart, so the invariant says what they are
together: `Current = IndexOf(corpus)`, the index the live texts make.  `RemovedIndex` and
`InsertedIndex` say that a removal and an insertion turn the index of some texts into the
index of one text fewer or more: a posting is left without a term exactly when its last
holder goes, and the total changes by the length of the one document, so the saturating
subtraction never saturates.  A replacement is one after the other (`ReplacedIndex`).  What
the decoder requires is then a property of `IndexOf`: the counts of a document add up to its
length because its tokens fall into parts, one for each term (`TotalOfParts`).  The divisor
of a contribution is positive, since a document with a token has a length and the total is
no less; so scores are natural numbers, `Outranks` orders the documents, and the ranking is
exact by `RankedFacts`.

### The fusion of rankings

`RankingProofs`, second part: `FusionInvariance` (`FusionInv`) and `FusionOrderKept`
(`FusionKeepsOrder`: types with the bounds of a score, `DominanceRespected`,
`PairsFuseAlike`).  Three facts about rounding carry it, none of which depends on the
precision.  `Round` is monotone (`RoundOrder`): with one exponent because the nearest integer
is (`NearestOrder`), and over a step of the exponent because what is rounded below the step
is at most `2^p` and above it at least `2^(p - 1)` of twice the unit.  It rounds no further
what it has rounded (`RoundAgain`), also where rounding up gave it a bit more.  And it never
makes zero of a whole (`RoundWhole`).  So a sum is never below what it adds to (`AddGrows`), a
later rank never gains more (`ReciprocalOrder`), and `AccumulateKeepsOrder` follows: of two
identities where every ranking prefers the first, each ranking adds no less to the first.
Dominance alone is not inductive because `DominanceRespected` speaks of the end; the
invariant says it of the scores after every ranking, and that scores are numbers the format
has (`Rounded`), without which adding could lower them.  The recursive sums (`Greatest`) are
functions, whose existence is an induction of its own (`SumsExist`).  Two rankings commute
because a first term is added to zero exactly and `+` commutes before it rounds
(`PairCommutes`); a third term finds a rounded sum, and there the `arrangement` run shows the
counterexample.

### Counting

`Counting` has what these proofs keep needing.  Ranks: in a finite set under a strict total
order the numbers of elements before each are 0, 1, ... and none is taken twice, so the
sequence of the first n by rank lists each once, in order, and nobody left out comes before
one of them (`RankedFacts`).  Totals: the sum of naturals along a listing is the number of
pairs of an element and a number up to its value (`AddsUpToTotal`), and what is a number of
pairs does not depend on the listing, can be bounded, and grows by one element's value.
Powers of two: `2^n` is the number of subsets of `n` things, which is how `PowerDoubles` and
`PowerOfSum` are proved.
Induction over the naturals is used only as the absence of a least exception (`LeastNatural`,
`NoException`), which needs no operator as a parameter.

### Only model-checked

- Liveness (`CallsReturn`, `FreeWriterIsTaken`, `HeldWritersAreGivenBack`): beyond the
  prover, as is `ENABLED`.  That a call of the vector engine ends is proved as far as
  `TurnsCount` says it.
- What recursive definitions compute: the encoder, the digest and the nesting scan
  (`EncodingIsFaithful`, `DigestIdentifiesOperation`, `DepthIsNesting`) are inductions over
  trees and texts, and two of their modules declare recursive operators.
- The key texts (`KeysSpellOneThing`) and the adapters' maps over them
  (`MapsAnswerAsPromised`, `MapsImplementContract`): the numbers in a key are written digit
  by digit.
- That `f64` rounds as `Round` does: IEEE arithmetic is outside the repository.

## Not modelled

- JSON as text and the format versions of lifecycle records, beyond nesting depth and the
  envelope's header; the refusal of a key repeated in a stored map.
- SHA-256: two byte strings have the same digest only if they are equal.
- Floating point as such: distances are the integers `total_cmp` would compare, the BM25
  expression is a table of exact numbers, fusion rounds to eight bits in the runs and to any number of bits in the proofs.
  NaN and infinities are "not finite".  So the rounding inside a distance or a BM25 score is
  outside the models, and with it the hazard of two documents whose scores differ in exact
  arithmetic and not in `f32`.
- The xorshift generator behind `next_level`: a node may have any level.
- Recall of a query over more members than its beam: the code promises none.
- fjall: a failed commit is whole in the journal or absent, and a crash keeps a prefix of the
  journal that holds what was synced, as the adapter's comments rely on.
- Two processes on one database, which the adapter forbids.
- A leaked guard (`mem::forget`), which `writer.rs` says keeps the writer for good.
- A panic between a write's checks and its commit ends the call in `LifecycleDriver` as a
  failed write; in the code it unwinds through the caller.
- The recovery pass, which is not in the repository: it is modelled from its contract.
- The table from error variants to categories, wording, the public re-exports, CI and
  scripts: they keep no state.

## Plan

What is left, in order of worth:

1. The lemmas behind `MapsImplementContract` (distinct identities have distinct keys, a
   prefix names one index) and then the step simulation of `LifecycleStore`.
2. The recovery pass, when the repository has one.
