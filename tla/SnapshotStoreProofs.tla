------------------------- MODULE SnapshotStoreProofs -------------------------
(***************************************************************************)
(* The durability of named snapshots, for any savers, names and payloads   *)
(* and in either adapter: what a save acknowledged is served by every      *)
(* later load of its name and family.                                      *)
(*                                                                         *)
(* Serving is a fact about the last insert under a name, and what a crash  *)
(* cuts off is a suffix; the argument needs that an acknowledged insert    *)
(* lies in the part that is on disk, and that one whose sync is still to   *)
(* come is in the journal, so that the sync, which takes the whole         *)
(* journal, takes it too.                                                  *)
(***************************************************************************)
EXTENDS SnapshotStore, WellFoundedInduction, SequenceTheorems, TLAPS

\* Inserts are in order, and one by this adapter carries the header of its keyspace.
JournalOK ==
    /\ journal \in Seq(Entries)
    /\ \A p, q \in 1..Len(journal) : p < q => journal[p].seq < journal[q].seq
    /\ \A p \in 1..Len(journal) :
        /\ journal[p].seq <= saves
        /\ journal[p].seq > 0 => journal[p].bytes.family = journal[p].keyspace

SavesOK ==
    /\ adapter \in {"atmis", "thesauros"}
    /\ synced \in 0..Len(journal)
    /\ ~ Durable => synced = 0
    /\ poisoned \in BOOLEAN
    /\ saver \in [Savers -> Entries \cup {None}]
    /\ saves \in 0..MaxSaves
    /\ acked \subseteq Entries

\* How much of the journal outlives what may happen next: a crash or nothing.
Lasting == IF Durable THEN synced ELSE Len(journal)

InsertedBefore(entry, n) == \E p \in 1..n : journal[p] = entry

\* What a thread is about to sync is in the journal, what is acknowledged is there to stay.
KeptOK ==
    /\ \A t \in Savers : saver[t] # None =>
        Durable /\ saver[t].seq > 0 /\ InsertedBefore(saver[t], Len(journal))
    /\ \A entry \in acked : entry.seq > 0 /\ InsertedBefore(entry, Lasting)

SnapshotInv == JournalOK /\ SavesOK /\ KeptOK

(***************************************************************************)
(* The inserts of the journal.                                             *)
(***************************************************************************)
Earlier == {pair \in Nat \X Nat : pair[1] < pair[2]}

\* Of several naturals one is the least.
LEMMA Least ==
    ASSUME NEW S \in SUBSET Nat, S # {}
    PROVE  \E x \in S : \A y \in S : x <= y
PROOF
  <1>1. IsWellFoundedOn(Earlier, Nat)
    BY NatLessThanWellFounded, Zenon DEF OpToRel, Earlier
  <1>2. PICK x \in S : \A y \in S : ~ (<<y, x>> \in Earlier)
    BY <1>1, WFMin
  <1>3. ASSUME NEW y \in S PROVE x <= y
    <2>1. ~ (<<y, x>> \in Earlier) /\ x \in Nat /\ y \in Nat
      BY <1>2
    <2>2. <<y, x>> \in Nat \X Nat /\ <<y, x>>[1] = y /\ <<y, x>>[2] = x
      BY <2>1
    <2>3. ~ (y < x)
      BY <2>1, <2>2 DEF Earlier
    <2>4. QED
      BY <2>1, <2>3
  <1>4. QED
    BY <1>3

\* A nonempty set of positions has a last one (a keyspace keeps the last insert under
\* a key).
LEMMA LastPosition ==
    ASSUME NEW n \in Nat, NEW at \in SUBSET (1..n), at # {}
    PROVE  \E p \in at : \A q \in at : q <= p
PROOF
  <1> DEFINE back == {n - p : p \in at}
  <1>1. \A p \in at : p \in Int /\ n - p \in Nat
    OBVIOUS
  <1>2. back \in SUBSET Nat
    BY <1>1
  <1>3. back # {}
    OBVIOUS
  <1>4. PICK x \in back : \A y \in back : x <= y
    <2> HIDE DEF back
    <2>1. QED
      BY <1>2, <1>3, Least
  <1>5. PICK p \in at : x = n - p
    BY <1>4
  <1>6. ASSUME NEW q \in at PROVE q <= p
    <2>1. x <= n - q
      BY <1>4
    <2>2. QED
      BY <1>1, <1>5, <2>1
  <1>7. QED
    BY <1>5, <1>6

\* Every envelope a save writes is one of Bytes, under the family of its keyspace.
LEMMA EnvelopeIsBytes ==
    ASSUME NEW family \in SnapshotFamily, NEW payload \in Payloads
    PROVE  /\ Envelope(family, payload) \in Bytes
           /\ Envelope(family, payload).family = family
PROOF
  BY DEF Envelope, Bytes

\* The entry of a save (SnapshotEnvelope, save_snapshot).
LEMMA EntryTyped ==
    ASSUME NEW family \in SnapshotFamily, NEW name \in Names,
           NEW index \in Payloads, saves \in 0..MaxSaves, saves < MaxSaves
    PROVE  LET entry == Entry(saves + 1, family, name, Envelope(family, index))
           IN  /\ entry \in Entries
               /\ entry.seq = saves + 1 /\ entry.seq > 0
               /\ entry.bytes.family = entry.keyspace
PROOF
  BY EnvelopeIsBytes, SnapshotAssumption DEF Entry, Entries

\* One insert keeps the journal in order, and what was in it.
LEMMA InsertKeepsJournal ==
    ASSUME JournalOK, SavesOK,
           NEW entry \in Entries, entry.seq = saves + 1,
           entry.bytes.family = entry.keyspace, saves < MaxSaves,
           journal' = Append(journal, entry), saves' = saves + 1
    PROVE  /\ JournalOK'
           /\ Len(journal') = Len(journal) + 1
           /\ journal'[Len(journal) + 1] = entry
           /\ \A p \in 1..Len(journal) : journal'[p] = journal[p]
PROOF
  <1>1. /\ journal' \in Seq(Entries)
        /\ Len(journal') = Len(journal) + 1
        /\ journal'[Len(journal) + 1] = entry
        /\ \A p \in 1..Len(journal) : journal'[p] = journal[p]
    BY DEF JournalOK
  <1>2. saves \in Nat /\ saves' = saves + 1 /\ Len(journal) \in Nat
    BY SnapshotAssumption DEF SavesOK, JournalOK
  <1>3. \A p \in 1..Len(journal) : journal[p] \in Entries
    BY DEF JournalOK
  <1>4. \A e \in Entries : e.seq \in Nat
    BY DEF Entries
  <1>5. \A p \in 1..Len(journal') : p \in 1..Len(journal) \/ p = Len(journal) + 1
    BY <1>1, <1>2
  <1>6. ASSUME NEW p \in 1..Len(journal')
        PROVE  /\ journal'[p].seq <= saves'
               /\ journal'[p].seq > 0 => journal'[p].bytes.family = journal'[p].keyspace
    <2>1. CASE p \in 1..Len(journal)
      BY <1>1, <1>2, <1>3, <1>4, <2>1 DEF JournalOK
    <2>2. CASE p = Len(journal) + 1
      BY <1>1, <1>2, <2>2
    <2>3. QED
      BY <1>5, <2>1, <2>2
  <1>7. ASSUME NEW p \in 1..Len(journal'), NEW q \in 1..Len(journal'), p < q
        PROVE  journal'[p].seq < journal'[q].seq
    <2>1. p \in 1..Len(journal)
      BY <1>1, <1>2, <1>7
    <2>2. CASE q \in 1..Len(journal)
      BY <1>1, <1>7, <2>1, <2>2 DEF JournalOK
    <2>3. CASE q = Len(journal) + 1
      BY <1>1, <1>2, <1>3, <1>4, <2>1, <2>3 DEF JournalOK
    <2>4. QED
      BY <1>5, <2>2, <2>3
  <1>8. QED
    BY <1>1, <1>6, <1>7 DEF JournalOK


\* What was in the journal before an insert still is.
LEMMA InsertedStays ==
    ASSUME JournalOK, NEW entry, NEW n \in 0..Len(journal), InsertedBefore(entry, n),
           Len(journal') >= n, \A p \in 1..n : journal'[p] = journal[p],
           NEW m \in Nat, n <= m
    PROVE  \E p \in 1..m : journal'[p] = entry
PROOF
  <1>1. PICK p \in 1..n : journal[p] = entry
    BY DEF InsertedBefore
  <1>2. p \in 1..m /\ journal'[p] = entry
    BY <1>1
  <1>3. QED
    BY <1>2

(***************************************************************************)
(* The steps.                                                              *)
(***************************************************************************)
\* A keyspace that is new, or holds one snapshot of another build.
LEMMA InitSnapshot ==
    ASSUME Init
    PROVE  SnapshotInv
PROOF
  <1>0. /\ synced = Len(journal) /\ poisoned = FALSE /\ saver = [t \in Savers |-> None]
        /\ saves = 0 /\ acked = {} /\ (Durable \/ journal = <<>>)
        /\ adapter \in {"atmis", "thesauros"}
    BY DEF Init
  <1>1. saves \in 0..MaxSaves
    BY <1>0, SnapshotAssumption
  <1>2. saver \in [Savers -> Entries \cup {None}] /\ acked \subseteq Entries
    BY <1>0
  <1>3. poisoned \in BOOLEAN
    BY <1>0, Zenon
  <1>4. CASE journal = <<>>
    <2>1. journal \in Seq(Entries) /\ Len(journal) = 0
      BY <1>4
    <2>2. SavesOK
      <3>1. synced \in 0..Len(journal) /\ (~ Durable => synced = 0)
        BY <1>0, <2>1
      <3>2. QED
        BY <1>0, <1>1, <1>2, <1>3, <3>1, Zenon DEF SavesOK
    <2>3. JournalOK
      BY <2>1 DEF JournalOK
    <2>4. KeptOK
      BY <1>0 DEF KeptOK
    <2>5. QED
      BY <2>2, <2>3, <2>4 DEF SnapshotInv
  <1>5. CASE journal # <<>>
    <2>1. PICK family \in SnapshotFamily, name \in Names, bytes \in Foreign :
            journal = <<Entry(0, family, name, bytes)>>
      BY <1>5 DEF Init
    <2>2. Entry(0, family, name, bytes) \in Entries /\ Entry(0, family, name, bytes).seq = 0
      <3>1. bytes \in Bytes
        BY Zenon DEF Bytes
      <3>2. QED
        BY <1>0, <1>1, <3>1 DEF Entry, Entries
    <2>3. journal \in Seq(Entries) /\ Len(journal) = 1 /\ journal[1].seq = 0
      BY <2>1, <2>2
    <2>4. SavesOK
      <3>1. synced \in 0..Len(journal) /\ (~ Durable => synced = 0)
        BY <1>0, <1>5, <2>3
      <3>2. QED
        BY <1>0, <1>1, <1>2, <1>3, <3>1, Zenon DEF SavesOK
    <2>5. JournalOK
      BY <1>0, <2>3 DEF JournalOK
    <2>6. KeptOK
      BY <1>0 DEF KeptOK
    <2>7. QED
      BY <2>4, <2>5, <2>6 DEF SnapshotInv
  <1>6. QED
    BY <1>4, <1>5

\* An insert, acknowledged at once by atmis and by thesauros once it is synced.
LEMMA InsertKeeps ==
    ASSUME SnapshotInv,
           NEW t \in Savers, NEW family \in SnapshotFamily, NEW name \in Names,
           NEW index \in Payloads,
           Insert(t, family, name, index) \/ InsertPanics(t, family, name, index)
    PROVE  SnapshotInv'
PROOF
  <1> DEFINE entry == Entry(saves + 1, family, name, Envelope(family, index))
  <1> USE DEF SnapshotInv
  <1>1. saves \in 0..MaxSaves /\ saves < MaxSaves /\ saves \in Nat /\ Len(journal) \in Nat
    BY SnapshotAssumption DEF SavesOK, JournalOK, Insert, InsertPanics
  <1>2. /\ entry \in Entries
        /\ entry.seq = saves + 1 /\ entry.seq > 0
        /\ entry.bytes.family = entry.keyspace
    BY <1>1, EntryTyped
  <1>3. /\ journal' = Append(journal, entry) /\ saves' = saves + 1
        /\ adapter' = adapter /\ Durable' = Durable
    BY DEF Insert, InsertPanics, Durable
  <1> HIDE DEF entry
  <1>4. /\ JournalOK'
        /\ Len(journal') = Len(journal) + 1
        /\ journal'[Len(journal) + 1] = entry
        /\ \A p \in 1..Len(journal) : journal'[p] = journal[p]
    BY <1>1, <1>2, <1>3, InsertKeepsJournal
  <1>5. SavesOK'
    <2>1. synced' = synced /\ poisoned' = poisoned
      BY DEF Insert, InsertPanics
    <2>2. saver' \in [Savers -> Entries \cup {None}] /\ acked' \in SUBSET Entries
      BY <1>2 DEF Insert, InsertPanics, SavesOK, entry
    <2>3. synced' \in 0..Len(journal') /\ (~ Durable => synced' = 0)
      BY <1>1, <1>3, <1>4, <2>1 DEF SavesOK
    <2>4. saves' \in 0..MaxSaves
      BY <1>1, <1>3, SnapshotAssumption
    <2>5. QED
      BY <1>3, <2>1, <2>2, <2>3, <2>4 DEF SavesOK
  <1>6. Lasting \in 0..Len(journal) /\ Lasting' \in Nat /\ Lasting <= Lasting'
    BY <1>1, <1>3, <1>4 DEF Lasting, SavesOK, Insert, InsertPanics
  <1>7. ASSUME NEW e, NEW n \in 0..Len(journal), InsertedBefore(e, n), NEW m \in Nat, n <= m
        PROVE  \E p \in 1..m : journal'[p] = e
    <2>1. Len(journal') >= n /\ \A p \in 1..n : journal'[p] = journal[p]
      BY <1>1, <1>4
    <2>2. QED
      BY <1>7, <2>1, InsertedStays
  <1>8. \E p \in 1..Len(journal') : journal'[p] = entry
    BY <1>1, <1>4
  <1>9. ASSUME NEW u \in Savers, saver'[u] # None
        PROVE  /\ Durable /\ saver'[u].seq > 0
               /\ \E p \in 1..Len(journal') : journal'[p] = saver'[u]
    <2>1. CASE saver'[u] = saver[u]
      <3>1. Durable /\ saver[u].seq > 0 /\ InsertedBefore(saver[u], Len(journal))
        BY <1>9, <2>1 DEF KeptOK
      <3>2. \E p \in 1..Len(journal') : journal'[p] = saver[u]
        BY <1>1, <1>4, <1>7, <3>1
      <3>3. QED
        BY <2>1, <3>1, <3>2
    <2>2. CASE saver'[u] # saver[u]
      <3>1. Durable /\ saver'[u] = entry
        BY <2>2 DEF Insert, InsertPanics, SavesOK, entry
      <3>2. QED
        BY <1>2, <1>8, <3>1
    <2>3. QED
      BY <2>1, <2>2
  <1>10. ASSUME NEW e \in acked'
         PROVE  e.seq > 0 /\ \E p \in 1..Lasting' : journal'[p] = e
    <2>1. CASE e \in acked
      BY <1>6, <1>7, <2>1 DEF KeptOK
    <2>2. CASE e \notin acked
      <3>1. ~ Durable /\ e = entry
        BY <2>2, <1>10 DEF Insert, InsertPanics, entry
      <3>2. QED
        BY <1>2, <1>3, <1>8, <3>1 DEF Lasting
    <2>3. QED
      BY <2>1, <2>2
  <1>11. QED
    BY <1>3, <1>4, <1>5, <1>9, <1>10 DEF KeptOK, InsertedBefore

\* What a step does not touch keeps the invariant of the journal.
LEMMA JournalUntouched ==
    ASSUME JournalOK, journal' = journal, saves' = saves
    PROVE  JournalOK'
PROOF
  BY DEF JournalOK

\* A save that stores nothing, and a load.
LEMMA ReadKeeps ==
    ASSUME SnapshotInv,
           UNCHANGED <<adapter, journal, synced, saver, saves, acked>>, poisoned' \in BOOLEAN
    PROVE  SnapshotInv'
PROOF
  BY JournalUntouched DEF SnapshotInv, SavesOK, KeptOK, InsertedBefore, Lasting, Durable

\* A sync takes all that was inserted before it, whoever inserted it.
LEMMA SyncKeeps ==
    ASSUME SnapshotInv, NEW t \in Savers, Sync(t)
    PROVE  SnapshotInv'
PROOF
  <1> USE DEF SnapshotInv
  <1>1. /\ Durable /\ saver[t].seq > 0 /\ InsertedBefore(saver[t], Len(journal))
        /\ saver[t] \in Entries
    BY DEF Sync, KeptOK, SavesOK
  <1>2. /\ journal' = journal /\ saves' = saves /\ saver' = [saver EXCEPT ![t] = None]
        /\ adapter' = adapter /\ Durable' = Durable
    BY DEF Sync, Durable
  <1>3. JournalOK'
    BY <1>2, JournalUntouched
  <1>4. \/ /\ synced' = Len(journal) /\ acked' = acked \cup {saver[t]}
           /\ poisoned' = poisoned
        \/ /\ synced' = synced /\ acked' = acked
           /\ poisoned' = TRUE
    BY Zenon DEF Sync, Synced
  <1>5. synced' \in 0..Len(journal) /\ synced <= synced' /\ Len(journal) \in Nat
    <2>1. synced \in 0..Len(journal) /\ Len(journal) \in Nat
      BY DEF SavesOK, JournalOK
    <2>2. synced' = Len(journal) \/ synced' = synced
      BY <1>4
    <2>3. QED
      BY <2>1, <2>2
  <1>6. SavesOK'
    <2>1. poisoned' \in BOOLEAN
      BY <1>4, Zenon DEF SavesOK
    <2>2. saver' \in [Savers -> Entries \cup {None}] /\ acked' \in SUBSET Entries
      BY <1>1, <1>2, <1>4 DEF SavesOK
    <2>3. QED
      BY <1>1, <1>2, <1>5, <2>1, <2>2 DEF SavesOK
  <1>7. ASSUME NEW u \in Savers, saver'[u] # None
        PROVE  /\ Durable /\ saver'[u].seq > 0
               /\ \E p \in 1..Len(journal') : journal'[p] = saver'[u]
    <2>1. saver'[u] = saver[u]
      BY <1>2, <1>7 DEF SavesOK
    <2>2. QED
      BY <1>2, <1>7, <2>1 DEF KeptOK, InsertedBefore
  <1>8. ASSUME NEW e \in acked'
        PROVE  e.seq > 0 /\ \E p \in 1..Lasting' : journal'[p] = e
    <2>1. Lasting = synced /\ Lasting' = synced'
      BY <1>1, <1>2 DEF Lasting
    <2>2. CASE e \in acked
      <3>1. e.seq > 0 /\ \E p \in 1..synced : journal[p] = e
        BY <2>1, <2>2 DEF KeptOK, InsertedBefore
      <3>2. 1..synced \subseteq 1..synced'
        BY <1>5 DEF SavesOK
      <3>3. QED
        BY <1>2, <2>1, <3>1, <3>2
    <2>3. CASE e \notin acked
      <3>1. e = saver[t] /\ synced' = Len(journal)
        BY <1>4, <1>8, <2>3
      <3>2. QED
        BY <1>1, <1>2, <2>1, <3>1 DEF InsertedBefore
    <2>4. QED
      BY <2>2, <2>3
  <1>9. QED
    BY <1>2, <1>3, <1>6, <1>7, <1>8 DEF KeptOK, InsertedBefore

\* A crash cuts the journal behind what was synced; in memory everything ends.
LEMMA CrashKeeps ==
    ASSUME SnapshotInv, Crash
    PROVE  SnapshotInv'
PROOF
  <1> USE DEF SnapshotInv
  <1>1. /\ poisoned' = FALSE /\ saver' = [t \in Savers |-> None]
        /\ synced' = synced /\ saves' = saves
        /\ adapter' = adapter /\ Durable' = Durable
    BY DEF Crash, Durable
  <1>2. poisoned' \in BOOLEAN
    BY <1>1, Zenon
  <1>3. \A t \in Savers : saver'[t] = None
    BY <1>1
  <1>4. saver' \in [Savers -> Entries \cup {None}]
    BY <1>1
  <1>5. CASE Durable
    <2>1. PICK n \in synced..Len(journal) : journal' = SubSeq(journal, 1, n)
      BY <1>5 DEF Crash
    <2>2. acked' = acked
      BY <1>5 DEF Crash
    <2>3. Len(journal) \in Nat /\ synced \in 0..Len(journal) /\ n \in 0..Len(journal)
      BY <2>1 DEF JournalOK, SavesOK
    <2>4. /\ journal' \in Seq(Entries) /\ Len(journal') = n
          /\ \A p \in 1..n : journal'[p] = journal[p]
      BY <2>1, <2>3 DEF JournalOK
    <2>5. 1..n \subseteq 1..Len(journal) /\ 1..synced \subseteq 1..n
      BY <2>1, <2>3
    <2>6. JournalOK'
      BY <1>1, <2>4, <2>5 DEF JournalOK
    <2>7. synced' \in 0..Len(journal')
      BY <1>1, <2>1, <2>3, <2>4
    <2>8. SavesOK'
      BY <1>1, <1>2, <1>4, <1>5, <2>2, <2>7 DEF SavesOK
    <2>9. ASSUME NEW e \in acked'
          PROVE  e.seq > 0 /\ \E p \in 1..synced : journal'[p] = e
      <3>1. e.seq > 0 /\ \E p \in 1..synced : journal[p] = e
        BY <1>5, <2>2, <2>9 DEF KeptOK, InsertedBefore, Lasting
      <3>2. QED
        BY <2>4, <2>5, <3>1
    <2>10. KeptOK'
      BY <1>1, <1>3, <1>5, <2>9 DEF KeptOK, InsertedBefore, Lasting
    <2>11. QED
      BY <2>6, <2>8, <2>10
  <1>6. CASE ~ Durable
    <2>1. journal' = <<>> /\ acked' = {} /\ synced = 0
      BY <1>6 DEF Crash, SavesOK
    <2>2. journal' \in Seq(Entries) /\ Len(journal') = 0
      BY <2>1
    <2>3. JournalOK'
      BY <2>2 DEF JournalOK
    <2>4. SavesOK'
      BY <1>1, <1>2, <1>4, <2>1, <2>2 DEF SavesOK
    <2>5. KeptOK'
      BY <1>3, <2>1 DEF KeptOK
    <2>6. QED
      BY <2>3, <2>4, <2>5
  <1>7. QED
    BY <1>5, <1>6

\* Every step of a save, a load or a reopen keeps the invariant.
LEMMA NextSnapshot ==
    ASSUME SnapshotInv, [Next]_vars
    PROVE  SnapshotInv'
PROOF
  <1>1. ASSUME NEW t \in Savers, NEW index \in Payloads \cup {Unencodable}, SaveFails(t, index)
        PROVE  SnapshotInv'
    <2>1. poisoned' \in BOOLEAN
      <3>1. poisoned' = poisoned \/ poisoned' = TRUE
        BY <1>1 DEF SaveFails
      <3>2. QED
        BY <3>1, Zenon DEF SnapshotInv, SavesOK
    <2>2. QED
      BY <1>1, <2>1, ReadKeeps DEF SaveFails
  <1>2. ASSUME NEW family \in SnapshotFamily, NEW name \in Names, Load(family, name)
        PROVE  SnapshotInv'
    BY <1>2, ReadKeeps DEF Load, SnapshotInv, SavesOK
  <1>3. CASE UNCHANGED vars
    BY <1>3, ReadKeeps DEF vars, SnapshotInv, SavesOK
  <1>4. QED
    BY <1>1, <1>2, <1>3, InsertKeeps, SyncKeeps, CrashKeeps DEF Next


(***************************************************************************)
(* The results.                                                            *)
(***************************************************************************)
\* The invariant of save, load and reopen, in either adapter.
THEOREM SnapshotInvariance == Spec => []SnapshotInv
PROOF
  <1>1. Init => SnapshotInv
    BY InitSnapshot
  <1>2. SnapshotInv /\ [Next]_vars => SnapshotInv'
    BY NextSnapshot
  <1>3. QED
    BY <1>1, <1>2, PTL DEF Spec

\* Every stored entry is of the form its readers decode, inserts are in order and what
\* is synced is part of them.
THEOREM SnapshotTyped == Spec => []TypeOK
PROOF
  <1>1. SnapshotInv => TypeOK
    BY DEF SnapshotInv, JournalOK, SavesOK, TypeOK
  <1>2. QED
    BY <1>1, SnapshotInvariance, PTL

\* What the last insert under a name answers, when there is one (load_snapshot).
LEMMA StoredIsLast ==
    ASSUME JournalOK, NEW family, NEW name, NEW p \in 1..Len(journal),
           journal[p].keyspace = family, journal[p].name = name
    PROVE  \E q \in 1..Len(journal) :
              /\ p <= q
              /\ Stored(family, name) = journal[q]
              /\ journal[q].keyspace = family /\ journal[q].name = name
PROOF
  <1> DEFINE at == {q \in DOMAIN journal : journal[q].keyspace = family /\ journal[q].name = name}
  <1>1. DOMAIN journal = 1..Len(journal) /\ Len(journal) \in Nat
    BY DEF JournalOK
  <1>2. p \in at /\ at \in SUBSET (1..Len(journal))
    BY <1>1
  <1>3. \E q \in at : \A r \in at : r <= q
    <2> HIDE DEF at
    <2>1. QED
      BY <1>1, <1>2, LastPosition
  <1> DEFINE last == CHOOSE q \in at : \A r \in at : r <= q
  <1>4. last \in at /\ \A r \in at : r <= last
    BY <1>3
  <1>5. at # {} /\ Stored(family, name) = journal[last]
    BY <1>2 DEF Stored
  <1>6. QED
    BY <1>1, <1>2, <1>4, <1>5

\* A save that returned Ok is served by every later load of its name and family: that
\* snapshot or a later one, with a header of its family (save_snapshot, load_snapshot).
THEOREM Durability == Spec => []AcknowledgedSavesServed
PROOF
  <1>1. ASSUME SnapshotInv PROVE AcknowledgedSavesServed
    <2> USE <1>1 DEF SnapshotInv
    <2>1. SUFFICES ASSUME NEW entry \in acked
                   PROVE  /\ Stored(entry.keyspace, entry.name) # None
                          /\ Stored(entry.keyspace, entry.name).seq >= entry.seq
                          /\ Stored(entry.keyspace, entry.name).bytes.family = entry.keyspace
      BY DEF AcknowledgedSavesServed
    <2>2. Len(journal) \in Nat /\ \A r \in 1..Len(journal) : journal[r] \in Entries
      BY DEF JournalOK
    <2>3. 1..Lasting \subseteq 1..Len(journal)
      BY <2>2 DEF Lasting, SavesOK
    <2>4. PICK p \in 1..Len(journal) : journal[p] = entry /\ entry.seq > 0
      BY <2>3 DEF KeptOK, InsertedBefore
    <2>5. PICK q \in 1..Len(journal) :
            /\ p <= q
            /\ Stored(entry.keyspace, entry.name) = journal[q]
            /\ journal[q].keyspace = entry.keyspace
      BY <2>4, StoredIsLast
    <2>6. journal[p].seq \in Nat /\ journal[q].seq \in Nat /\ journal[q] # None
      BY <2>2, NoneIsNoEntry DEF Entries
    <2>7. journal[q].seq >= journal[p].seq
      <3>1. CASE p = q
        BY <2>6, <3>1
      <3>2. CASE p < q
        BY <2>6, <3>2 DEF JournalOK
      <3>3. QED
        BY <2>5, <3>1, <3>2
    <2>8. journal[q].bytes.family = journal[q].keyspace
      BY <2>4, <2>6, <2>7 DEF JournalOK
    <2>9. QED
      BY <2>4, <2>5, <2>6, <2>7, <2>8
  <1>2. SnapshotInv => AcknowledgedSavesServed
    BY <1>1
  <1>3. QED
    BY <1>2, SnapshotInvariance, PTL

\* A snapshot of another format version or family is refused as such, before any index
\* decoder sees its payload (decode_snapshot_payload).
THEOREM PolicyFirst == Spec => []PolicyBeforePayload
PROOF
  <1>1. Init => PolicyBeforePayload
    BY DEF Init, NoAnswer, PolicyBeforePayload
  <1>2. ASSUME PolicyBeforePayload, [Next]_vars PROVE PolicyBeforePayload'
    <2>1. ASSUME NEW family \in SnapshotFamily, NEW name \in Names, Load(family, name)
          PROVE  PolicyBeforePayload'
      <3>1. CASE Stored(family, name) = None
        BY <2>1, <3>1 DEF Load, PolicyBeforePayload
      <3>2. CASE Stored(family, name) # None
        BY <2>1, <3>2 DEF Load, PolicyBeforePayload, decode_snapshot_payload, validate_header
      <3>3. QED
        BY <3>1, <3>2
    <2>2. CASE answer' = NoAnswer
      BY <2>2 DEF PolicyBeforePayload, NoAnswer
    <2>3. CASE answer' = answer
      BY <1>2, <2>3 DEF PolicyBeforePayload
    <2>4. QED
      BY <1>2, <2>1, <2>2, <2>3
      DEF Next, vars, Insert, InsertPanics, SaveFails, Sync, Crash
  <1>3. QED
    BY <1>1, <1>2, PTL DEF Spec

\* What is stored is well typed, and judged by its header before its payload, in either
\* adapter: what the storage run checks of snapshots (save_snapshot, load_snapshot).
THEOREM SnapshotsSound == Spec => []SnapshotsAreSound
PROOF
  <1>1. TypeOK /\ PolicyBeforePayload => SnapshotsAreSound
    BY DEF SnapshotsAreSound
  <1>2. QED
    BY <1>1, SnapshotTyped, PolicyFirst, PTL
=============================================================================
