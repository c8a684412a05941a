---------------------------- MODULE SnapshotStore ----------------------------
(***************************************************************************)
(* Named snapshots (persistence.rs) in the two adapters: thesauros, which  *)
(* inserts into a fjall keyspace and then fsyncs the journal, as two steps *)
(* that other saves and a crash may come between; and atmis, which inserts *)
(* into a map that ends with the process.                                  *)
(*                                                                         *)
(* What is stored is the sequence of inserts: of two for one name, the     *)
(* later counts.  A crash keeps a prefix of it, at least what was synced   *)
(* (fjall replays its journal up to the first incomplete batch).           *)
(***************************************************************************)
EXTENDS Naturals, Sequences

CONSTANTS
    Savers,         \* threads that save
    Names,          \* snapshot names
    Payloads,       \* encoded indexes
    Unencodable,    \* an index serde_json cannot encode
    MaxSaves,       \* a bound on the inserts of a behaviour
    None

ASSUME SnapshotAssumption ==
    /\ MaxSaves \in Nat
    /\ Unencodable \notin Payloads

SnapshotFamily == {"Vector", "Fts"}

SNAPSHOT_FORMAT_VERSION == 1

VARIABLES
    adapter,    \* "atmis" or "thesauros"
    journal,    \* every insert, oldest first
    synced,     \* how much of it is known to be on disk
    poisoned,   \* fjall refuses writes since one failed
    saver,      \* what each thread has inserted and not yet synced
    saves,      \* how many inserts there have been
    acked,      \* the inserts whose save has returned Ok
    answer      \* the last load and its outcome

vars == <<adapter, journal, synced, poisoned, saver, saves, acked, answer>>

\* What thesauros acknowledges outlives the process; atmis keeps a map in memory.
Durable == adapter = "thesauros"

(***************************************************************************)
(* Envelopes.  `readable' is whether the bytes are an envelope at all and  *)
(* `intact' whether the payload decodes as the index the caller chose.     *)
(***************************************************************************)
\* Saves of a format that loads do not read.
EnvelopeOfNextFormat(family, payload) ==
    [readable |-> TRUE, format_version |-> SNAPSHOT_FORMAT_VERSION + 1, family |-> family,
     payload |-> payload, intact |-> TRUE]

Envelope(family, payload) ==
    [readable |-> TRUE, format_version |-> SNAPSHOT_FORMAT_VERSION, family |-> family,
     payload |-> payload, intact |-> TRUE]

\* What else a database may hold: bytes of other builds, or damaged ones.
Foreign ==
    {[readable |-> FALSE, format_version |-> 2, family |-> "Vector", payload |-> None,
      intact |-> FALSE]}
    \cup [readable : {TRUE}, format_version : {1, 2}, family : SnapshotFamily,
          payload : {None}, intact : {FALSE}]

validate_header(bytes, expected) ==
    CASE bytes.format_version # SNAPSHOT_FORMAT_VERSION -> "UnsupportedSnapshotVersion"
      [] bytes.format_version = SNAPSHOT_FORMAT_VERSION /\ bytes.family # expected -> "SnapshotFormat"
      [] OTHER -> "Ok"

\* The index decoder sees the payload before the header is judged.
DecodePayloadFirst(bytes, expected) ==
    IF bytes.readable /\ bytes.intact THEN validate_header(bytes, expected) ELSE "CorruptSnapshot"

decode_snapshot_payload(bytes, expected) ==
    IF ~ bytes.readable THEN "CorruptSnapshot"
    ELSE IF validate_header(bytes, expected) # "Ok" THEN validate_header(bytes, expected)
    ELSE IF bytes.intact THEN "Ok" ELSE "CorruptSnapshot"

(***************************************************************************)
(* The keyspaces: the last insert under a name of a family.                *)
(***************************************************************************)
\* One keyspace for both families.
StoredUnder(family, name) ==
    LET at == {p \in DOMAIN journal : journal[p].name = name}
    IN  IF at = {} THEN None ELSE journal[CHOOSE p \in at : \A q \in at : q <= p]

Stored(family, name) ==
    LET at == {p \in DOMAIN journal : journal[p].keyspace = family /\ journal[p].name = name}
    IN  IF at = {} THEN None ELSE journal[CHOOSE p \in at : \A q \in at : q <= p]

Entry(seq, family, name, bytes) ==
    [seq |-> seq, keyspace |-> family, name |-> name, bytes |-> bytes]

NoAnswer == [family |-> None, bytes |-> None, outcome |-> "none"]

Init ==
    /\ adapter \in {"atmis", "thesauros"}
    /\ journal \in {<<>>} \cup
                   {<<Entry(0, family, name, bytes)>> :
                        family \in SnapshotFamily, name \in Names, bytes \in Foreign}
    /\ Durable \/ journal = <<>>
    /\ synced = Len(journal)
    /\ poisoned = FALSE
    /\ saver = [t \in Savers |-> None]
    /\ saves = 0
    /\ acked = {}
    /\ answer = NoAnswer

(***************************************************************************)
(* save_vector_index and save_fts_index.                                   *)
(***************************************************************************)
Insert(t, family, name, index) ==
    LET entry == Entry(saves + 1, family, name, Envelope(family, index))
    IN  /\ saver[t] = None
        /\ index # Unencodable
        /\ ~ poisoned
        /\ saves < MaxSaves
        /\ journal' = Append(journal, entry)
        /\ saves' = saves + 1
        /\ \/ /\ Durable
              /\ saver' = [saver EXCEPT ![t] = entry]
              /\ UNCHANGED acked
           \/ /\ ~ Durable
              /\ acked' = acked \cup {entry}
              /\ UNCHANGED saver
        /\ answer' = NoAnswer
        /\ UNCHANGED <<adapter, synced, poisoned>>

\* The save fails before anything is stored: the index does not encode, the database
\* is poisoned, or the insert itself fails, which poisons it.  A panic of atmis in the
\* middle of an insert is either this or an insert that nobody learns of.
SaveFails(t, index) ==
    /\ saver[t] = None
    /\ \/ (index = Unencodable \/ poisoned) /\ UNCHANGED poisoned
       \/ Durable /\ index # Unencodable /\ ~ poisoned /\ poisoned' = TRUE
    /\ answer' = NoAnswer
    /\ UNCHANGED <<adapter, journal, synced, saver, saves, acked>>

InsertPanics(t, family, name, index) ==
    /\ ~ Durable
    /\ index # Unencodable
    /\ saves < MaxSaves
    /\ journal' = Append(journal, Entry(saves + 1, family, name, Envelope(family, index)))
    /\ saves' = saves + 1
    /\ answer' = NoAnswer
    /\ UNCHANGED <<adapter, synced, poisoned, saver, acked>>

\* A save that returns before the journal is on disk.
SyncedLater(t) ==
    /\ acked' = acked \cup {saver[t]}
    /\ UNCHANGED <<synced, poisoned>>

\* sync succeeds: the whole journal is on disk, and the save returns Ok.
Synced(t) ==
    /\ synced' = Len(journal)
    /\ acked' = acked \cup {saver[t]}
    /\ UNCHANGED poisoned

\* When it fails, loads go on returning what the failed save inserted.
Sync(t) ==
    /\ saver[t] # None
    /\ \/ ~ poisoned /\ Synced(t)
       \/ poisoned' = TRUE /\ UNCHANGED <<synced, acked>>
    /\ saver' = [saver EXCEPT ![t] = None]
    /\ answer' = NoAnswer
    /\ UNCHANGED <<adapter, journal, saves>>

(***************************************************************************)
(* load_vector_index and load_fts_index.                                   *)
(***************************************************************************)
Load(family, name) ==
    LET entry == Stored(family, name)
    IN  /\ answer' =
            IF entry = None
            THEN [family |-> family, bytes |-> None, outcome |-> "IndexNotFound"]
            ELSE [family |-> family, bytes |-> entry.bytes,
                  outcome |-> decode_snapshot_payload(entry.bytes, family)]
        /\ UNCHANGED <<adapter, journal, synced, poisoned, saver, saves, acked>>

(***************************************************************************)
(* The process ends and the database is opened again.  What of the journal *)
(* was written and not synced may or may not be there, a prefix of it.     *)
(***************************************************************************)
Crash ==
    /\ \/ /\ Durable
          /\ \E n \in synced..Len(journal) : journal' = SubSeq(journal, 1, n)
          /\ UNCHANGED acked
       \/ /\ ~ Durable
          /\ journal' = <<>>
          /\ acked' = {}
    /\ poisoned' = FALSE
    /\ saver' = [t \in Savers |-> None]
    /\ answer' = NoAnswer
    /\ UNCHANGED <<adapter, synced, saves>>

Next ==
    \/ \E t \in Savers, family \in SnapshotFamily, name \in Names, index \in Payloads :
        Insert(t, family, name, index) \/ InsertPanics(t, family, name, index)
    \/ \E t \in Savers, index \in Payloads \cup {Unencodable} : SaveFails(t, index)
    \/ \E t \in Savers : Sync(t)
    \/ \E family \in SnapshotFamily, name \in Names : Load(family, name)
    \/ Crash

Spec == Init /\ [][Next]_vars

(***************************************************************************)
(* Properties.                                                             *)
(***************************************************************************)
Bytes == Foreign \cup
         [readable : {TRUE}, format_version : {SNAPSHOT_FORMAT_VERSION}, family : SnapshotFamily,
          payload : Payloads, intact : {TRUE}]

Entries == [seq : 0..MaxSaves, keyspace : SnapshotFamily, name : Names, bytes : Bytes]

\* A load tells a stored snapshot from none.
ASSUME NoneIsNoEntry == None \notin Entries

\* Type correctness; what is synced is part of the journal, whose inserts are in order.
TypeOK ==
    /\ adapter \in {"atmis", "thesauros"}
    /\ \A p \in DOMAIN journal : journal[p] \in Entries
    /\ \A p, q \in DOMAIN journal : p < q => journal[p].seq < journal[q].seq
    /\ synced \in 0..Len(journal)
    /\ poisoned \in BOOLEAN
    /\ saver \in [Savers -> Entries \cup {None}]
    /\ saves \in 0..MaxSaves
    /\ acked \subseteq Entries

(***************************************************************************)
(* Durability: once a save has returned Ok, a load of that name and family *)
(* finds that snapshot or a later one of the family, whatever saves ran    *)
(* beside it, which of them failed and however often the process ended     *)
(* since.                                                                  *)
(***************************************************************************)
AcknowledgedSavesServed ==
    \A entry \in acked :
        /\ Stored(entry.keyspace, entry.name) # None
        /\ Stored(entry.keyspace, entry.name).seq >= entry.seq
        /\ Stored(entry.keyspace, entry.name).bytes.family = entry.keyspace

(***************************************************************************)
(* A snapshot of another format version or family is refused as such       *)
(* before any index decoder sees its payload: it is never served, and      *)
(* never reported corrupt because its payload does not decode.             *)
(***************************************************************************)
PolicyBeforePayload ==
    answer.outcome \in {"Ok", "CorruptSnapshot"} /\ answer.bytes.readable =>
        /\ answer.bytes.format_version = SNAPSHOT_FORMAT_VERSION
        /\ answer.bytes.family = answer.family

\* Whatever is stored is well typed, with the header of this format where this adapter
\* wrote it, and is judged by that header first (Envelope, decode_snapshot_payload).
SnapshotsAreSound == TypeOK /\ PolicyBeforePayload
==============================================================================
