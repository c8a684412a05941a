----------------------------- MODULE MCStorage -----------------------------
(***************************************************************************)
(* What is kept under text keys: the lifecycle maps of each adapter, the   *)
(* snapshots of each adapter, and the key texts either may find.  Each     *)
(* behaviour is of one of these, and the others stay as they began.        *)
(*                                                                         *)
(* The lifecycle maps hold two indexes of one owner whose names start      *)
(* alike, two versions, and two operation keys, one spelled like a         *)
(* version.  Snapshots are saved by two threads under two names of both    *)
(* families.  Numbers have two digits in base 2, up to 2, and identifiers  *)
(* two bytes; texts have up to five segments: identifiers that are each    *)
(* other's prefix, with and without punctuation, an upper-case one, one    *)
(* that is too long, an empty one, numbers of the right and of the wrong   *)
(* width, in and out of range, and the two parts.                          *)
(***************************************************************************)
EXTENDS SnapshotStore

CONSTANTS
    Radix, DECIMAL_WIDTH, MaxNumber, NAMESPACE_MAX_LEN, NAME_MAX_LEN, KEY_MAX_LEN,
    Corrupt,                                                    \* StorageKeys
    Indexes, Keys, MaxVersion, MaxSequence, Heads, Markers, Records,    \* KeyedStore
    MaxSegments                                                 \* StoredKeyText

VARIABLES
    part,                                                       \* whose behaviour it is
    state, writing, mutex_poisoned,                             \* KeyedStore
    text                                                        \* StoredKeyText

maps == <<state, writing, mutex_poisoned>>
all == <<part, vars, maps, text>>

Maps == INSTANCE KeyedStore

Owned(name) == [namespace |-> <<97>>, name |-> name]

PunctuatedName == {Owned(<<97>>), Owned(<<97, 46>>)}            \* a/a and a/a.

VersionLikeKeys == {<<65>>, <<49, 48>>}                         \* A and 10

MCSegments ==
    {<<>>, <<97>>, <<97, 46>>, <<46, 97>>, <<65>>,              \* a  a.  .a  A
     <<48, 49>>, <<49, 48>>, <<49, 49>>, <<49>>,                \* 01  10  11  1
     <<109>>, <<112>>}                                          \* m  p

KeyText == INSTANCE StoredKeyText WITH Segments <- MCSegments

ASSUME StorageAssumption == Maps!KeysAssumption /\ Maps!KeyedAssumption

\* Every part begins as it does alone, the ones whose behaviour it is not in one state.
StorageInit ==
    /\ part \in {"maps", "snapshots", "text"}
    /\ Init
    /\ Maps!Init
    /\ KeyText!Init
    /\ part # "text" \/ adapter = "atmis"
    /\ part = "snapshots" \/ journal = <<>>
    /\ part = "text" \/ text = <<>>

StorageNext ==
    \/ part = "maps" /\ Maps!Next /\ UNCHANGED <<part, vars, text>>
    \/ part = "snapshots" /\ Next /\ UNCHANGED <<part, maps, text>>
    \/ part = "text" /\ KeyText!Grow /\ UNCHANGED <<part, vars, maps>>

StorageSpec == StorageInit /\ [][StorageNext]_all

(***************************************************************************)
(* Properties of the other parts; SnapshotStore states its own.            *)
(***************************************************************************)
\* Either adapter refuses a write exactly when the contract does and for the same
\* reason, and what it reads and lists is what is promised, complete and in order, and
\* never the half of a write that a panic left (first_staged, check_head,
\* next_sequence, list_heads, list_quarantined).
MapsAnswerAsPromised ==
    part = "maps" => Maps!RefusalsMatchContract /\ Maps!ReadsMatchContract

\* Every change of what either adapter's maps promise is the whole effect of one write
\* the contract allows: ImplementsContract, and nothing to say of the other parts (stage,
\* publish, destroy, quarantine).
MapsImplementContract ==
    /\ Maps!AbsDb = Maps!L!EmptyStore
    /\ [][part = "maps" => UNCHANGED <<adapter, Maps!Promised>> \/ Maps!ContractStep]_all

\* A text is a key of at most one thing, what no adapter writes is refused, the prefix
\* of an index matches its own keys only, and quarantine keys sort by their sequence
\* numbers (storage_key).
KeysSpellOneThing ==
    part = "text" =>
        /\ KeyText!KeysSpellOneThing
        /\ KeyText!PrefixesMatchOneIndex
        /\ KeyText!QuarantineSortsBySequence
=============================================================================
