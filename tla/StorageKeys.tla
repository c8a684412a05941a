---------------------------- MODULE StorageKeys ----------------------------
(***************************************************************************)
(* The one key encoding of the lifecycle adapters (storage_key in          *)
(* lifecycle/backend.rs) and the grammar of the identifiers in a key       *)
(* (lifecycle/identity.rs).  A text is a sequence of bytes: its order and  *)
(* its prefixes are what the adapters' maps go by, so the bytes are kept.  *)
(* Numbers are written in base Radix with DECIMAL_WIDTH digits, 10 and 20  *)
(* in the code.                                                            *)
(***************************************************************************)
EXTENDS Integers, FiniteSets, Sequences

CONSTANTS
    Radix,              \* the base of a written number
    DECIMAL_WIDTH,      \* how many digits it is padded to
    MaxNumber,          \* u64::MAX: within the digits, and not all they can spell
    NAMESPACE_MAX_LEN,  \* OwnerNamespace::MAX_LEN
    NAME_MAX_LEN,       \* IndexName::MAX_LEN
    KEY_MAX_LEN,        \* OperationKey::MAX_LEN
    Corrupt             \* HeuremaError::CorruptSnapshot, the refusal of a stored key

KeysAssumption ==
    /\ Radix \in 2..10 /\ DECIMAL_WIDTH \in Nat \ {0}
    /\ MaxNumber \in 1..(Radix ^ DECIMAL_WIDTH - 1)
    /\ {NAMESPACE_MAX_LEN, NAME_MAX_LEN, KEY_MAX_LEN} \subseteq Nat \ {0}

SEPARATOR == 47                                         \* '/'
Digit == 48..57                                         \* '0' to '9'
Lowercase == 97..122
Uppercase == 65..90

(***************************************************************************)
(* Identifiers.                                                            *)
(***************************************************************************)
\* Grammar::check: a leading letter or digit, then punctuation too, within a length.
Check(text, max_len, lead, punctuation) ==
    /\ text # <<>>
    /\ Len(text) <= max_len
    /\ \A p \in DOMAIN text : text[p] \in lead \cup (IF p = 1 THEN {} ELSE punctuation)

IsNamespace(text) == Check(text, NAMESPACE_MAX_LEN, Digit \cup Lowercase, {46, 95, 45})
IsName(text) == Check(text, NAME_MAX_LEN, Digit \cup Lowercase, {46, 95, 45})
IsOperationKey(text) ==
    Check(text, KEY_MAX_LEN, Digit \cup Lowercase \cup Uppercase, {46, 95, 58, 45})

\* An index identity is its namespace and its name.
IndexIdentity(namespace, name) == [namespace |-> namespace, name |-> name]

(***************************************************************************)
(* Writing keys.                                                           *)
(***************************************************************************)
Padded(n) == [p \in 1..DECIMAL_WIDTH |-> 48 + ((n \div Radix ^ (DECIMAL_WIDTH - p)) % Radix)]

head(index) == index.namespace \o <<SEPARATOR>> \o index.name

\* A prefix that the keys of a longer name also start with.
HeadAsPrefix(index) == head(index)

index_prefix(index) == head(index) \o <<SEPARATOR>>

version(index, v) == index_prefix(index) \o Padded(v)

staging(index, v) == version(index, v)

operation(index, key) == index_prefix(index) \o key

\* "marker" and "payload", by their first letters: neither is a prefix of the other.
QuarantinePart == [marker |-> <<109>>, payload |-> <<112>>]

\* A key that numbers its entry without padding.
QuarantineUnpadded(sequence, index, v, part) ==
    (IF sequence < Radix THEN <<48 + sequence>> ELSE Padded(sequence))
        \o <<SEPARATOR>> \o version(index, v) \o <<SEPARATOR>> \o QuarantinePart[part]

quarantine(sequence, index, v, part) ==
    Padded(sequence) \o <<SEPARATOR>> \o version(index, v) \o <<SEPARATOR>> \o QuarantinePart[part]

(***************************************************************************)
(* Reading keys.                                                           *)
(***************************************************************************)
\* The n-th of the parts that the separators cut a text into.
Cuts(text) == {p \in DOMAIN text : text[p] = SEPARATOR} \cup {0, Len(text) + 1}

Parts(text) == Cardinality(Cuts(text)) - 1

Part(text, n) ==
    LET cut(k) == CHOOSE c \in Cuts(text) : Cardinality({d \in Cuts(text) : d < c}) = k - 1
    IN  SubSeq(text, cut(n) + 1, cut(n + 1) - 1)

Value(digits) ==
    LET sum[p \in 0..Len(digits)] ==
            IF p = 0 THEN 0 ELSE sum[p - 1] * Radix + (digits[p] - 48)
    IN  sum[Len(digits)]

\* A number of any width.
DecimalOfAnyWidth(digits) ==
    IF digits = <<>> \/ \E p \in DOMAIN digits : digits[p] \notin 48..(47 + Radix) THEN Corrupt
    ELSE IF Value(digits) > MaxNumber THEN Corrupt
    ELSE Value(digits)

decimal(digits) ==
    IF Len(digits) # DECIMAL_WIDTH \/ \E p \in DOMAIN digits : digits[p] \notin 48..(47 + Radix)
    THEN Corrupt
    ELSE IF Value(digits) > MaxNumber THEN Corrupt
    ELSE Value(digits)

index_version(digits) == IF decimal(digits) = 0 THEN Corrupt ELSE decimal(digits)

identity(namespace, name) ==
    IF IsNamespace(namespace) /\ IsName(name) THEN IndexIdentity(namespace, name) ELSE Corrupt

\* A parse of parts is corrupt when one of them is.
Parsed(parts) == IF \E p \in DOMAIN parts : parts[p] = Corrupt THEN Corrupt ELSE parts

parse_head(text) ==
    IF Parts(text) # 2 THEN Corrupt
    ELSE Parsed(<<identity(Part(text, 1), Part(text, 2))>>)

parse_version(text) ==
    IF Parts(text) # 3 THEN Corrupt
    ELSE Parsed(<<identity(Part(text, 1), Part(text, 2)), index_version(Part(text, 3))>>)

parse_staging(text) == parse_version(text)

parse_operation(text) ==
    IF Parts(text) # 3 THEN Corrupt
    ELSE Parsed(<<identity(Part(text, 1), Part(text, 2)),
                  IF IsOperationKey(Part(text, 3)) THEN Part(text, 3) ELSE Corrupt>>)

parse_part(text) ==
    CASE text = QuarantinePart.marker -> "marker"
      [] text = QuarantinePart.payload -> "payload"
      [] OTHER -> Corrupt

parse_quarantine(text) ==
    IF Parts(text) # 5 THEN Corrupt
    ELSE Parsed(<<decimal(Part(text, 1)), identity(Part(text, 2), Part(text, 3)),
                  index_version(Part(text, 4)), parse_part(Part(text, 5))>>)

(***************************************************************************)
(* The order and the prefixes of a map keyed by text.                      *)
(***************************************************************************)
StartsWith(text, prefix) ==
    Len(prefix) <= Len(text) /\ SubSeq(text, 1, Len(prefix)) = prefix

\* Byte order: the first difference decides, and a prefix comes first.
Before(a, b) ==
    \/ a # b /\ StartsWith(b, a)
    \/ \E p \in DOMAIN a \cap DOMAIN b :
        /\ a[p] < b[p]
        /\ \A q \in 1..(p - 1) : a[q] = b[q]
=============================================================================
