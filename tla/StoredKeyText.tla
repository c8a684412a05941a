--------------------------- MODULE StoredKeyText ---------------------------
(***************************************************************************)
(* A key as an adapter may find it in a store: any text made of the given  *)
(* segments, whether an adapter wrote it or not, grown one segment at a    *)
(* time.                                                                   *)
(***************************************************************************)
EXTENDS StorageKeys

CONSTANTS
    Segments,       \* the segments a stored text is made of
    MaxSegments     \* how many of them at most

VARIABLE text

Init == text \in Segments

Grow ==
    /\ Parts(text) < MaxSegments
    /\ \E s \in Segments : text' = text \o <<SEPARATOR>> \o s

Spec == Init /\ [][Grow]_text

(***************************************************************************)
(* Properties.                                                             *)
(***************************************************************************)
Identities ==
    {IndexIdentity(namespace, name) :
        namespace \in {s \in Segments : IsNamespace(s)}, name \in {s \in Segments : IsName(s)}}

IndexVersions == 1..MaxNumber

OperationKeys == {s \in Segments : IsOperationKey(s)}

\* The keys of every kind, each with what it was made of.
HeadKeys == {<<head(i), i>> : i \in Identities}
VersionKeys == {<<version(i, v), i, v>> : i \in Identities, v \in IndexVersions}
OperationKeysOf == {<<operation(i, k), i, k>> : i \in Identities, k \in OperationKeys}
QuarantineKeys ==
    {<<quarantine(n, i, v, part), n, i, v, part>> :
        n \in 0..MaxNumber, i \in Identities, v \in IndexVersions, part \in DOMAIN QuarantinePart}

(***************************************************************************)
(* A text is a key of at most one thing, and parsing finds exactly that:   *)
(* what it accepts is spelled back as the same text, and every key an      *)
(* adapter writes is accepted as what it was written for.  Texts no        *)
(* adapter writes (a number of another width or above u64::MAX, version 0, *)
(* an empty part) are refused, so damage is never read as another record.  *)
(***************************************************************************)
KeysSpellOneThing ==
    LET h == parse_head(text)
        v == parse_version(text)
        o == parse_operation(text)
        q == parse_quarantine(text)
    IN  /\ h # Corrupt => head(h[1]) = text
        /\ v # Corrupt => version(v[1], v[2]) = text
        /\ o # Corrupt => operation(o[1], o[2]) = text
        /\ q # Corrupt => quarantine(q[1], q[2], q[3], q[4]) = text
        /\ Parts(text) = 2 => \A k \in HeadKeys : k[1] = text => h = <<k[2]>>
        /\ Parts(text) = 3 =>
            /\ \A k \in VersionKeys : k[1] = text => v = <<k[2], k[3]>>
            /\ \A k \in OperationKeysOf : k[1] = text => o = <<k[2], k[3]>>

(***************************************************************************)
(* The prefix of an index matches its own keys and no other's, although    *)
(* the names of two indexes may start alike.                               *)
(***************************************************************************)
PrefixesMatchOneIndex ==
    LET OfOneIndex(key) ==
            key # Corrupt =>
                \A i \in Identities : StartsWith(text, index_prefix(i)) <=> key[1] = i
    IN  OfOneIndex(parse_version(text)) /\ OfOneIndex(parse_operation(text))

(***************************************************************************)
(* Quarantine keys sort by their sequence numbers, whatever they name, and *)
(* a marker sorts before the payload of the same entry: the last key has   *)
(* the last sequence, and pairing may go by the order.                     *)
(***************************************************************************)
QuarantineSortsBySequence ==
    LET q == parse_quarantine(text)
    IN  q # Corrupt =>
            \A k \in QuarantineKeys :
                /\ k[2] < q[1] => Before(k[1], text)
                /\ q[1] < k[2] => Before(text, k[1])
                /\ k[2] = q[1] /\ k[3] = q[2] /\ k[4] = q[3] /\ k[5] = "marker"
                     /\ q[4] = "payload" => Before(k[1], text)
=============================================================================
