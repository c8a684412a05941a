-------------------------- MODULE CanonicalEncoding --------------------------
(***************************************************************************)
(* The canonical encoding of a value (lifecycle/digest.rs): one item of    *)
(* tagged bytes for each call a Serialize implementation makes, with the   *)
(* entries of a map sorted by their encoded keys.                          *)
(*                                                                         *)
(* A tree is what a value emits: its calls, in the order it makes them,    *)
(* right or wrong.  A byte is a number; a length or a count is one byte    *)
(* where the code writes eight, and a u64 and an i64 are two bytes.        *)
(* SHA-256 is taken as injective and left out.                             *)
(***************************************************************************)
EXTENDS Integers, FiniteSets, Sequences, SequencesExt

(***************************************************************************)
(* Items.  Nothing is the bytes of a refusal: every item has a tag.        *)
(***************************************************************************)
Tag == [unit |-> 0, none |-> 1, some |-> 2, false |-> 3, true |-> 4,
        u8 |-> 16, u32 |-> 18, u64 |-> 19, i64 |-> 27,
        str |-> 64, bytes |-> 65, seq |-> 80, map |-> 81, variant |-> 96]

Integer == {"u8", "u32", "u64", "i64"}

Width == [u8 |-> 1, u32 |-> 2, u64 |-> 2, i64 |-> 2]

Refused == <<>>

U64Max == 256 * 256 - 1
I64Min == -(256 * 128)

\* An integer in two's complement, big-endian.
BigEndian(kind, n) ==
    LET m == IF n < 0 THEN n + 256 ^ Width[kind] ELSE n
    IN  [p \in 1..Width[kind] |-> (m \div 256 ^ (Width[kind] - p)) % 256]

count(n) == <<n>>

length_prefixed(tag, payload) == <<tag>> \o count(Len(payload)) \o payload

open_variant(name) == <<Tag.variant>> \o length_prefixed(Tag.str, name)

is_key(item) == item # Refused /\ item[1] \in {Tag.str} \cup {Tag[k] : k \in Integer}

(***************************************************************************)
(* serde_json's arbitrary-precision number: the text of an integer in the  *)
(* range of u64 or i64, spelled as that integer is displayed.              *)
(***************************************************************************)
Decimal(n) ==
    LET abs == IF n < 0 THEN -n ELSE n
        digits == CHOOSE d \in 1..6 : abs < 10 ^ d /\ (d = 1 \/ abs >= 10 ^ (d - 1))
    IN  (IF n < 0 THEN <<45>> ELSE <<>>)
        \o [p \in 1..digits |-> 48 + ((abs \div 10 ^ (digits - p)) % 10)]

NumberOf(text) ==
    LET digits == SelectSeq(text, LAMBDA c : c \in 48..57)
        value == FoldLeft(LAMBDA sum, c : 10 * sum + (c - 48), 0, digits)
    IN  IF text # <<>> /\ text[1] = 45 THEN -value ELSE value

\* A parse that takes 01, +1 and -0 for the integers they denote.
NumberItemLenient(text) ==
    LET n == NumberOf(text)
    IN  IF n \in 0..U64Max THEN <<Tag.u64>> \o BigEndian("u64", n)
        ELSE IF n \in I64Min..(-1) THEN <<Tag.i64>> \o BigEndian("i64", n)
        ELSE Refused

serde_json_number_item(text) ==
    LET n == NumberOf(text)
    IN  IF Decimal(n) # text THEN Refused
        ELSE IF n \in 0..U64Max THEN <<Tag.u64>> \o BigEndian("u64", n)
        ELSE IF n \in I64Min..(-1) THEN <<Tag.i64>> \o BigEndian("i64", n)
        ELSE Refused

(***************************************************************************)
(* Maps.  The state of one being written: its entries, the key that waits  *)
(* for its value, and whether a call was refused.                          *)
(***************************************************************************)
BytesBefore(a, b) ==
    \/ Len(a) < Len(b) /\ SubSeq(b, 1, Len(a)) = a
    \/ \E p \in 1..Len(a) :
        p <= Len(b) /\ a[p] < b[p] /\ SubSeq(a, 1, p - 1) = SubSeq(b, 1, p - 1)

NewMap == [entries |-> <<>>, pending |-> Refused, failed |-> FALSE]

MapKey(map, item) ==
    IF is_key(item) THEN [map EXCEPT !.pending = item] ELSE [map EXCEPT !.failed = TRUE]

MapValue(map, item) ==
    IF map.pending = Refused \/ item = Refused THEN [map EXCEPT !.failed = TRUE]
    ELSE [map EXCEPT !.entries = Append(@, <<map.pending, item>>), !.pending = Refused]

Written(entries) ==
    <<Tag.map>> \o count(Len(entries)) \o FoldLeft(LAMBDA out, e : out \o e[1] \o e[2], <<>>, entries)

\* Entries in the order they were emitted.
MapFinishUnsorted(map) ==
    LET keys == {map.entries[p][1] : p \in DOMAIN map.entries}
    IN  IF map.failed \/ map.pending # Refused \/ Cardinality(keys) # Len(map.entries) THEN Refused
        ELSE Written(map.entries)

MapFinish(map) ==
    LET sorted == SortSeq(map.entries, LAMBDA a, b : BytesBefore(a[1], b[1]))
        Repeated == \E p \in 1..(Len(sorted) - 1) : sorted[p][1] = sorted[p + 1][1]
    IN  IF map.failed \/ map.pending # Refused \/ Repeated THEN Refused ELSE Written(sorted)

(***************************************************************************)
(* The encoder.  A refusal anywhere refuses the whole value.               *)
(***************************************************************************)
Within(prefix, item) == IF item = Refused THEN Refused ELSE prefix \o item

RECURSIVE encode(_)

SeqItem(elements) ==
    LET items == [p \in DOMAIN elements |-> encode(elements[p])]
    IN  IF \E p \in DOMAIN items : items[p] = Refused THEN Refused
        ELSE <<Tag.seq>> \o count(Len(items)) \o FoldLeft(LAMBDA out, i : out \o i, <<>>, items)

MapItem(calls) ==
    MapFinish(FoldLeft(LAMBDA map, call :
                            IF call[1] = "key" THEN MapKey(map, encode(call[2]))
                            ELSE MapValue(map, encode(call[2])),
                       NewMap, calls))

is_str(item) == item # Refused /\ item[1] = Tag.str

\* What follows the tag and the length of a string item.
decoded_str(item) == SubSeq(item, 3, Len(item))

\* Only a call of serialize_str itself counts as decimal text.
NumberItemOfStrCall(fields) ==
    IF Len(fields) = 1 /\ fields[1][1] = "number" /\ fields[1][2][1] = "str"
    THEN serde_json_number_item(fields[1][2][2])
    ELSE Refused

\* A struct of one field, named as serde_json names it, whose item is decimal text,
\* whatever calls made that item.
NumberItem(fields) ==
    LET item == encode(fields[1][2])
    IN  IF Len(fields) = 1 /\ fields[1][1] = "number" /\ is_str(item)
        THEN serde_json_number_item(decoded_str(item))
        ELSE Refused

encode(tree) ==
    LET kind == tree[1]
    IN  CASE kind = "unit" -> <<Tag.unit>>
          [] kind = "none" -> <<Tag.none>>
          [] kind = "bool" -> <<IF tree[2] THEN Tag.true ELSE Tag.false>>
          [] kind \in Integer -> <<Tag[kind]>> \o BigEndian(kind, tree[2])
          [] kind \in {"str", "char", "unit_variant"} -> length_prefixed(Tag.str, tree[2])
          [] kind = "bytes" -> length_prefixed(Tag.bytes, tree[2])
          [] kind = "float" -> Refused
          [] kind = "some" -> Within(<<Tag.some>>, encode(tree[2]))
          [] kind = "newtype" -> encode(tree[2])
          [] kind = "variant" -> Within(open_variant(tree[2]), encode(tree[3]))
          [] kind = "seq" -> SeqItem(tree[2])
          [] kind = "map" -> MapItem(tree[2])
          [] kind = "struct" ->
                MapItem(FoldLeft(LAMBDA calls, f : calls \o <<<<"key", <<"str", f[1]>>>>, <<"value", f[2]>>>>,
                                 <<>>, tree[2]))
          [] kind = "json_number" -> NumberItem(tree[2])
          [] kind = "raw_json" -> Refused

(***************************************************************************)
(* An operation as it is encoded: members by identity, whatever order the  *)
(* caller lists them in.  A vector is the bit patterns of its components.  *)
(***************************************************************************)
IndexTree(index) ==
    <<"struct", <<<<<<110>>, <<"str", index.namespace>>>>, <<<<78>>, <<"str", index.name>>>>>>>>

ContentTree(content) ==
    CASE content.family = "Vector" ->
            <<"variant", <<118>>, <<"seq", [p \in DOMAIN content.data |-> <<"u32", content.data[p]>>]>>>>
      [] content.family = "Fts" -> <<"variant", <<100>>, <<"str", content.data>>>>

MemberTree(member) ==
    <<"struct", <<<<<<105>>, member.id>>, <<<<112>>, member.provenance>>,
                  <<<<99>>, ContentTree(member.content)>>>>>>

\* Members in the order the caller lists them in.
MembersAsListed(members) == members

\* Identities are integers here; M's own order sorts them.
sorted_members(members) == SortSeq(members, LAMBDA a, b : a.id[2] < b.id[2])

MembersTree(members) ==
    LET sorted == sorted_members(members)
    IN  <<<<109>>, <<"seq", [p \in DOMAIN sorted |-> MemberTree(sorted[p])]>>>>

IdsTree(ids) ==
    LET sorted == SortSeq(ids, LAMBDA a, b : a[2] < b[2]) IN <<<<109>>, <<"seq", sorted>>>>

\* The fields of the change; nothing in them names the transition.
ChangeTree(op) ==
    CASE op.transition = "Create"  -> <<"struct", <<<<<<99>>, op.config>>>>>>
      [] op.transition = "Insert"  -> <<"struct", <<MembersTree(op.members)>>>>
      [] op.transition = "Remove"  -> <<"struct", <<IdsTree(op.ids)>>>>
      [] op.transition = "Rebuild" ->
            <<"struct", <<<<<<99>>, op.config>>, MembersTree(op.members)>>>>
      [] op.transition = "Destroy" -> <<"struct", <<<<<<114>>, op.retention>>>>>>

\* A unit variant is its name: a byte for each here.
TransitionName == [Create |-> <<67>>, Insert |-> <<73>>, Remove |-> <<82>>, Rebuild |-> <<66>>,
                   Destroy |-> <<68>>]

CanonicalOperation(op) ==
    <<"struct", <<<<<<105>>, IndexTree(op.index)>>,
                  <<<<116>>, <<"unit_variant", TransitionName[op.transition]>>>>,
                  <<<<104>>, ChangeTree(op)>>>>>>

canonical_bytes(op) == encode(CanonicalOperation(op))
==============================================================================
