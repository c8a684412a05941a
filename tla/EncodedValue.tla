---------------------------- MODULE EncodedValue ----------------------------
(***************************************************************************)
(* A consumer's value, grown from a leaf outwards, and its encoding.  The  *)
(* calls it makes need not be the ones its type promises: a map may emit   *)
(* its entries in any order, a key twice, or a value before its key.       *)
(***************************************************************************)
EXTENDS CanonicalEncoding

CONSTANTS
    Leaves,     \* what values start from
    Siblings,   \* the other members of a compound
    Numbers,    \* the fields of serde_json numbers
    MaxCalls,   \* MaxCalls[d]: the most calls of a map around a tree of depth d
    MaxDepth    \* how often a value is wrapped

VARIABLES tree, depth

vars == <<tree, depth>>

Calls(t, s, n) ==
    UNION {[1..m -> {<<"key", t>>, <<"value", t>>, <<"key", s>>, <<"value", s>>}] : m \in 0..n}

Compounds(t) ==
    {<<"some", t>>, <<"newtype", t>>, <<"variant", <<97>>, t>>, <<"seq", <<t>>>>,
     <<"struct", <<<<<<97>>, t>>>>>>, <<"json_number", <<<<"number", t>>>>>>}
    \cup {<<"seq", <<s, t>>>> : s \in Siblings}
    \cup {<<"seq", <<t, s>>>> : s \in Siblings}
    \cup {<<"struct", <<<<<<98>>, t>>, <<<<97>>, s>>>>>> : s \in Siblings}
    \cup {<<"map", calls>> : calls \in UNION {Calls(t, s, MaxCalls[depth]) : s \in Siblings}}

Init ==
    /\ tree \in Leaves
                \cup {<<"json_number", fields>> : fields \in Numbers}
    /\ depth = 0

Wrap ==
    /\ depth < MaxDepth
    /\ tree' \in Compounds(tree)
    /\ depth' = depth + 1

Spec == Init /\ [][Wrap]_vars

(***************************************************************************)
(* What a value means: the rows of the item grammar, with a map as the set *)
(* of its entries.                                                         *)
(***************************************************************************)
\* The key a value belongs to: the last one emitted before it.
KeyAt(calls, p) == calls[CHOOSE q \in 1..(p - 1) : calls[q][1] = "key" /\ \A r \in (q + 1)..(p - 1) : calls[r][1] # "key"][2]

ValuesOf(calls) == {p \in DOMAIN calls : calls[p][1] = "value"}

RECURSIVE Meaning(_)

Meaning(t) ==
    CASE t[1] = "newtype" -> Meaning(t[2])
      [] t[1] \in {"char", "unit_variant"} -> <<"str", t[2]>>
      [] t[1] = "some"    -> <<"some", Meaning(t[2])>>
      [] t[1] = "variant" -> <<"variant", t[2], Meaning(t[3])>>
      [] t[1] = "seq"     -> <<"seq", [p \in DOMAIN t[2] |-> Meaning(t[2][p])]>>
      [] t[1] = "map"     ->
            <<"map", {<<Meaning(KeyAt(t[2], p)), Meaning(t[2][p][2])>> : p \in ValuesOf(t[2])}>>
      [] t[1] = "struct"  ->
            <<"map", {<<<<"str", t[2][p][1]>>, Meaning(t[2][p][2])>> : p \in DOMAIN t[2]}>>
      [] t[1] = "json_number" ->
            LET n == NumberOf(Meaning(t[2][1][2])[2]) IN <<IF n < 0 THEN "i64" ELSE "u64", n>>
      [] OTHER -> t

\* What the grammar can express: no float, no unparsed text, maps whose calls pair up,
\* with keys that are strings or integers and all different, and as a serde_json number
\* one field that means the text of an integer.
RECURSIVE Expressible(_)

Pairs(calls) ==
    /\ \A p \in ValuesOf(calls) : p > 1 /\ calls[p - 1][1] = "key"
    /\ calls # <<>> => calls[Len(calls)][1] = "value"

DistinctKeys(calls) ==
    \A p, q \in ValuesOf(calls) : p # q => Meaning(KeyAt(calls, p)) # Meaning(KeyAt(calls, q))

Expressible(t) ==
    CASE t[1] \in {"float", "raw_json"} -> FALSE
      [] t[1] \in {"newtype", "some"}   -> Expressible(t[2])
      [] t[1] = "variant" -> Expressible(t[3])
      [] t[1] = "seq"     -> \A p \in DOMAIN t[2] : Expressible(t[2][p])
      [] t[1] = "struct"  -> \A p \in DOMAIN t[2] : Expressible(t[2][p][2])
      [] t[1] = "map"     ->
            /\ \A p \in DOMAIN t[2] : Expressible(t[2][p][2])
            /\ \A p \in DOMAIN t[2] :
                t[2][p][1] = "key" => Meaning(t[2][p][2])[1] \in Integer \cup {"str"}
            /\ IF Pairs(t[2]) THEN DistinctKeys(t[2]) ELSE FALSE
      [] t[1] = "json_number" ->
            /\ Len(t[2]) = 1
            /\ t[2][1][1] = "number"
            /\ Expressible(t[2][1][2])
            /\ Meaning(t[2][1][2])[1] = "str"
            /\ LET text == Meaning(t[2][1][2])[2]
                   n == NumberOf(text)
               IN  n \in I64Min..U64Max /\ text = Decimal(n)
      [] OTHER -> TRUE

(***************************************************************************)
(* Reading an item back: what starts at a byte, and where it ends.         *)
(***************************************************************************)
Unreadable == [value |-> <<"unreadable">>, next |-> 0]

Kind(tag) == CHOOSE k \in DOMAIN Tag : Tag[k] = tag

Unsigned(bytes) == FoldLeft(LAMBDA sum, b : sum * 256 + b, 0, bytes)

RECURSIVE Item(_, _), ItemRow(_, _, _)

\* n items in a row.
ItemRow(bytes, at, n) ==
    IF n = 0 THEN [values |-> <<>>, starts |-> <<>>, next |-> at]
    ELSE LET first == Item(bytes, at)
             rest == ItemRow(bytes, first.next, n - 1)
         IN  [values |-> <<first.value>> \o rest.values,
              starts |-> <<SubSeq(bytes, at, first.next - 1)>> \o rest.starts,
              next |-> rest.next]

Item(bytes, at) ==
    LET kind == Kind(bytes[at])
        payload == SubSeq(bytes, at + 1, at + Width[kind])
        length == bytes[at + 1]
        inner == Item(bytes, at + 1)
        named == Item(bytes, inner.next)
        elements == ItemRow(bytes, at + 2, length)
        entries == ItemRow(bytes, at + 2, 2 * length)
        Signed(n) == IF kind = "i64" /\ n >= 256 ^ Width[kind] \div 2 THEN n - 256 ^ Width[kind] ELSE n
    IN  IF at > Len(bytes) THEN Unreadable
        ELSE IF bytes[at] \notin {Tag[k] : k \in DOMAIN Tag} THEN Unreadable
        ELSE CASE kind \in {"unit", "none"} -> [value |-> <<kind>>, next |-> at + 1]
          [] kind \in {"true", "false"} -> [value |-> <<"bool", kind = "true">>, next |-> at + 1]
          [] kind \in Integer -> [value |-> <<kind, Signed(Unsigned(payload))>>, next |-> at + 1 + Width[kind]]
          [] kind \in {"str", "bytes"} ->
                [value |-> <<kind, SubSeq(bytes, at + 2, at + 1 + length)>>, next |-> at + 2 + length]
          [] kind = "some" -> [value |-> <<"some", inner.value>>, next |-> inner.next]
          [] kind = "variant" -> [value |-> <<"variant", inner.value[2], named.value>>, next |-> named.next]
          [] kind = "seq" -> [value |-> <<"seq", elements.values>>, next |-> elements.next]
          [] kind = "map" ->
                IF \A p \in 1..(length - 1) :
                    BytesBefore(entries.starts[2 * p - 1], entries.starts[2 * p + 1])
                THEN [value |-> <<"map", {<<entries.values[2 * p - 1], entries.values[2 * p]>> : p \in 1..length}>>,
                      next |-> entries.next]
                ELSE Unreadable

(***************************************************************************)
(* Properties.                                                             *)
(***************************************************************************)
(***************************************************************************)
(* The encoding of a value reads back as what the value means, to the last *)
(* byte, with its map entries in the one ascending order: so values of     *)
(* different meanings never share their bytes, and neither the order in    *)
(* which a map is iterated nor the way a number is held changes them.      *)
(***************************************************************************)
EncodingReadsBack ==
    LET bytes == encode(tree)
        item == Item(bytes, 1)
    IN  bytes # Refused => item.value = Meaning(tree) /\ item.next = Len(bytes) + 1

(***************************************************************************)
(* Exactly the values the grammar cannot express are refused, however deep *)
(* in a value the offending part is.  A key that follows another key with  *)
(* no value between them replaces it: nothing is said of such calls.       *)
(***************************************************************************)
RECURSIVE KeyAfterKey(_)

KeyAfterKey(t) ==
    CASE t[1] \in {"newtype", "some"} -> KeyAfterKey(t[2])
      [] t[1] = "variant" -> KeyAfterKey(t[3])
      [] t[1] = "seq"     -> \E p \in DOMAIN t[2] : KeyAfterKey(t[2][p])
      [] t[1] = "struct"  -> \E p \in DOMAIN t[2] : KeyAfterKey(t[2][p][2])
      [] t[1] = "map"     ->
            \/ \E p \in 2..Len(t[2]) : t[2][p - 1][1] = "key" /\ t[2][p][1] = "key"
            \/ \E p \in DOMAIN t[2] : KeyAfterKey(t[2][p][2])
      [] OTHER -> FALSE

RefusesWhatItCannotExpress ==
    ~ KeyAfterKey(tree) => (encode(tree) = Refused <=> ~ Expressible(tree))
=============================================================================
