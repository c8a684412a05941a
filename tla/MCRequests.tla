----------------------------- MODULE MCRequests -----------------------------
(***************************************************************************)
(* What happens to a request before anything is stored: the checks and     *)
(* what they permit, the encoding of consumer values, the digest of the    *)
(* operation, and the count of how deep a value's JSON nests.  Each        *)
(* behaviour is of one of these, and the others stay as they began.        *)
(*                                                                         *)
(* The checks are given members, values and configurations that meet every *)
(* check at least once.  Values are grown from leaves of every kind, with  *)
(* strings whose bytes look like tags and lengths and numbers at the ends  *)
(* of their ranges; maps have up to four calls around a leaf, and up to    *)
(* two around what that gives.  Operations are digested over two indexes   *)
(* whose namespaces and names run together alike, with values that look    *)
(* like each other's fields.                                               *)
(***************************************************************************)
EXTENDS OperationChecks

CONSTANTS
    MaxWrapping,                            \* EncodedValue
    MaxText, MaxString                      \* JsonNesting

VARIABLES
    part,                                   \* whose behaviour it is
    tree, depth,                            \* EncodedValue
    digested,                               \* DigestedOperation
    text, open, deepest                     \* JsonNesting

all == <<part, vars, tree, depth, digested, text, open, deepest>>

(***************************************************************************)
(* The checks.                                                             *)
(***************************************************************************)
Value(canonical, levels, stable) ==
    [canonical |-> canonical, depth |-> levels, stable |-> stable]

Plain == Value(TRUE, 0, TRUE)
Deepest == Value(TRUE, 64, TRUE)

\* At and past the limit, deep enough to read back alone but not in a record, a
\* float, and a value its JSON does not read back as.
MCValues ==
    {Plain, Deepest, Value(TRUE, 65, TRUE), Value(TRUE, 125, TRUE),
     Value(FALSE, 0, TRUE), Value(TRUE, 0, FALSE), Value(FALSE, 65, FALSE)}

Vector(dimension, finite) ==
    [family |-> "Vector", dimension |-> dimension, finite |-> finite]
Document == [family |-> "Fts", dimension |-> 0, finite |-> TRUE]

Item(id, provenance, content) ==
    [id |-> id, provenance |-> provenance, content |-> content]

MCItems ==
    {Item(1, v, Vector(1, TRUE)) : v \in MCValues}
    \cup {Item(2, Deepest, Vector(1, TRUE)), Item(2, Plain, Vector(2, TRUE)),
          Item(2, Plain, Vector(1, FALSE)), Item(2, Plain, Document),
          Item(1, Plain, Document), Item(1, Plain, Vector(3, TRUE)),
          Item(2, Value(TRUE, 65, TRUE), Vector(1, TRUE))}
    \cup {Item(id, Plain, Vector(1, TRUE)) : id \in {3, 4, 5}}

VectorConfig(dimension, m, ef) ==
    [family |-> "Vector", dimension |-> dimension, m_neighbours |-> m,
     ef_construction |-> ef, pipeline |-> "Simple"]
FtsConfig(pipeline) ==
    [family |-> "Fts", dimension |-> 0, m_neighbours |-> 0, ef_construction |-> 0,
     pipeline |-> pipeline]

MCConfigs ==
    {VectorConfig(1, 1, 1), VectorConfig(2, 1, 1), VectorConfig(1, 0, 1),
     FtsConfig("Simple"), FtsConfig("Advanced")}

(***************************************************************************)
(* The other parts.                                                        *)
(***************************************************************************)
Str(text_bytes) == <<"str", text_bytes>>

Encoding == INSTANCE CanonicalEncoding

MCLeaves ==
    {<<"unit">>, <<"none">>, <<"bool", TRUE>>, <<"u8", 1>>, <<"u64", 1>>,
     <<"u64", Encoding!U64Max>>, <<"i64", -1>>, <<"float">>, <<"raw_json">>,
     <<"bytes", <<97>>>>, Str(<<>>), Str(<<97>>), Str(<<64, 1, 97>>), <<"char", <<49>>>>}

MCSiblings == {Str(<<97>>), <<"u64", 1>>}

\* 1  01  -0  -1  +1, the largest u64 and one more, and the least i64.
MCTexts ==
    {<<49>>, <<48, 49>>, <<45, 48>>, <<45, 49>>, <<43, 49>>, Encoding!Decimal(Encoding!U64Max),
     Encoding!Decimal(Encoding!U64Max + 1), Encoding!Decimal(Encoding!I64Min)}

\* A text each, no field, two fields, and one of another name.
MCNumbers ==
    {<<<<"number", Str(text_bytes)>>>> : text_bytes \in MCTexts}
    \cup {<<>>, <<<<"number", Str(<<49>>)>>, <<"number", Str(<<49>>)>>>>,
          <<<<"other", Str(<<49>>)>>>>}

MCMaxCalls == [d \in 0..1 |-> IF d = 0 THEN 4 ELSE 2]

Encoded == INSTANCE EncodedValue
            WITH Leaves <- MCLeaves, Siblings <- MCSiblings, Numbers <- MCNumbers,
                 MaxCalls <- MCMaxCalls, MaxDepth <- MaxWrapping

Named(namespace, name) == [namespace |-> namespace, name |-> name]

\* A vector and the document whose bytes are its components.
MCContents == {[family |-> "Vector", data |-> <<1, 1>>], [family |-> "Fts", data |-> <<1, 1>>]}

OneField(variant) == <<"variant", variant, <<"struct", <<<<<<100>>, <<"u64", 1>>>>>>>>>>

Digest == INSTANCE DigestedOperation
            WITH Indexes <- {Named(<<97>>, <<97, 98>>), Named(<<97, 97>>, <<98>>)},
                 Ids <- {<<"u64", 1>>, <<"u64", 256>>},
                 Provenances <- {Str(<<100>>),
                                 <<"map", <<<<"key", Str(<<99>>)>>, <<"value", <<"unit">>>>>>>>},
                 Contents <- MCContents,
                 Configs <- {OneField(<<86>>), OneField(<<70>>)},
                 Retentions <- {<<"unit">>, Str(<<114>>)},
                 op <- digested

Nesting == INSTANCE JsonNesting

ASSUME RequestsAssumption == Digest!DigestAssumption /\ Nesting!NestingAssumption

\* Every part begins as it does alone, the ones whose behaviour it is not in one state.
RequestsInit ==
    /\ part \in {"checks", "encoding", "digest", "nesting"}
    /\ Init
    /\ \/ part = "encoding" /\ Encoded!Init
       \/ part # "encoding" /\ tree = <<"unit">> /\ depth = 0
    /\ \/ part = "digest" /\ Digest!Init
       \/ part # "digest" /\ digested = "none"
    /\ Nesting!Init

RequestsNext ==
    \/ part = "checks" /\ Next /\ UNCHANGED <<part, tree, depth, digested, text, open, deepest>>
    \/ part = "encoding" /\ Encoded!Wrap /\ UNCHANGED <<part, vars, digested, text, open, deepest>>
    \/ part = "digest" /\ Digest!Submit /\ UNCHANGED <<part, vars, tree, depth, text, open, deepest>>
    \/ part = "nesting" /\ Nesting!Next /\ UNCHANGED <<part, vars, tree, depth, digested>>

RequestsSpec == RequestsInit /\ [][RequestsNext]_all

(***************************************************************************)
(* Properties of the other parts; OperationChecks states its own.          *)
(***************************************************************************)
\* Exactly the values the grammar cannot express are refused, however deep the
\* offending part is, and what any other is encoded as reads back as what it means, to
\* the last byte, whatever order its map entries come in (encode, MapEncoder,
\* serde_json_number_item).
EncodingIsFaithful ==
    part = "encoding" => Encoded!RefusesWhatItCannotExpress /\ Encoded!EncodingReadsBack

\* Two operations are digested alike exactly when they are the same, their members
\* listed in whatever order (operation_digest).
DigestIdentifiesOperation == part = "digest" => Digest!DigestIdentifiesOperation

\* The depth counted over bytes is the nesting the text was written with (json_depth).
DepthIsNesting == part = "nesting" => Nesting!DepthIsNesting
=============================================================================
