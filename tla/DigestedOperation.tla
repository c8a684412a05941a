-------------------------- MODULE DigestedOperation --------------------------
(***************************************************************************)
(* The operations a caller submits, one after the other, and the bytes     *)
(* each is digested as.  The lifecycle tells a retry from a reuse of its   *)
(* key by the digest alone, so it must be the same for the same operation  *)
(* however it is listed, and different for every other one.                *)
(***************************************************************************)
EXTENDS CanonicalEncoding

CONSTANTS
    Indexes,        \* [namespace, name]
    Ids,            \* member identities: integer trees
    Provenances,    \* trees
    Contents,       \* [family, data]
    Configs,        \* trees
    Retentions      \* trees

DigestAssumption == \A id \in Ids : id[1] \in Integer

VARIABLE op

Members == [id : Ids, provenance : Provenances, content : Contents]

\* Lists without a repeated identity: others are refused before they are encoded.
MemberLists ==
    {<<m>> : m \in Members}
    \cup {l \in Members \X Members : l[1].id # l[2].id}

IdLists == {<<i>> : i \in Ids} \cup {l \in Ids \X Ids : l[1] # l[2]}

None == <<"none">>

Request(index, transition, config, members, ids, retention) ==
    [index |-> index, transition |-> transition, config |-> config, members |-> members,
     ids |-> ids, retention |-> retention]

Operations ==
    UNION {
        {Request(i, "Create", c, <<>>, <<>>, None) : c \in Configs}
        \cup {Request(i, "Insert", None, l, <<>>, None) : l \in MemberLists}
        \cup {Request(i, "Remove", None, <<>>, l, None) : l \in IdLists}
        \cup {Request(i, "Rebuild", c, l, <<>>, None) : c \in Configs, l \in MemberLists}
        \cup {Request(i, "Destroy", None, <<>>, <<>>, r) : r \in Retentions} : i \in Indexes}

Init == op \in Operations

Submit == \E o \in Operations : o.index # op.index /\ op' = o

Spec == Init /\ [][Submit]_op

(***************************************************************************)
(* Two operations are digested alike exactly when they are the same one,   *)
(* their members listed in whatever order: a retry is recognised, and a    *)
(* key reused for anything else is not taken for one.                      *)
(***************************************************************************)
Elements(seq) == {seq[p] : p \in DOMAIN seq}

SameOperation(a, b) ==
    /\ a.index = b.index
    /\ a.transition = b.transition
    /\ a.config = b.config
    /\ Elements(a.members) = Elements(b.members)
    /\ Elements(a.ids) = Elements(b.ids)
    /\ a.retention = b.retention

DigestIdentifiesOperation ==
    \E bytes \in {canonical_bytes(op)} :
        /\ bytes # Refused
        /\ \A o \in Operations : bytes = canonical_bytes(o) <=> SameOperation(op, o)
==============================================================================
