---------------------------- MODULE IndexHistory ----------------------------
(***************************************************************************)
(* What a caller of the lifecycle may rely on, without stages, locks,      *)
(* crashes or retries: every index is absent, then active at versions 1,   *)
(* 2, ..., then possibly destroyed for good; each operation key takes      *)
(* effect at most once, all at once, on the version before it; and the     *)
(* content of a member is what the last operation that named it left.      *)
(***************************************************************************)
EXTENDS Integers

CONSTANTS Indexes, Members, Operations, None

VARIABLE state      \* per index: kind, version, config, contents, keys applied

Nothing == [m \in Members |-> None]

Init == state = [i \in Indexes |->
                    [kind |-> "Absent", version |-> 0, config |-> None,
                     contents |-> Nothing, applied |-> {}]]

\* The member contents `o' leaves, given those it finds.
After(o, contents) ==
    CASE o.transition \in {"Create", "Destroy"} -> Nothing
      [] o.transition = "Insert" ->
            [m \in Members |-> IF o.items[m] = None THEN contents[m] ELSE o.items[m].content]
      [] o.transition = "Remove" ->
            [m \in Members |-> IF m \in o.ids THEN None ELSE contents[m]]
      [] o.transition = "Rebuild" ->
            [m \in Members |-> IF o.items[m] = None THEN None ELSE o.items[m].content]

Apply(o) ==
    LET s == state[o.index]
    IN  /\ o.key \notin s.applied
        /\ s.kind = IF o.transition = "Create" THEN "Absent" ELSE "Active"
        /\ state' = [state EXCEPT ![o.index] =
              [kind |-> IF o.transition = "Destroy" THEN "Destroyed" ELSE "Active",
               version |-> IF o.transition = "Destroy" THEN s.version ELSE s.version + 1,
               config |-> IF o.transition \in {"Create", "Rebuild"} THEN o.config
                                                                  ELSE s.config,
               contents |-> After(o, s.contents),
               applied |-> s.applied \cup {o.key}]]

Next == \E o \in Operations : Apply(o)

Spec == Init /\ [][Next]_state
=============================================================================
