------------------------------ MODULE WriteOnceStore ------------------------------
(***************************************************************************)
(* What the raw layer promises its readers (docs/idempotency.md): a keyed   *)
(* store whose rows are only ever added, at most one per key, and whose     *)
(* acknowledged rows stay in it.                                            *)
(***************************************************************************)
CONSTANT Rows   \* records with at least the field key

VARIABLES
    contents,       \* rows a reader finds
    acknowledged    \* rows some run reported as retained

vars == <<contents, acknowledged>>

OneRowPerKey(rows) == \A x, y \in rows : x.key = y.key => x = y

\* The store starts with whatever rows are there already.
Init ==
    /\ contents \subseteq Rows
    /\ OneRowPerKey(contents)
    /\ acknowledged \subseteq contents

\* New keys appear, in one step as many as one file holds.
Add ==
    /\ contents \subseteq contents' /\ contents' \subseteq Rows
    /\ OneRowPerKey(contents')
    /\ UNCHANGED acknowledged

\* A run reports rows of the store, its own or an earlier run's.
Acknowledge ==
    /\ acknowledged \subseteq acknowledged' /\ acknowledged' \subseteq contents
    /\ UNCHANGED contents

Next == Add \/ Acknowledge

Spec == Init /\ [][Next]_vars
==================================================================================
