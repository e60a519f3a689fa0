----------------------------- MODULE MCDatasetBuilds -----------------------------
(***************************************************************************)
(* One month with two rows: three files that runs promote and two             *)
(* compactions are enough for a file between a copy and a swap, for a name    *)
(* that is used again, and for an archive of a compacted file.                *)
(***************************************************************************)
EXTENDS DatasetBuilds, TLC

CONSTANTS a, b

Yearly == [p \in Months |-> p]
Two == [p \in {1} |-> {a, b}]

RowAndRunSymmetry == Permutations({a, b}) \cup Permutations(RunIds)
==================================================================================
