----------------------------- MODULE MCIngestionLake -----------------------------
(***************************************************************************)
(* Instances of IngestionLake for TLC.  Keys "a" and "c" are dated on      *)
(* successive days of two months, "a" and "b" on successive days of one.    *)
(***************************************************************************)
EXTENDS IngestionLake, TLC

TwoKeys == {"a", "c"}
DateOfTwo == [k \in TwoKeys |-> IF k = "a" THEN 1 ELSE 2]
PartitionOfTwo == [k \in TwoKeys |-> IF k = "a" THEN 1 ELSE 2]

OneDayKeys == {"a", "b"}
DateOfOneDay == [k \in OneDayKeys |-> 1]
PartitionOfOneDay == [k \in OneDayKeys |-> 1]

\* Runs are backfills, which leave the checkpoint alone; only key "a" is ever
\* corrected and only key "b" defective, and once a row was rejected runs alternate.
BackfillsOfOneRevision ==
    /\ \A w \in Workers : ~job[w].incremental
    /\ source["a"] \notin Defects
    /\ \A k \in Keys \ {"a"} : source[k] \in Defects \cup {Unpublished, CHOOSE v \in Values : TRUE}
    /\ quarantined # {} => \E w \in Workers : pc[w] = "idle"

TwoWriterSymmetry == Permutations(Workers) \cup Permutations(RunIds)
==================================================================================
