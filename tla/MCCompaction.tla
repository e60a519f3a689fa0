------------------------------- MODULE MCCompaction -------------------------------
(***************************************************************************)
(* Instances of Compaction for TLC.  The initial state is the one two       *)
(* completed runs leave behind, a month with two one-row files, once the    *)
(* provider has published a third row, well-formed or not.                  *)
(***************************************************************************)
EXTENDS Compaction, TLC

CONSTANTS First, Second   \* the files of two earlier runs

ThreeSymbols == {"a", "b", "c"}
SameDay == [k \in ThreeSymbols |-> 1]
SameMonth == [k \in ThreeSymbols |-> 1]

RowOf(k) == [key |-> k, val |-> CHOOSE v \in Values : TRUE]

SeededInit ==
    /\ \E third \in {RowOf("c").val} \cup Defects :
          source = [k \in Keys |-> IF k = "c" THEN third ELSE RowOf(k).val]
    /\ final = [a \in Artifacts |-> IF a[2] = First THEN {RowOf("a")}
                                    ELSE IF a[2] = Second THEN {RowOf("b")} ELSE {}]
    /\ staged = [a \in Artifacts |-> {}]
    /\ dirs = Partitions
    /\ locked = {}
    /\ quarantined = {}
    /\ audit = [r \in RunIds |-> "none"]
    /\ manifest = [r \in RunIds |-> "none"]
    /\ ckpt = 0
    /\ pc = [w \in Workers |-> "idle"]
    /\ job = [w \in Workers |-> NoJob]
    /\ acked = {RowOf("a"), RowOf("b")}
    /\ late = {}
    /\ horizon = 0
    /\ archive = [i \in CompactionIds |-> NoDirectory]
    /\ recorded = {}
    /\ cpc = "idle"
    /\ compaction = NoCompaction

\* Runs are backfills here; incremental runs differ only after the manifest.
BackfillsOnly == \A w \in Workers : ~job[w].incremental

WriterSymmetry == Permutations(Workers) \cup Permutations(RunIds)

SeededSpec == SeededInit /\ [][CNext]_allvars
SeededQuietSpec == SeededInit /\ [][CNext /\ Quiet]_allvars
==================================================================================
