-------------------------------- MODULE Compaction --------------------------------
(***************************************************************************)
(* compact_partition (ingestion/compaction.py) composed with the ingestion  *)
(* runs of IngestionLake.  Both work on the same directories: the compactor *)
(* holds month=MM.compaction.lock while it copies the month into one file   *)
(* and swaps the directory; a run looks at the lock once, just before the   *)
(* rename of _promote_partition.                                            *)
(***************************************************************************)
EXTENDS IngestionLake

CONSTANT CompactionIds   \* compaction_id; a new UUID for every compaction

ASSUME CompactionNamesAssumption ==
    CompactionIds \subseteq FileNames /\ CompactionIds \cap RunIds = {}

VARIABLES
    archive,    \* archive[id]: the directory moved to archive/.../<id>, per file
    recorded,   \* compactions whose metadata file exists
    cpc,        \* what the compactor does next
    compaction  \* the compactor's local variables

cvars == <<archive, recorded, cpc, compaction>>
allvars == <<vars, cvars>>

NoCompaction == [id |-> Unpublished, part |-> 0, unique |-> 0, rows |-> {}]

NoDirectory == [n \in FileNames |-> {}]

\* The files of partition p, and the rows a glob over them returns.
Directory(p) == [n \in FileNames |-> final[<<p, n>>]]
RowsIn(p) == UNION {final[<<p, n>>] : n \in FileNames}

ArchivedRows == UNION {archive[i][n] : i \in CompactionIds, n \in FileNames}

\* A directory can be renamed onto p only while p is missing or empty.
Replaceable(p) == RowsIn(p) = {}

CTypeOK ==
    /\ TypeOK
    /\ archive \in [CompactionIds -> [FileNames -> SUBSET Rows]]
    /\ recorded \subseteq CompactionIds
    /\ cpc \in {"idle", "count", "copy", "archive", "swap", "record", "unlock"}
    /\ IF cpc = "idle" THEN compaction = NoCompaction
       ELSE compaction \in [id : CompactionIds, part : locked, unique : Nat, rows : SUBSET Rows]

CInit ==
    /\ Init
    /\ archive = [i \in CompactionIds |-> NoDirectory]
    /\ recorded = {}
    /\ cpc = "idle"
    /\ compaction = NoCompaction

\* The rest of the lake, as a step of the compactor on final, dirs and locked leaves it.
LakeRest == <<source, staged, quarantined, audit, manifest, ckpt, pc, job, history>>

\* The finally clause: the lock goes, whatever happened.
Leave ==
    /\ cpc' = "idle" /\ compaction' = NoCompaction
    /\ locked' = locked \ {compaction.part}

-----------------------------------------------------------------------------
\* How _promote_partition ends a run beside a compaction, and only there.

\* RuntimeError: the partition is locked for compaction.
RefuseLocked(w) ==
    /\ pc[w] = "check"
    /\ \E p \in Partitions :
          /\ IsNext(w, p)
          /\ ~Unlocked(p)
          /\ dirs' = dirs \cup {p}
    /\ End(w)
    /\ UNCHANGED <<source, final, staged, locked, quarantined, audit, manifest, ckpt,
                   history, cvars>>

\* FileNotFoundError: the directory was renamed away after the check.
PromoteNowhere(w) ==
    /\ pc[w] = "promote"
    /\ \E p \in Partitions : IsNext(w, p) /\ p \notin dirs
    /\ End(w)
    /\ UNCHANGED <<source, disk, history, cvars>>

\* One of the two.
Obstructed(w) == RefuseLocked(w) \/ PromoteNowhere(w)

-----------------------------------------------------------------------------
\* Variant: the lock file is not created.
LockedNow(p) == locked

LockedWith(p) == locked \cup {p}

\* The small-file threshold and the exclusive creation of the lock.
Begin(p, i) ==
    /\ cpc = "idle"
    /\ \E m, n \in FileNames : m # n /\ final[<<p, m>>] # {} /\ final[<<p, n>>] # {}
    /\ p \notin locked
    /\ archive[i] = NoDirectory /\ \A q \in Partitions : final[<<q, i>>] = {}
    /\ locked' = LockedWith(p)
    /\ cpc' = "count"
    /\ compaction' = [NoCompaction EXCEPT !.id = i, !.part = p]
    /\ UNCHANGED <<final, dirs, LakeRest, archive, recorded>>

\* unique_before, unless the keys conflict.
CountKeys ==
    /\ cpc = "count"
    /\ ~Conflicting(RowsIn(compaction.part))
    /\ compaction' = [compaction EXCEPT !.unique = Cardinality(KeysOf(RowsIn(compaction.part)))]
    /\ cpc' = "copy"
    /\ UNCHANGED <<final, dirs, locked, LakeRest, archive, recorded>>

\* COPY one row per key; then rows_after is compared with unique_before.
CopyRows ==
    /\ cpc = "copy"
    /\ \E rows \in SUBSET RowsIn(compaction.part) :
          /\ ~Conflicting(rows)
          /\ KeysOf(rows) = KeysOf(RowsIn(compaction.part))
          /\ Cardinality(rows) = compaction.unique
          /\ compaction' = [compaction EXCEPT !.rows = rows]
    /\ cpc' = "archive"
    /\ UNCHANGED <<final, dirs, locked, LakeRest, archive, recorded>>

\* CompactionError: conflicting keys, or rows that appeared between count and copy.
RefuseCompaction ==
    /\ \/ cpc = "count" /\ Conflicting(RowsIn(compaction.part))
       \/ cpc = "copy" /\ Cardinality(KeysOf(RowsIn(compaction.part))) # compaction.unique
    /\ Leave
    /\ UNCHANGED <<final, dirs, LakeRest, archive, recorded>>

\* Variant: the originals are deleted instead of kept.
DeleteOriginals ==
    /\ cpc = "archive"
    /\ final' = [a \in Artifacts |-> IF a[1] = compaction.part THEN {} ELSE final[a]]
    /\ dirs' = dirs \ {compaction.part}
    /\ cpc' = "swap"
    /\ UNCHANGED <<locked, LakeRest, archive, recorded, compaction>>

\* os.replace(partition, archive).
MoveToArchive ==
    /\ cpc = "archive"
    /\ archive' = [archive EXCEPT ![compaction.id] = Directory(compaction.part)]
    /\ final' = [a \in Artifacts |-> IF a[1] = compaction.part THEN {} ELSE final[a]]
    /\ dirs' = dirs \ {compaction.part}
    /\ cpc' = "swap"
    /\ UNCHANGED <<locked, LakeRest, recorded, compaction>>

\* os.replace(staged_partition, partition).
SwapIn ==
    /\ cpc = "swap"
    /\ Replaceable(compaction.part)
    /\ final' = [final EXCEPT ![<<compaction.part, compaction.id>>] = compaction.rows]
    /\ dirs' = dirs \cup {compaction.part}
    /\ cpc' = "record"
    /\ UNCHANGED <<locked, LakeRest, archive, recorded, compaction>>

\* The archived directory is renamed back.
Restored(p, i) ==
    /\ final' = [a \in Artifacts |-> IF a[1] = p THEN archive[i][a[2]] ELSE final[a]]
    /\ archive' = [archive EXCEPT ![i] = NoDirectory]
    /\ dirs' = dirs \cup {p}

\* The promotion of the new directory fails on the host and the inner handler
\* puts the originals back, over a missing or an empty directory.
RollBack ==
    /\ cpc = "swap"
    /\ Replaceable(compaction.part)
    /\ Restored(compaction.part, compaction.id)
    /\ Leave
    /\ UNCHANGED <<LakeRest, recorded>>

\* A run has put a file where the new directory goes: neither the promotion nor
\* the rename back succeeds, and the outer handler finds the partition present.
StrandOriginals ==
    /\ cpc = "swap"
    /\ ~Replaceable(compaction.part)
    /\ Leave
    /\ UNCHANGED <<final, dirs, LakeRest, archive, recorded>>

\* An exception between the two renames; the outer handler restores the
\* originals only if no directory is in the way.
Interrupt ==
    /\ cpc = "swap"
    /\ IF compaction.part \in dirs THEN UNCHANGED <<final, archive, dirs>>
       ELSE Restored(compaction.part, compaction.id)
    /\ Leave
    /\ UNCHANGED <<LakeRest, recorded>>

\* The metadata file.
Record ==
    /\ cpc = "record"
    /\ recorded' = recorded \cup {compaction.id}
    /\ cpc' = "unlock"
    /\ UNCHANGED <<final, dirs, locked, LakeRest, archive, compaction>>

\* The return, or an exception outside the swap: only the lock goes.
Finish ==
    /\ cpc \in {"count", "copy", "archive", "record", "unlock"}
    /\ Leave
    /\ UNCHANGED <<final, dirs, LakeRest, archive, recorded>>

\* Variant: the lock goes with the process that holds it.
KillReleasing ==
    /\ cpc # "idle"
    /\ Leave
    /\ UNCHANGED <<final, dirs, LakeRest, archive, recorded>>

\* SIGKILL: no handler runs and the lock file stays.
KillCompactor ==
    /\ cpc # "idle"
    /\ cpc' = "idle" /\ compaction' = NoCompaction
    /\ UNCHANGED <<final, dirs, locked, LakeRest, archive, recorded>>

Compactor ==
    \/ \E p \in Partitions, i \in CompactionIds : Begin(p, i)
    \/ CountKeys \/ CopyRows \/ RefuseCompaction
    \/ MoveToArchive \/ SwapIn \/ RollBack \/ StrandOriginals \/ Interrupt
    \/ Record \/ Finish \/ KillCompactor

CNext ==
    \/ Next /\ UNCHANGED cvars
    \/ \E w \in Workers : Obstructed(w)
    \/ Compactor

CSpec == CInit /\ [][CNext]_allvars

(***************************************************************************)
(* The operator's discipline: compaction and ingestion are not started      *)
(* while the other one is in progress.  A killed process is not in progress,*)
(* so runs do start behind the lock of a killed compaction.                 *)
(***************************************************************************)
Quiet ==
    /\ cpc = "idle" /\ cpc' # "idle" => \A w \in Workers : pc[w] = "idle"
    /\ \A w \in Workers : pc[w] = "idle" /\ pc'[w] # "idle" => cpc = "idle"

QuietSpec == CInit /\ [][CNext /\ Quiet]_allvars

-----------------------------------------------------------------------------
(* Properties. *)

\* No acknowledged row is ever destroyed: it is in the final files or in an
\* archived directory, also when compaction and ingestion race or are killed.
AckedRecoverable == acked \subseteq Lake \cup ArchivedRows

\* "The command locks the partition against ingestion" (docs/compaction.md:10):
\* wherever no compaction lock stands, every acknowledged row is readable.
UnlockedPartitionsComplete ==
    \A r \in acked : PartitionOf[r.key] \notin locked => r \in Lake

\* "The command locks the partition against ingestion": when a compaction ends
\* with success, no acknowledged row of its partition has been swapped away.
CompactionKeepsRows ==
    [][cpc = "unlock" => \A r \in acked : PartitionOf[r.key] = compaction.part => r \in Lake]_allvars

\* A compaction's record is written only for an archive that holds at least the
\* rows of the file that replaced it, so that time travel finds the originals.
RecordedArchivesComplete ==
    \A i \in recorded : \A p \in Partitions :
        final[<<p, i>>] \subseteq UNION {archive[i][n] : n \in FileNames}

\* Final and archived rows together still are a write-once keyed store.
Kept == INSTANCE WriteOnceStore WITH contents <- Lake \cup ArchivedRows, acknowledged <- acked
KeptSpec == Kept!Spec
==================================================================================
