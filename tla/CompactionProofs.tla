----------------------------- MODULE CompactionProofs -----------------------------
(***************************************************************************)
(* Theorems about Compaction.  The first part is about compactions that     *)
(* race with ingestion and are killed at any step: nothing acknowledged is  *)
(* ever destroyed.  The second is about compactions the operator keeps      *)
(* apart from runs: nothing is even hidden, except behind the lock of a     *)
(* killed compaction.                                                       *)
(***************************************************************************)
EXTENDS Compaction, IngestionLakeProofs

-----------------------------------------------------------------------------
(* Racing compactions. *)

\* What is left of everything that was ever promoted.
KeptRows == Lake \cup ArchivedRows

\* The rows of one archived directory.
ArchiveOf(i) == UNION {archive[i][n] : n \in FileNames}

\* A run's rows are kept, if only in an archive.
RunsKept == DistinctRuns /\ \A w \in Workers : RunKeeps(w, KeptRows) /\ TargetFree(w)

FilesInDirectories == \A a \in Artifacts : final[a] # {} => a[1] \in dirs

\* A compaction's file, wherever it is now, holds rows of the compaction's archive.
ArchivesHold ==
    \A i \in CompactionIds :
        /\ \A p \in Partitions : final[<<p, i>>] \subseteq ArchiveOf(i)
        /\ \A k \in CompactionIds : archive[k][i] \subseteq ArchiveOf(i)

\* Between its two renames a compaction has its originals in the archive, its own
\* file nowhere yet, and no run is about to promote onto one of the originals.
Swapping ==
    /\ compaction.rows \subseteq ArchiveOf(compaction.id)
    /\ \A p \in Partitions : final[<<p, compaction.id>>] = {}
    /\ \A k \in CompactionIds : archive[k][compaction.id] = {}
    /\ \A w \in Workers : pc[w] = "promote" /\ IsNext(w, compaction.part) =>
          archive[compaction.id][job[w].id] = {}

CopyInv ==
    /\ cpc \in {"count", "copy", "archive"} => archive[compaction.id] = NoDirectory
    /\ cpc = "archive" => compaction.rows \subseteq RowsIn(compaction.part)
    /\ cpc = "swap" => Swapping

RaceInv ==
    /\ CTypeOK
    /\ RunsKept
    /\ AckedRecoverable
    /\ FilesInDirectories
    /\ ArchivesHold
    /\ CopyInv

-----------------------------------------------------------------------------
(* Types. *)

LEMMA CompactionIdType ==
  ASSUME NEW i \in CompactionIds
  PROVE  i \in FileNames /\ i \notin RunIds
  BY CompactionNamesAssumption

LEMMA RowsInType ==
  ASSUME TypeOK, NEW p \in Partitions
  PROVE  /\ RowsIn(p) \subseteq Lake /\ RowsIn(p) \subseteq Rows
         /\ Directory(p) \in [FileNames -> SUBSET Rows]
         /\ IsFiniteSet(KeysOf(RowsIn(p))) /\ Cardinality(KeysOf(RowsIn(p))) \in Nat
<1>1. RowsIn(p) \subseteq Lake /\ Directory(p) \in [FileNames -> SUBSET Rows]
  BY DEF TypeOK, RowsIn, Lake, Directory, Artifacts
<1>2. RowsIn(p) \in SUBSET Rows
  BY <1>1, LakeType
<1> QED
  BY <1>1, <1>2, KeysFinite

\* The run's ends beside a compaction.
LEMMA ObstructedStep ==
  ASSUME TypeOK, DistinctRuns, NEW w \in Workers, Obstructed(w)
  PROVE  /\ TypeOK' /\ DistinctRuns' /\ Frame(w) /\ pc[w] # "idle"
         /\ UNCHANGED <<final, staged, acked, locked, cvars>> /\ dirs \subseteq dirs'
         /\ (\A next : RunKeeps(w, next)') /\ TargetFree(w)'
<1>1. /\ End(w) /\ pc[w] # "idle" /\ dirs \subseteq dirs' /\ dirs' \subseteq Partitions
      /\ UNCHANGED <<source, final, staged, locked, quarantined, audit, manifest, ckpt,
                     history, cvars>>
  BY DEF Obstructed, RefuseLocked, PromoteNowhere, disk, TypeOK
<1>2. TypeOK'
  BY <1>1, EndType DEF TypeOK, history
<1>3. Frame(w) /\ pc'[w] = "idle"
  BY <1>1 DEF Frame, End, Goto, TypeOK, RunsTypeOK
<1>4. DistinctRuns'
  BY <1>3 DEF DistinctRuns, Frame
<1>5. (\A next : RunKeeps(w, next)') /\ TargetFree(w)'
  BY <1>3, NoPromisesNext
<1> QED
  BY <1>1, <1>2, <1>3, <1>4, <1>5 DEF history

\* A compactor at work: its variables, and the partition it has locked.
LEMMA CompactionType ==
  ASSUME CTypeOK, cpc # "idle"
  PROVE  /\ compaction \in [id : CompactionIds, part : locked, unique : Nat, rows : SUBSET Rows]
         /\ compaction.id \in CompactionIds /\ compaction.id \in FileNames
         /\ compaction.id \notin RunIds
         /\ compaction.part \in locked /\ compaction.part \in Partitions
         /\ compaction.rows \subseteq Rows /\ compaction.rows \in SUBSET Rows
  BY CompactionIdType DEF CTypeOK, TypeOK

\* The steps of the compactor that rename nothing.
Computes ==
    \/ \E p \in Partitions, i \in CompactionIds : Begin(p, i)
    \/ CountKeys \/ CopyRows \/ RefuseCompaction \/ StrandOriginals
    \/ Interrupt /\ compaction.part \in dirs
    \/ Record \/ Finish \/ KillCompactor

\* The archived directory is renamed back over a missing or an empty one.
RestoresBack ==
    /\ cpc = "swap" /\ RowsIn(compaction.part) = {}
    /\ Restored(compaction.part, compaction.id) /\ Leave
    /\ UNCHANGED <<LakeRest, recorded>>

LEMMA CompactorCases ==
  ASSUME CTypeOK, FilesInDirectories, Compactor
  PROVE  Computes \/ MoveToArchive \/ SwapIn \/ RestoresBack
<1>1. ASSUME Interrupt, compaction.part \notin dirs PROVE RestoresBack
  <2>1. compaction.part \in Partitions
    BY <1>1, CompactionType DEF Interrupt
  <2>2. \A n \in FileNames : final[<<compaction.part, n>>] = {}
    BY <1>1, <2>1 DEF FilesInDirectories, Artifacts
  <2>3. RowsIn(compaction.part) = {}
    BY <2>2 DEF RowsIn
  <2> QED
    BY <1>1, <2>3 DEF Interrupt, RestoresBack
<1>2. ASSUME RollBack PROVE RestoresBack
  BY <1>2 DEF RollBack, RestoresBack, Replaceable
<1> QED
  BY <1>1, <1>2 DEF Compactor, Computes

LEMMA CompactorRest == ASSUME Compactor PROVE UNCHANGED LakeRest
  BY DEF Compactor, Begin, CountKeys, CopyRows, RefuseCompaction, MoveToArchive, SwapIn, RollBack,
         StrandOriginals, Interrupt, Record, Finish, KillCompactor

LEMMA ComputesType ==
  ASSUME CTypeOK, Computes
  PROVE  CTypeOK' /\ UNCHANGED <<final, dirs, archive>>
<1> USE DEF CTypeOK, LakeRest, history
<1>1. ASSUME NEW p \in Partitions, NEW i \in CompactionIds, Begin(p, i)
      PROVE  CTypeOK' /\ UNCHANGED <<final, dirs, archive>>
  BY <1>1 DEF Begin, TypeOK, RunsTypeOK, LockedWith, NoCompaction
<1>2. CASE CountKeys
  <2>1. compaction.part \in Partitions
    BY <1>2, CompactionType DEF CountKeys
  <2>2. Cardinality(KeysOf(RowsIn(compaction.part))) \in Nat
    BY <2>1, RowsInType
  <2> QED
    BY <1>2, <2>2 DEF CountKeys, TypeOK, RunsTypeOK
<1>3. CASE CopyRows
  <2>1. compaction.part \in Partitions
    BY <1>3, CompactionType DEF CopyRows
  <2>2. RowsIn(compaction.part) \subseteq Rows
    BY <2>1, RowsInType
  <2> QED
    BY <1>3, <2>2 DEF CopyRows, TypeOK, RunsTypeOK
<1>4. CASE Record
  BY <1>4 DEF Record, TypeOK, RunsTypeOK
<1>5. CASE RefuseCompaction \/ StrandOriginals \/ (Interrupt /\ compaction.part \in dirs)
           \/ Finish
  BY <1>5 DEF RefuseCompaction, StrandOriginals, Interrupt, Finish, Leave, TypeOK, RunsTypeOK
<1>6. CASE KillCompactor
  BY <1>6 DEF KillCompactor, TypeOK, RunsTypeOK
<1> QED
  BY <1>1, <1>2, <1>3, <1>4, <1>5, <1>6 DEF Computes

LEMMA RenamesType ==
  ASSUME CTypeOK, MoveToArchive \/ SwapIn \/ RestoresBack
  PROVE  CTypeOK'
<1> USE DEF CTypeOK, LakeRest, history
<1>1. CASE MoveToArchive
  <2>1. Directory(compaction.part) \in [FileNames -> SUBSET Rows]
    BY <1>1, CompactionType, RowsInType DEF MoveToArchive
  <2> QED
    BY <1>1, <2>1 DEF MoveToArchive, TypeOK, RunsTypeOK
<1>2. CASE SwapIn
  BY <1>2, CompactionType DEF SwapIn, TypeOK, RunsTypeOK
<1>3. CASE RestoresBack
  <2>1. NoDirectory \in [FileNames -> SUBSET Rows]
    BY DEF NoDirectory
  <2>2. \A a \in Artifacts : archive[compaction.id][a[2]] \in SUBSET Rows
    BY <1>3, CompactionType DEF RestoresBack, Artifacts
  <2>3. compaction.part \in Partitions
    BY <1>3, CompactionType DEF RestoresBack
  <2> QED
    BY <1>3, <2>1, <2>2, <2>3 DEF RestoresBack, Restored, Leave, TypeOK, RunsTypeOK
<1> QED
  BY <1>1, <1>2, <1>3
-----------------------------------------------------------------------------
(* What the compactor's steps do to the rows. *)

\* Where a kept row is found.
LEMMA LakeRow ==
  ASSUME NEW r
  PROVE  r \in Lake <=> \E q \in Partitions, n \in FileNames : r \in final[<<q, n>>]
<1>1. ASSUME r \in Lake PROVE \E q \in Partitions, n \in FileNames : r \in final[<<q, n>>]
  <2>1. PICK a \in Partitions \X FileNames : r \in final[a]
    BY <1>1 DEF Lake, Artifacts
  <2> QED
    BY <2>1
<1>2. ASSUME NEW q \in Partitions, NEW n \in FileNames, r \in final[<<q, n>>] PROVE r \in Lake
  <2>1. <<q, n>> \in Artifacts
    BY DEF Artifacts
  <2> QED
    BY <1>2, <2>1 DEF Lake
<1> QED
  BY <1>1, <1>2

LEMMA LakeRowNext ==
  ASSUME NEW r
  PROVE  r \in Lake' <=> \E q \in Partitions, n \in FileNames : r \in final'[<<q, n>>]
<1>1. ASSUME r \in Lake' PROVE \E q \in Partitions, n \in FileNames : r \in final'[<<q, n>>]
  <2>1. PICK a \in Partitions \X FileNames : r \in final'[a]
    BY <1>1 DEF Lake, Artifacts
  <2> QED
    BY <2>1
<1>2. ASSUME NEW q \in Partitions, NEW n \in FileNames, r \in final'[<<q, n>>] PROVE r \in Lake'
  <2>1. <<q, n>> \in Artifacts
    BY DEF Artifacts
  <2> QED
    BY <1>2, <2>1 DEF Lake
<1> QED
  BY <1>1, <1>2

LEMMA ArchivedRow ==
  ASSUME NEW r
  PROVE  /\ r \in ArchivedRows <=> \E i \in CompactionIds : r \in ArchiveOf(i)
         /\ \A i : r \in ArchiveOf(i) <=> \E n \in FileNames : r \in archive[i][n]
         /\ r \in ArchivedRows' <=> \E i \in CompactionIds : r \in ArchiveOf(i)'
         /\ \A i : r \in ArchiveOf(i)' <=> \E n \in FileNames : r \in archive'[i][n]
<1>1. \A i : r \in ArchiveOf(i) <=> \E n \in FileNames : r \in archive[i][n]
  BY DEF ArchiveOf
<1>2. \A i : r \in ArchiveOf(i)' <=> \E n \in FileNames : r \in archive'[i][n]
  BY DEF ArchiveOf
<1>3. r \in ArchivedRows <=> \E i \in CompactionIds, n \in FileNames : r \in archive[i][n]
  BY DEF ArchivedRows
<1>4. r \in ArchivedRows' <=> \E i \in CompactionIds, n \in FileNames : r \in archive'[i][n]
  BY DEF ArchivedRows
<1> QED
  BY <1>1, <1>2, <1>3, <1>4

\* What the three renames do, file by file.
LEMMA MoveEffect ==
  ASSUME CTypeOK, CopyInv, MoveToArchive
  PROVE  LET p == compaction.part
             i == compaction.id
         IN  /\ p \in Partitions /\ i \in CompactionIds /\ i \in FileNames
             /\ \A q \in Partitions, n \in FileNames :
                   final'[<<q, n>>] = IF q = p THEN {} ELSE final[<<q, n>>]
             /\ \A k \in CompactionIds, n \in FileNames :
                   archive'[k][n] = IF k = i THEN final[<<p, n>>] ELSE archive[k][n]
             /\ \A n \in FileNames : archive[i][n] = {}
<1>1. compaction.part \in Partitions /\ compaction.id \in CompactionIds
      /\ compaction.id \in FileNames /\ archive[compaction.id] = NoDirectory
  BY CompactionType DEF MoveToArchive, CopyInv
<1>2. \A q \in Partitions, n \in FileNames :
        final'[<<q, n>>] = IF q = compaction.part THEN {} ELSE final[<<q, n>>]
  BY DEF MoveToArchive, Artifacts
<1>3. archive' = [archive EXCEPT ![compaction.id] = Directory(compaction.part)]
  BY DEF MoveToArchive
<1>4. archive'[compaction.id] = Directory(compaction.part)
      /\ \A k \in CompactionIds \ {compaction.id} : archive'[k] = archive[k]
  BY <1>1, <1>3 DEF CTypeOK
<1> QED
  BY <1>1, <1>2, <1>4 DEF NoDirectory, Directory

LEMMA SwapEffect ==
  ASSUME CTypeOK, CopyInv, SwapIn
  PROVE  LET p == compaction.part
             i == compaction.id
         IN  /\ p \in Partitions /\ i \in CompactionIds /\ i \in FileNames
             /\ \A q \in Partitions, n \in FileNames :
                   final'[<<q, n>>] = IF q = p /\ n = i THEN compaction.rows ELSE final[<<q, n>>]
             /\ UNCHANGED archive
             /\ final[<<p, i>>] = {} /\ compaction.rows \subseteq ArchiveOf(i)
<1>1. /\ compaction.part \in Partitions /\ compaction.id \in CompactionIds
      /\ compaction.id \in FileNames /\ Swapping
  BY CompactionType DEF SwapIn, CopyInv
<1>2. /\ final' = [final EXCEPT ![<<compaction.part, compaction.id>>] = compaction.rows]
      /\ UNCHANGED archive
  BY DEF SwapIn
<1>3. \A q \in Partitions, n \in FileNames :
        final'[<<q, n>>] = IF q = compaction.part /\ n = compaction.id
                           THEN compaction.rows ELSE final[<<q, n>>]
  BY <1>1, <1>2 DEF CTypeOK, TypeOK, Artifacts
<1> QED
  BY <1>1, <1>2, <1>3 DEF Swapping

LEMMA RestoreEffect ==
  ASSUME CTypeOK, RestoresBack
  PROVE  LET p == compaction.part
             i == compaction.id
         IN  /\ p \in Partitions /\ i \in CompactionIds /\ i \in FileNames
             /\ \A q \in Partitions, n \in FileNames :
                   final'[<<q, n>>] = IF q = p THEN archive[i][n] ELSE final[<<q, n>>]
             /\ \A k \in CompactionIds, n \in FileNames :
                   archive'[k][n] = IF k = i THEN {} ELSE archive[k][n]
             /\ \A n \in FileNames : final[<<p, n>>] = {}
<1>1. compaction.part \in Partitions /\ compaction.id \in CompactionIds
      /\ compaction.id \in FileNames
  BY CompactionType DEF RestoresBack
<1>2. \A n \in FileNames : final[<<compaction.part, n>>] = {}
  BY DEF RestoresBack, RowsIn
<1>3. /\ final' = [a \in Artifacts |-> IF a[1] = compaction.part
                                       THEN archive[compaction.id][a[2]] ELSE final[a]]
      /\ archive' = [archive EXCEPT ![compaction.id] = NoDirectory]
  BY DEF RestoresBack, Restored
<1>4. \A q \in Partitions, n \in FileNames :
        final'[<<q, n>>] = IF q = compaction.part THEN archive[compaction.id][n] ELSE final[<<q, n>>]
  BY <1>3 DEF Artifacts
<1>5. archive'[compaction.id] = NoDirectory
      /\ \A k \in CompactionIds \ {compaction.id} : archive'[k] = archive[k]
  BY <1>1, <1>3 DEF CTypeOK
<1> QED
  BY <1>1, <1>2, <1>4, <1>5 DEF NoDirectory

\* The compactor moves rows and makes a second copy of some: none is lost.
LEMMA CompactorKeeps ==
  ASSUME CTypeOK, CopyInv, Computes \/ MoveToArchive \/ SwapIn \/ RestoresBack
  PROVE  KeptRows' = KeptRows
<1> SUFFICES ASSUME NEW r PROVE r \in KeptRows' <=> r \in KeptRows
  OBVIOUS
<1>1. r \in KeptRows <=> \/ \E q \in Partitions, n \in FileNames : r \in final[<<q, n>>]
                         \/ \E i \in CompactionIds, n \in FileNames : r \in archive[i][n]
  BY LakeRow, ArchivedRow DEF KeptRows
<1>2. r \in KeptRows' <=> \/ \E q \in Partitions, n \in FileNames : r \in final'[<<q, n>>]
                          \/ \E i \in CompactionIds, n \in FileNames : r \in archive'[i][n]
  BY LakeRowNext, ArchivedRow DEF KeptRows
<1>3. CASE Computes
  BY <1>1, <1>2, <1>3, ComputesType
<1>4. CASE MoveToArchive
  <2> DEFINE p == compaction.part
             i == compaction.id
  <2>1. /\ p \in Partitions /\ i \in CompactionIds
        /\ \A n \in FileNames : r \notin archive[i][n] /\ r \notin final'[<<p, n>>]
    BY <1>4, MoveEffect
  <2>2. \A n \in FileNames : r \in archive'[i][n] <=> r \in final[<<p, n>>]
    BY <1>4, MoveEffect
  <2>3. \A q \in Partitions, n \in FileNames :
          q # p => (r \in final'[<<q, n>>] <=> r \in final[<<q, n>>])
    BY <1>4, MoveEffect
  <2>4. \A k \in CompactionIds, n \in FileNames :
          k # i => (r \in archive'[k][n] <=> r \in archive[k][n])
    BY <1>4, MoveEffect
  <2> HIDE DEF p, i
  <2> QED
    BY <1>1, <1>2, <2>1, <2>2, <2>3, <2>4
<1>5. CASE SwapIn
  <2>1. r \in compaction.rows => \E n \in FileNames : r \in archive[compaction.id][n]
    BY <1>5, SwapEffect, ArchivedRow
  <2>2. compaction.id \in CompactionIds /\ UNCHANGED archive
    BY <1>5, SwapEffect
  <2>3. ASSUME NEW q \in Partitions, NEW n \in FileNames
        PROVE  /\ r \in final[<<q, n>>] => r \in final'[<<q, n>>]
               /\ r \in final'[<<q, n>>] => r \in final[<<q, n>>] \/ r \in compaction.rows
    BY <1>5, SwapEffect
  <2> QED
    BY <1>1, <1>2, <2>1, <2>2, <2>3
<1>6. CASE RestoresBack
  <2> DEFINE p == compaction.part
             i == compaction.id
  <2>1. /\ p \in Partitions /\ i \in CompactionIds
        /\ \A n \in FileNames : r \notin final[<<p, n>>] /\ r \notin archive'[i][n]
    BY <1>6, RestoreEffect
  <2>2. \A n \in FileNames : r \in final'[<<p, n>>] <=> r \in archive[i][n]
    BY <1>6, RestoreEffect
  <2>3. \A q \in Partitions, n \in FileNames :
          q # p => (r \in final'[<<q, n>>] <=> r \in final[<<q, n>>])
    BY <1>6, RestoreEffect
  <2>4. \A k \in CompactionIds, n \in FileNames :
          k # i => (r \in archive'[k][n] <=> r \in archive[k][n])
    BY <1>6, RestoreEffect
  <2> HIDE DEF p, i
  <2> QED
    BY <1>1, <1>2, <2>1, <2>2, <2>3, <2>4
<1> QED
  BY <1>3, <1>4, <1>5, <1>6

-----------------------------------------------------------------------------
(* Every step preserves the invariant. *)

\* The promises of the runs, when the step is not a run's.
LEMMA CompactorRuns ==
  ASSUME RaceInv, CTypeOK', UNCHANGED LakeRest, KeptRows' = KeptRows,
         \A w \in Workers : TargetFree(w)'
  PROVE  RunsKept' /\ AckedRecoverable'
<1>1. DistinctRuns'
  BY DEF RaceInv, RunsKept, DistinctRuns, LakeRest
<1>2. ASSUME NEW w \in Workers PROVE RunKeeps(w, KeptRows)'
  BY DEF RaceInv, RunsKept, LakeRest, RunKeeps, ReplaysRetained, StagedInFull, PromotedInFull,
         AcceptedRetained, Part
<1>3. AckedRecoverable'
  BY DEF RaceInv, AckedRecoverable, KeptRows, LakeRest, history
<1> QED
  BY <1>1, <1>2, <1>3 DEF RunsKept

\* A step that renames nothing; only Begin starts a compaction, under a fresh id.
LEMMA ComputesRace ==
  ASSUME RaceInv, Computes, UNCHANGED LakeRest
  PROVE  RaceInv'
<1>1. CTypeOK' /\ UNCHANGED <<final, dirs, archive>>
  BY ComputesType DEF RaceInv
<1>2. KeptRows' = KeptRows
  BY CompactorKeeps DEF RaceInv
<1>3. \A w \in Workers : TargetFree(w)'
  BY <1>1 DEF RaceInv, RunsKept, TargetFree, LakeRest, IsNext, Part
<1>4. RunsKept' /\ AckedRecoverable'
  BY <1>1, <1>2, <1>3, CompactorRuns
<1>5. FilesInDirectories' /\ ArchivesHold'
  BY <1>1 DEF RaceInv, FilesInDirectories, ArchivesHold, ArchiveOf
<1>6. CopyInv'
  <2>1. ASSUME NEW p \in Partitions, NEW i \in CompactionIds, Begin(p, i) PROVE CopyInv'
    BY <2>1 DEF Begin, CopyInv, NoCompaction
  <2>2. CASE CountKeys
    BY <2>2, CompactionType DEF CountKeys, RaceInv, CopyInv
  <2>3. CASE CopyRows
    BY <2>3, CompactionType, <1>1 DEF CopyRows, RaceInv, CopyInv, RowsIn
  <2>4. CASE Record
    BY <2>4 DEF Record, CopyInv
  <2>5. CASE \/ RefuseCompaction \/ StrandOriginals \/ (Interrupt /\ compaction.part \in dirs)
             \/ Finish \/ KillCompactor
    BY <2>5 DEF RefuseCompaction, StrandOriginals, Interrupt, Finish, KillCompactor, Leave, CopyInv
  <2> QED
    BY <2>1, <2>2, <2>3, <2>4, <2>5 DEF Computes
<1> QED
  BY <1>1, <1>4, <1>5, <1>6 DEF RaceInv

\* os.replace(partition, archive).
LEMMA MoveRace ==
  ASSUME RaceInv, MoveToArchive, UNCHANGED LakeRest
  PROVE  RaceInv'
<1> DEFINE p == compaction.part
           i == compaction.id
<1>1. CTypeOK' /\ KeptRows' = KeptRows
  BY RenamesType, CompactorKeeps DEF RaceInv
<1>2. /\ p \in Partitions /\ i \in CompactionIds /\ i \in FileNames
      /\ \A q \in Partitions, n \in FileNames :
            final'[<<q, n>>] = IF q = p THEN {} ELSE final[<<q, n>>]
      /\ \A k \in CompactionIds, n \in FileNames :
            archive'[k][n] = IF k = i THEN final[<<p, n>>] ELSE archive[k][n]
      /\ \A n \in FileNames : archive[i][n] = {}
      /\ cpc = "archive" /\ cpc' = "swap" /\ UNCHANGED compaction /\ dirs' = dirs \ {p}
  BY MoveEffect DEF RaceInv, MoveToArchive
<1>3. CompactionIds \subseteq FileNames /\ RunIds \subseteq FileNames
  BY CompactionNamesAssumption, NamesAssumption
<1>4. \A w \in Workers : pc[w] = "promote" => job[w].id \in FileNames
  BY <1>3 DEF RaceInv, CTypeOK, TypeOK, RunsTypeOK
<1>5. UNCHANGED <<pc, job>>
  BY DEF LakeRest
<1>6. \A w \in Workers : TargetFree(w)'
  BY <1>2, <1>4, <1>5 DEF RaceInv, RunsKept, TargetFree, IsNext, Part
<1>7. FilesInDirectories'
  BY <1>2 DEF RaceInv, FilesInDirectories, Artifacts
<1>8. \A k \in CompactionIds : ArchiveOf(k) \subseteq ArchiveOf(k)'
  <2> SUFFICES ASSUME NEW k \in CompactionIds, NEW n \in FileNames, NEW r \in archive[k][n]
               PROVE  r \in archive'[k][n]
    BY ArchivedRow
  <2> QED
    BY <1>2
<1>9. ArchiveOf(i) = {}
  BY <1>2 DEF ArchiveOf
<1>10. /\ \A q \in Partitions : final[<<q, i>>] = {}
       /\ \A k \in CompactionIds : archive[k][i] = {}
  BY <1>2, <1>9 DEF RaceInv, ArchivesHold
<1>11. ArchivesHold'
  <2>1. ASSUME NEW k \in CompactionIds, NEW q \in Partitions
        PROVE  final'[<<q, k>>] \subseteq ArchiveOf(k)'
    BY <1>2, <1>3, <1>8 DEF RaceInv, ArchivesHold
  <2>2. ASSUME NEW k \in CompactionIds, NEW j \in CompactionIds
        PROVE  archive'[j][k] \subseteq ArchiveOf(k)'
    <3>1. k \in FileNames
      BY <1>3
    <3>2. archive'[j][k] = final[<<p, k>>] \/ archive'[j][k] = archive[j][k]
      BY <1>2, <3>1
    <3>3. final[<<p, k>>] \subseteq ArchiveOf(k) /\ archive[j][k] \subseteq ArchiveOf(k)
      BY <1>2 DEF RaceInv, ArchivesHold
    <3> QED
      BY <1>8, <3>2, <3>3
  <2> QED
    BY <2>1, <2>2 DEF ArchivesHold
<1>12. Swapping'
  <2>1. compaction'.rows \subseteq ArchiveOf(compaction.id)'
    <3>1. ASSUME NEW r \in compaction.rows PROVE \E n \in FileNames : r \in final[<<p, n>>]
      BY <1>2 DEF RaceInv, CopyInv, RowsIn
    <3>2. ASSUME NEW r \in compaction.rows PROVE \E n \in FileNames : r \in archive'[i][n]
      BY <1>2, <3>1
    <3> QED
      BY <1>2, <3>2 DEF ArchiveOf
  <2>2. \A q \in Partitions : final'[<<q, i>>] = {}
    BY <1>2, <1>10
  <2>3. ASSUME NEW k \in CompactionIds PROVE archive'[k][i] = {}
    <3>1. archive'[k][i] = final[<<p, i>>] \/ archive'[k][i] = archive[k][i]
      BY <1>2
    <3> QED
      BY <1>2, <1>10, <3>1
  <2>4. ASSUME NEW w \in Workers, pc[w] = "promote", IsNext(w, p)
        PROVE  archive'[i][job[w].id] = {}
    <3>1. final[<<p, job[w].id>>] = {} /\ job[w].id \in FileNames
      BY <1>2, <1>4, <2>4 DEF RaceInv, RunsKept, TargetFree, Part
    <3> QED
      BY <1>2, <3>1
  <2>5. \A w \in Workers : IsNext(w, compaction.part)' <=> IsNext(w, p)
    BY <1>2, <1>5 DEF IsNext
  <2> HIDE DEF i, p
  <2> QED
    BY <1>2, <1>5, <2>1, <2>2, <2>3, <2>4, <2>5 DEF Swapping, i, p
<1>13. CopyInv'
  BY <1>2, <1>12 DEF CopyInv
<1> QED
  BY <1>1, <1>6, <1>7, <1>11, <1>13, CompactorRuns DEF RaceInv
\* os.replace(staged_partition, partition).
LEMMA SwapRace ==
  ASSUME RaceInv, SwapIn, UNCHANGED LakeRest
  PROVE  RaceInv'
<1> DEFINE p == compaction.part
           i == compaction.id
<1>1. CTypeOK' /\ KeptRows' = KeptRows
  BY RenamesType, CompactorKeeps DEF RaceInv
<1>2. /\ p \in Partitions /\ i \in CompactionIds /\ i \in FileNames /\ i \notin RunIds
      /\ \A q \in Partitions, n \in FileNames :
            final'[<<q, n>>] = IF q = p /\ n = i THEN compaction.rows ELSE final[<<q, n>>]
      /\ compaction.rows \subseteq ArchiveOf(i)
      /\ cpc' = "record" /\ dirs' = dirs \cup {p} /\ UNCHANGED archive
  BY SwapEffect, CompactionIdType DEF RaceInv, SwapIn
<1>3. \A w \in Workers : pc[w] = "promote" => job[w].id \in FileNames /\ job[w].id # i
  BY <1>2, NamesAssumption DEF RaceInv, CTypeOK, TypeOK, RunsTypeOK
<1>4. \A w \in Workers : TargetFree(w)'
  BY <1>2, <1>3 DEF RaceInv, RunsKept, TargetFree, LakeRest, IsNext, Part
<1>5. FilesInDirectories'
  <2> SUFFICES ASSUME NEW q \in Partitions, NEW n \in FileNames, final'[<<q, n>>] # {}
               PROVE  q \in dirs'
    BY DEF FilesInDirectories, Artifacts
  <2> QED
    BY <1>2 DEF RaceInv, FilesInDirectories, Artifacts
<1>6. ArchivesHold'
  <2>1. \A k \in CompactionIds : ArchiveOf(k)' = ArchiveOf(k) /\ k \in FileNames
    BY <1>2, CompactionIdType DEF ArchiveOf
  <2> QED
    BY <1>2, <2>1 DEF RaceInv, ArchivesHold
<1>7. CopyInv'
  BY <1>2 DEF CopyInv
<1> QED
  BY <1>1, <1>4, <1>5, <1>6, <1>7, CompactorRuns DEF RaceInv

\* The archived directory is renamed back.
LEMMA RestoreRace ==
  ASSUME RaceInv, RestoresBack, UNCHANGED LakeRest
  PROVE  RaceInv'
<1> DEFINE p == compaction.part
           i == compaction.id
<1>1. CTypeOK' /\ KeptRows' = KeptRows
  BY RenamesType, CompactorKeeps DEF RaceInv
<1>2. /\ p \in Partitions /\ i \in CompactionIds /\ i \in FileNames
      /\ \A q \in Partitions, n \in FileNames :
            final'[<<q, n>>] = IF q = p THEN archive[i][n] ELSE final[<<q, n>>]
      /\ \A k \in CompactionIds, n \in FileNames :
            archive'[k][n] = IF k = i THEN {} ELSE archive[k][n]
      /\ dirs' = dirs \cup {p} /\ cpc' = "idle" /\ Swapping
  BY RestoreEffect DEF RaceInv, RestoresBack, Restored, Leave, CopyInv
<1>3. \A w \in Workers : pc[w] = "promote" => job[w].id \in FileNames
  BY NamesAssumption DEF RaceInv, CTypeOK, TypeOK, RunsTypeOK
<1>4. ASSUME NEW w \in Workers PROVE TargetFree(w)'
  <2> SUFFICES ASSUME NEW q \in Partitions, pc[w] = "promote", IsNext(w, q)
               PROVE  final'[<<q, job[w].id>>] = {}
    BY DEF TargetFree, LakeRest, IsNext, Part
  <2>1. CASE q = p
    BY <1>2, <1>3, <2>1 DEF Swapping
  <2>2. CASE q # p
    BY <1>2, <1>3, <2>2 DEF RaceInv, RunsKept, TargetFree, Part
  <2> QED
    BY <2>1, <2>2
<1>5. FilesInDirectories'
  <2> SUFFICES ASSUME NEW q \in Partitions, NEW n \in FileNames, final'[<<q, n>>] # {}
               PROVE  q \in dirs'
    BY DEF FilesInDirectories, Artifacts
  <2> QED
    BY <1>2 DEF RaceInv, FilesInDirectories, Artifacts
<1>6. ASSUME NEW k \in CompactionIds, k # i
      PROVE  ArchiveOf(k)' = ArchiveOf(k)
  BY <1>2, <1>6 DEF ArchiveOf
<1>7. ASSUME NEW k \in CompactionIds
      PROVE  /\ \A q \in Partitions : final'[<<q, k>>] \subseteq ArchiveOf(k)'
             /\ \A j \in CompactionIds : archive'[j][k] \subseteq ArchiveOf(k)'
  <2>1. k \in FileNames
    BY CompactionIdType
  <2>2. CASE k = i
    BY <1>2, <2>2 DEF Swapping
  <2>3. CASE k # i
    BY <1>2, <1>6, <2>1, <2>3 DEF RaceInv, ArchivesHold
  <2> QED
    BY <2>2, <2>3
<1>8. ArchivesHold' /\ CopyInv'
  BY <1>2, <1>7 DEF ArchivesHold, CopyInv
<1> QED
  BY <1>1, <1>4, <1>5, <1>8, CompactorRuns DEF RaceInv

-----------------------------------------------------------------------------
(* The steps of the ingestion runs beside the compactor. *)

\* What a step of a run does to the locks, the directories and the rename it does next.
LEMMA StepOnDisk ==
  ASSUME TypeOK, NEW w \in Workers, Step(w)
  PROVE  /\ UNCHANGED locked /\ dirs \subseteq dirs'
         /\ UNCHANGED final \/ Promote(w)
         /\ pc'[w] = "promote" =>
               UNCHANGED job /\ \A p \in Partitions : IsNext(w, p) => p \notin locked
<1>1. UNCHANGED locked /\ dirs \subseteq dirs'
  BY DEF Step, WriteQuarantine, RefuseQuarantine, ReadExisting, RefuseConflict, OpenTemp,
         WriteTemp, RefuseArtifact, CheckPromotion, Promote,
         Reconcile, FailReconciliation, FailRecount, WriteManifest, GetCheckpoint,
         AdvanceCheckpoint, disk
<1>2. UNCHANGED final \/ Promote(w)
  BY DEF Step, WriteQuarantine, RefuseQuarantine, ReadExisting, RefuseConflict, OpenTemp,
         WriteTemp, RefuseArtifact, CheckPromotion, Promote,
         Reconcile, FailReconciliation, FailRecount, WriteManifest, GetCheckpoint,
         AdvanceCheckpoint, disk
<1>3. ASSUME pc'[w] = "promote" PROVE CheckPromotion(w)
  BY <1>3 DEF TypeOK, RunsTypeOK, Step, WriteQuarantine, RefuseQuarantine, ReadExisting,
         RefuseConflict, OpenTemp, WriteTemp, RefuseArtifact, Promote,
         Reconcile, FailReconciliation, FailRecount, WriteManifest, GetCheckpoint,
         AdvanceCheckpoint, End, Goto, Advance
<1>4. ASSUME CheckPromotion(w)
      PROVE  UNCHANGED job /\ \A p \in Partitions : IsNext(w, p) => p \notin locked
  BY <1>4, OneNext DEF CheckPromotion, Unlocked
<1> QED
  BY <1>1, <1>2, <1>3, <1>4

\* With the kept rows of the next state, these are the next state's promises.
LEMMA KeptNext ==
  ASSUME NEW w, NEW next, next = KeptRows', RunKeeps(w, next)'
  PROVE  RunKeeps(w, KeptRows)'
  BY DEF RunKeeps, ReplaysRetained, StagedInFull, PromotedInFull, AcceptedRetained

\* Whatever a run does to its own files and jobs, the compaction is not disturbed.
LEMMA FrameRace ==
  ASSUME RaceInv, NEW w \in Workers, Frame(w), UNCHANGED <<cvars, locked>>,
         dirs \subseteq dirs', pc[w] # "idle" \/ UNCHANGED <<final, staged>>,
         UNCHANGED final \/ Promote(w),
         pc'[w] = "promote" =>
            UNCHANGED job /\ \A p \in Partitions : IsNext(w, p) => p \notin locked
  PROVE  FilesInDirectories' /\ ArchivesHold' /\ CopyInv' /\ KeptRows \subseteq KeptRows'
<1> USE DEF cvars
<1>1. \A i : ArchiveOf(i)' = ArchiveOf(i)
  BY DEF ArchiveOf
<1>2. KeptRows \subseteq KeptRows'
  BY LakeGrows DEF KeptRows, ArchivedRows
<1>3. FilesInDirectories'
  <2>1. CASE UNCHANGED final
    BY <2>1 DEF RaceInv, FilesInDirectories
  <2>2. CASE Promote(w)
    <3>1. PICK p \in Partitions :
            p \in dirs /\ final' = [final EXCEPT ![Part(w, p)] = staged[Part(w, p)]]
      BY <2>2 DEF Promote
    <3>2. \A a \in Artifacts : final'[a] = final[a] \/ a[1] = p
      BY <3>1 DEF Part, Artifacts, RaceInv, CTypeOK, TypeOK
    <3> QED
      BY <3>1, <3>2 DEF RaceInv, FilesInDirectories
  <2> QED
    BY <2>1, <2>2
<1>4. \A i \in CompactionIds, p \in Partitions : final'[<<p, i>>] = final[<<p, i>>]
  <2>1. CASE UNCHANGED final
    BY <2>1
  <2>2. CASE Promote(w)
    <3>1. job[w].id \in RunIds
      BY <2>2 DEF Promote, RaceInv, CTypeOK, TypeOK, RunsTypeOK
    <3> QED
      BY <3>1, CompactionIdType DEF Frame, Artifacts
  <2> QED
    BY <2>1, <2>2
<1>5. ArchivesHold'
  BY <1>1, <1>4 DEF RaceInv, ArchivesHold
<1>6. CopyInv'
  <2>1. CASE cpc = "archive"
    <3>1. compaction.part \in Partitions
      BY <2>1, CompactionType DEF RaceInv
    <3>2. RowsIn(compaction.part) \subseteq RowsIn(compaction.part)'
      BY <3>1 DEF Frame, RowsIn, Artifacts
    <3> QED
      BY <2>1, <3>2 DEF RaceInv, CopyInv
  <2>2. CASE cpc = "swap"
    <3>1. /\ compaction.part \in Partitions /\ compaction.part \in locked
          /\ compaction.id \in CompactionIds /\ Swapping
      BY <2>2, CompactionType DEF RaceInv, CopyInv
    <3>2. ASSUME NEW v \in Workers, pc'[v] = "promote", IsNext(v, compaction.part)'
          PROVE  archive[compaction.id][job'[v].id] = {}
      <4>1. CASE v = w
        BY <3>1, <3>2, <4>1 DEF IsNext
      <4>2. CASE v # w
        BY <3>1, <3>2, <4>2 DEF IsNext, Frame, Swapping
      <4> QED
        BY <4>1, <4>2
    <3>3. Swapping'
      BY <1>1, <1>4, <3>1, <3>2 DEF Swapping
    <3> QED
      BY <2>2, <3>3 DEF CopyInv
  <2>3. CASE cpc \notin {"archive", "swap"}
    BY <2>3 DEF RaceInv, CopyInv
  <2> QED
    BY <2>1, <2>2, <2>3
<1> QED
  BY <1>2, <1>3, <1>5, <1>6

LEMMA StepRace ==
  ASSUME RaceInv, NEW w \in Workers, Step(w), UNCHANGED cvars
  PROVE  RaceInv'
<1>1. /\ TypeOK /\ TypeOK' /\ DistinctRuns /\ pc[w] # "idle" /\ Frame(w)
      /\ \A v \in Workers : TargetFree(v)
  BY StepType, StepFrame, StepActive DEF RaceInv, CTypeOK, RunsKept
<1>2. UNCHANGED locked
  BY <1>1, StepOnDisk
<1>3. FilesInDirectories' /\ ArchivesHold' /\ CopyInv' /\ KeptRows \subseteq KeptRows'
  BY <1>1, StepOnDisk, FrameRace
<1>4. PICK rows, next : rows = KeptRows /\ next = KeptRows'
  OBVIOUS
<1>5. Keeping(rows, next)
  BY <1>3, <1>4 DEF Keeping, KeptRows
<1>6. \A v \in Workers : RunKeeps(v, rows)
  BY <1>4 DEF RaceInv, RunsKept
<1>7. ASSUME NEW v \in Workers PROVE RunKeeps(v, KeptRows)' /\ TargetFree(v)'
  <2>1. CASE v = w
    BY <1>1, <1>4, <1>5, <1>6, <2>1, StepKept, KeptNext
  <2>2. CASE v # w
    BY <1>1, <1>3, <1>4, <1>6, <2>2, OthersKept, KeptNext
  <2> QED
    BY <2>1, <2>2
<1>8. RunsKept'
  BY <1>1, <1>7, StepDistinct DEF RunsKept
<1>9. AckedRecoverable'
  <2>1. acked' \subseteq acked \cup KeptRows
    BY <1>4, <1>6, StepAcknowledges DEF RunKeeps, AcceptedRetained
  <2> QED
    BY <1>3, <2>1 DEF RaceInv, AckedRecoverable, KeptRows
<1>10. CTypeOK'
  BY <1>1, <1>2 DEF RaceInv, CTypeOK, cvars
<1> QED
  BY <1>3, <1>8, <1>9, <1>10 DEF RaceInv

\* Starting a run, killing one, and the two ends of a run at a compaction.
LEMMA EdgeRace ==
  ASSUME RaceInv, NEW w \in Workers, Start(w) \/ Kill(w) \/ Obstructed(w), UNCHANGED cvars
  PROVE  RaceInv'
<1>1. /\ TypeOK /\ DistinctRuns
      /\ Frame(w) /\ UNCHANGED <<final, staged, acked>>
      /\ (\A next : RunKeeps(w, next)') /\ TargetFree(w)' /\ DistinctRuns'
  BY StartFrame, KillFrame, ObstructedStep DEF RaceInv, CTypeOK, RunsKept
<1>2. TypeOK'
  <2>1. CASE Kill(w)
    BY <1>1, <2>1, EndType DEF Kill, TypeOK, disk, history
  <2> QED
    BY <1>1, <2>1, StartType, ObstructedStep
<1>3. UNCHANGED locked /\ dirs \subseteq dirs' /\ pc'[w] # "promote"
  <2>1. CASE Start(w)
    BY <1>1, <2>1 DEF Start, StartBackfill, StartIncremental, Enter, disk, Goto, TypeOK, RunsTypeOK
  <2>2. CASE Kill(w)
    BY <1>1, <2>2 DEF Kill, End, Goto, disk, TypeOK, RunsTypeOK
  <2>3. CASE Obstructed(w)
    BY <1>1, <2>3, ObstructedStep DEF Obstructed, RefuseLocked, PromoteNowhere, End, Goto,
                                      TypeOK, RunsTypeOK
  <2> QED
    BY <2>1, <2>2, <2>3
<1>4. FilesInDirectories' /\ ArchivesHold' /\ CopyInv'
  BY <1>1, <1>3, FrameRace
<1>5. PICK rows : rows = KeptRows
  OBVIOUS
<1>6. rows = KeptRows'
  BY <1>1, <1>5 DEF KeptRows, Lake, ArchivedRows, cvars
<1>7. ASSUME NEW v \in Workers PROVE RunKeeps(v, KeptRows)' /\ TargetFree(v)'
  <2>1. CASE v = w
    BY <1>1, <1>6, <2>1, KeptNext
  <2>2. CASE v # w
    BY <1>1, <1>5, <1>6, <2>2, OthersKept, KeptNext DEF RaceInv, RunsKept
  <2> QED
    BY <2>1, <2>2
<1>8. RunsKept' /\ AckedRecoverable'
  BY <1>1, <1>5, <1>6, <1>7 DEF RunsKept, RaceInv, AckedRecoverable, KeptRows
<1>9. CTypeOK'
  BY <1>2, <1>3 DEF RaceInv, CTypeOK, cvars
<1> QED
  BY <1>4, <1>8, <1>9 DEF RaceInv

LEMMA RaceStep == ASSUME RaceInv, [CNext]_allvars PROVE RaceInv'
<1>1. ASSUME NEW w \in Workers, Step(w), UNCHANGED cvars PROVE RaceInv'
  BY <1>1, StepRace
<1>2. ASSUME NEW w \in Workers, Start(w) \/ Kill(w), UNCHANGED cvars PROVE RaceInv'
  BY <1>2, EdgeRace
<1>3. ASSUME NEW w \in Workers, Obstructed(w) PROVE RaceInv'
  <2>1. UNCHANGED cvars
    BY <1>3 DEF Obstructed, RefuseLocked, PromoteNowhere
  <2> QED
    BY <1>3, <2>1, EdgeRace
<1>4. CASE (Provider \/ UNCHANGED vars) /\ UNCHANGED cvars
  <2>1. UNCHANGED <<final, staged, dirs, locked, quarantined, audit, manifest, ckpt, pc, job, acked,
                    cvars>>
    BY <1>4 DEF Provider, Publish, Correct, vars, disk, history
  <2>2. TypeOK'
    BY <1>4 DEF RaceInv, CTypeOK, TypeOK, RunsTypeOK, Provider, Publish, Correct, vars, disk, history
  <2>3. UNCHANGED <<KeptRows>> /\ \A i : ArchiveOf(i)' = ArchiveOf(i)
    BY <2>1 DEF KeptRows, Lake, ArchivedRows, ArchiveOf, cvars
  <2>4. RunsKept'
    BY <2>1, <2>3 DEF RaceInv, RunsKept, DistinctRuns, RunKeeps, ReplaysRetained, StagedInFull,
                PromotedInFull, AcceptedRetained, TargetFree, Part, IsNext
  <2>5. CopyInv'
    BY <2>1, <2>3 DEF RaceInv, CopyInv, Swapping, RowsIn, IsNext, cvars
  <2>6. FilesInDirectories' /\ ArchivesHold' /\ AckedRecoverable'
    BY <2>1, <2>3 DEF RaceInv, FilesInDirectories, ArchivesHold, AckedRecoverable, KeptRows, cvars
  <2> QED
    BY <2>1, <2>2, <2>4, <2>5, <2>6 DEF RaceInv, CTypeOK, cvars
<1>5. CASE Compactor
  BY <1>5, CompactorCases, CompactorRest, ComputesRace, MoveRace, SwapRace, RestoreRace DEF RaceInv
<1> QED
  BY <1>1, <1>2, <1>3, <1>4, <1>5 DEF CNext, Next, allvars

\* Under compactions that race with runs and are killed between any two renames, a
\* compaction's file never has a row its archive lacks, and what a run is about to
\* acknowledge is in a final file or in an archive.
THEOREM RaceInvariant == CSpec => []RaceInv
<1>1. CInit => RaceInv
  <2> SUFFICES ASSUME CInit PROVE RaceInv
    OBVIOUS
  <2>1. CTypeOK
    BY NoJobType DEF CInit, CTypeOK, Init, TypeOK, RunsTypeOK, NoDirectory
  <2>2. RunsKept
    BY NoPromises DEF CInit, Init, RunsKept, DistinctRuns
  <2>3. FilesInDirectories /\ AckedRecoverable /\ CopyInv
    BY DEF CInit, Init, FilesInDirectories, AckedRecoverable, CopyInv
  <2>4. ArchivesHold
    BY CompactionIdType DEF CInit, Init, ArchivesHold, NoDirectory, Artifacts
  <2> QED
    BY <2>1, <2>2, <2>3, <2>4 DEF RaceInv
<1> QED
  BY <1>1, RaceStep, PTL DEF CSpec

\* The composition of runs and compactor stays within its types.
THEOREM CompactionTypeCorrect == CSpec => []CTypeOK
<1>1. RaceInv => CTypeOK
  BY DEF RaceInv
<1> QED
  BY <1>1, RaceInvariant, PTL

\* However compaction and ingestion race and are killed, every acknowledged row is
\* in the final files or in an archived directory.
THEOREM AcknowledgedRowsRecoverable == CSpec => []AckedRecoverable
<1>1. RaceInv => AckedRecoverable
  BY DEF RaceInv
<1> QED
  BY <1>1, RaceInvariant, PTL

\* The archive of a recorded compaction holds every row of the file it left.
THEOREM RecordedCompactionsArchived == CSpec => []RecordedArchivesComplete
<1>1. RaceInv => RecordedArchivesComplete
  BY DEF RaceInv, CTypeOK, ArchivesHold, ArchiveOf, RecordedArchivesComplete
<1> QED
  BY <1>1, RaceInvariant, PTL

\* Every kind of step keeps the rows of files and archives.
LEMMA KeptRowsStep == ASSUME RaceInv, [CNext]_allvars PROVE KeptRows \subseteq KeptRows'
<1>1. ASSUME NEW w \in Workers, Step(w), UNCHANGED cvars PROVE KeptRows \subseteq KeptRows'
  <2>1. Lake \subseteq Lake'
    BY <1>1, StepFrame, LakeGrows DEF RaceInv, CTypeOK, RunsKept
  <2> QED
    BY <1>1, <2>1 DEF KeptRows, ArchivedRows, cvars
<1>2. ASSUME NEW w \in Workers, Start(w) \/ Kill(w) \/ Obstructed(w), UNCHANGED cvars
      PROVE  KeptRows \subseteq KeptRows'
  <2>1. UNCHANGED final
    BY <1>2, StartFrame, KillFrame, ObstructedStep DEF RaceInv, CTypeOK, RunsKept
  <2> QED
    BY <1>2, <2>1 DEF KeptRows, Lake, ArchivedRows, cvars
<1>3. CASE (Provider \/ UNCHANGED vars) /\ UNCHANGED cvars
  BY <1>3 DEF Provider, Publish, Correct, vars, disk, KeptRows, Lake, ArchivedRows, cvars
<1>4. CASE Compactor
  BY <1>4, CompactorCases, CompactorKeeps DEF RaceInv
<1>5. \A w \in Workers : Obstructed(w) => UNCHANGED cvars
  BY DEF Obstructed, RefuseLocked, PromoteNowhere
<1> QED
  BY <1>1, <1>2, <1>3, <1>4, <1>5 DEF CNext, Next, allvars

\* No step of a run or of the compactor, and no kill, loses a row, acknowledged or not.
THEOREM KeptRowsGrow == CSpec => [][KeptRows \subseteq KeptRows']_allvars
<1>1. RaceInv /\ [CNext]_allvars => [KeptRows \subseteq KeptRows']_allvars
  BY KeptRowsStep
<1> QED
  BY <1>1, RaceInvariant, PTL DEF CSpec
-----------------------------------------------------------------------------
(* Compaction apart from runs.  A killed compaction leaves its lock, and runs *)
(* do start behind it: what they cannot read is only what that lock covers.   *)

\* Compaction and ingestion are never in progress together.
Apart == cpc # "idle" => \A w \in Workers : pc[w] = "idle"

\* A run's rows are not only kept but readable.
LakeKept == \A w \in Workers : RunKeeps(w, Lake)

PromotesUnlocked ==
    \A w \in Workers, p \in Partitions : pc[w] = "promote" /\ IsNext(w, p) => p \notin locked

\* Files hold rows of their own partition.
Placed == \A a \in Artifacts : \A r \in final[a] \cup staged[a] : PartitionOf[r.key] = a[1]

\* What archives hold of a partition can be read from its files as well.
ArchivedReadable(p) == In(ArchivedRows, p) \subseteq Lake

UnlockedReadable == \A p \in Partitions \ locked : ArchivedReadable(p)

\* A compaction copies its whole partition, and until the second rename the copy
\* and the archive hold all there is of it.
QuietSwap ==
    /\ compaction.part \notin dirs
    /\ compaction.rows = ArchiveOf(compaction.id)
    /\ In(ArchivedRows, compaction.part) \subseteq compaction.rows
    /\ \A r \in compaction.rows : PartitionOf[r.key] = compaction.part

QuietCopy ==
    /\ cpc \in {"count", "copy", "archive", "record", "unlock"} =>
          ArchivedReadable(compaction.part)
    /\ cpc = "copy" => ~Conflicting(RowsIn(compaction.part))
    /\ cpc = "archive" => compaction.rows = RowsIn(compaction.part)
    /\ cpc = "swap" => QuietSwap

QuietInv ==
    /\ Apart
    /\ LakeKept
    /\ PromotesUnlocked
    /\ Placed
    /\ UnlockedReadable
    /\ QuietCopy

LEMMA QuietRuns == ASSUME RaceInv, LakeKept PROVE RunsInv
  BY DEF RaceInv, CTypeOK, RunsKept, LakeKept, RunsInv, RunInv

LEMMA PlacedStep == ASSUME TypeOK, Placed, NEW w \in Workers, Step(w) PROVE Placed'
<1>1. CASE OpenTemp(w)
  BY <1>1 DEF OpenTemp, Placed, TypeOK
<1>2. CASE WriteTemp(w)
  <2>1. PICK p \in Partitions : staged' = [staged EXCEPT ![Part(w, p)] = In(job[w].fresh, p)]
    BY <1>2 DEF WriteTemp
  <2>2. \A r \in In(job[w].fresh, p) : PartitionOf[r.key] = p
    BY DEF In
  <2>3. ASSUME NEW a \in Artifacts
        PROVE  staged'[a] = staged[a] \/ (a[1] = p /\ staged'[a] = In(job[w].fresh, p))
    <3>1. CASE a = Part(w, p)
      BY <2>1, <3>1 DEF TypeOK, Part
    <3>2. CASE a # Part(w, p)
      BY <2>1, <3>2 DEF TypeOK
    <3> QED
      BY <3>1, <3>2
  <2> QED
    BY <1>2, <2>2, <2>3 DEF WriteTemp, Placed
<1>3. CASE Promote(w)
  <2>1. PICK p \in Partitions : /\ final' = [final EXCEPT ![Part(w, p)] = staged[Part(w, p)]]
                               /\ staged' = [staged EXCEPT ![Part(w, p)] = {}]
    BY <1>3 DEF Promote
  <2>2. \A a \in Artifacts : /\ final'[a] = final[a] \/ final'[a] = staged[a]
                             /\ staged'[a] = staged[a] \/ staged'[a] = {}
    BY <2>1 DEF TypeOK
  <2> QED
    BY <2>2 DEF Placed
<1>4. CASE ~OpenTemp(w) /\ ~WriteTemp(w) /\ ~Promote(w)
  <2>1. UNCHANGED <<final, staged>>
    BY <1>4 DEF Step, WriteQuarantine, RefuseQuarantine, ReadExisting, RefuseConflict,
         RefuseArtifact, CheckPromotion, Reconcile, FailReconciliation, FailRecount,
         WriteManifest, GetCheckpoint, AdvanceCheckpoint, disk
  <2> QED
    BY <2>1 DEF Placed
<1> QED
  BY <1>1, <1>2, <1>3, <1>4

LEMMA StepQuiet ==
  ASSUME RaceInv, QuietInv, NEW w \in Workers, Step(w), UNCHANGED cvars
  PROVE  QuietInv'
<1>1. RunsInv /\ TypeOK /\ DistinctRuns /\ pc[w] # "idle" /\ cpc = "idle"
  BY QuietRuns, StepActive DEF QuietInv, RunsInv, Apart
<1>2. Frame(w)
  BY <1>1, StepFrame DEF RunsInv, RunInv
<1>3. Lake \subseteq Lake'
  BY <1>2, LakeGrows
<1>4. PICK rows, next : rows = Lake /\ next = Lake'
  OBVIOUS
<1>5. \A v \in Workers : RunKeeps(v, rows) /\ TargetFree(v)
  BY <1>1, <1>4 DEF RunsInv, RunInv
<1>6. ASSUME NEW v \in Workers PROVE RunKeeps(v, Lake)'
  <2>1. CASE v = w
    BY <1>1, <1>3, <1>4, <1>5, <2>1, StepKept, RunInvNext DEF Keeping, RunInv
  <2>2. CASE v # w
    BY <1>1, <1>2, <1>3, <1>4, <1>5, <2>2, OthersKept, RunInvNext DEF RunInv
  <2> QED
    BY <2>1, <2>2
<1>7. LakeKept'
  BY <1>6 DEF LakeKept
<1>8. PromotesUnlocked'
  <2> SUFFICES ASSUME NEW v \in Workers, NEW p \in Partitions, pc'[v] = "promote", IsNext(v, p)'
               PROVE  p \notin locked
    BY <1>1, StepOnDisk DEF PromotesUnlocked
  <2>1. CASE v = w
    BY <1>1, <2>1, StepOnDisk DEF IsNext
  <2>2. CASE v # w
    BY <1>2, <2>2 DEF Frame, IsNext, QuietInv, PromotesUnlocked
  <2> QED
    BY <2>1, <2>2
<1>9. UnlockedReadable'
  BY <1>1, <1>3, StepOnDisk DEF QuietInv, UnlockedReadable, ArchivedReadable, ArchivedRows, In, cvars
<1>10. Placed'
  BY <1>1, PlacedStep DEF QuietInv
<1>11. Apart' /\ QuietCopy'
  BY <1>1 DEF Apart, QuietCopy, cvars
<1> QED
  BY <1>7, <1>8, <1>9, <1>10, <1>11 DEF QuietInv

LEMMA EdgeQuiet ==
  ASSUME RaceInv, QuietInv, Quiet, NEW w \in Workers, Start(w) \/ Kill(w) \/ Obstructed(w),
         UNCHANGED cvars
  PROVE  QuietInv'
<1>1. /\ TypeOK /\ DistinctRuns
      /\ Frame(w) /\ UNCHANGED <<final, staged>>
      /\ (\A next : RunKeeps(w, next)') /\ TargetFree(w)'
  BY StartFrame, KillFrame, ObstructedStep DEF RaceInv, CTypeOK, RunsKept
<1>2. UNCHANGED locked /\ pc'[w] # "promote" /\ cpc = "idle"
  <2>1. CASE Start(w)
    <3>1. pc[w] = "idle" /\ pc'[w] = "quarantine" /\ UNCHANGED locked
      BY <1>1, <2>1 DEF Start, StartBackfill, StartIncremental, Enter, disk, Goto, TypeOK, RunsTypeOK
    <3> QED
      BY <3>1 DEF Quiet
  <2>2. CASE Kill(w)
    BY <1>1, <2>2 DEF Kill, End, Goto, disk, TypeOK, RunsTypeOK, QuietInv, Apart
  <2>3. CASE Obstructed(w)
    BY <1>1, <2>3, ObstructedStep DEF Obstructed, RefuseLocked, PromoteNowhere, End, Goto,
                                      TypeOK, RunsTypeOK, QuietInv, Apart
  <2> QED
    BY <2>1, <2>2, <2>3
<1>3. PICK rows : rows = Lake
  OBVIOUS
<1>4. rows = Lake' /\ ArchivedRows' = ArchivedRows
  BY <1>1, <1>3 DEF Lake, ArchivedRows, cvars
<1>5. ASSUME NEW v \in Workers PROVE RunKeeps(v, Lake)'
  <2>1. CASE v = w
    BY <1>1, <1>4, <2>1, RunInvNext DEF RunInv
  <2>2. CASE v # w
    BY <1>1, <1>3, <1>4, <2>2, OthersKept, RunInvNext
    DEF RaceInv, RunsKept, QuietInv, LakeKept, RunInv
  <2> QED
    BY <2>1, <2>2
<1>6. PromotesUnlocked'
  BY <1>1, <1>2 DEF QuietInv, PromotesUnlocked, Frame, IsNext
<1>7. Placed' /\ UnlockedReadable'
  BY <1>1, <1>2, <1>3, <1>4 DEF QuietInv, Placed, UnlockedReadable, ArchivedReadable, In
<1>8. Apart' /\ QuietCopy' /\ LakeKept'
  BY <1>2, <1>5 DEF Apart, QuietCopy, LakeKept, cvars
<1> QED
  BY <1>6, <1>7, <1>8 DEF QuietInv
\* The compactor works while no run does: the runs have nothing to keep.
LEMMA CompactorApart ==
  ASSUME RaceInv, QuietInv, Quiet, Compactor
  PROVE  Apart' /\ LakeKept' /\ PromotesUnlocked' /\ UNCHANGED <<staged, pc, job>>
<1>1. UNCHANGED <<staged, pc, job>>
  BY CompactorRest DEF LakeRest
<1>2. \A w \in Workers : pc[w] = "idle"
  <2>1. CASE cpc = "idle"
    <3>1. cpc' # "idle"
      BY <2>1 DEF Compactor, Begin, CountKeys, CopyRows, RefuseCompaction, MoveToArchive, SwapIn,
             RollBack, StrandOriginals, Interrupt, Record, Finish, KillCompactor
    <3> QED
      BY <2>1, <3>1 DEF Quiet
  <2>2. CASE cpc # "idle"
    BY <2>2 DEF QuietInv, Apart
  <2> QED
    BY <2>1, <2>2
<1>3. LakeKept'
  BY <1>1, <1>2 DEF LakeKept, RunKeeps, ReplaysRetained, StagedInFull, PromotedInFull,
                    AcceptedRetained
<1> QED
  BY <1>1, <1>2, <1>3 DEF Apart, PromotesUnlocked

\* Without conflicts, one row per key is all of them.
LEMMA WholeCopy ==
  ASSUME NEW all \in SUBSET Rows, ~Conflicting(all), NEW rows \in SUBSET all,
         KeysOf(rows) = KeysOf(all)
  PROVE  rows = all
<1> SUFFICES ASSUME NEW x \in all PROVE x \in rows
  OBVIOUS
<1>1. PICK y \in rows : y.key = x.key
  BY DEF KeysOf
<1>2. x \in Rows /\ y \in Rows /\ y.val = x.val
  BY <1>1 DEF Conflicting
<1>3. x = y
  BY <1>1, <1>2 DEF Rows
<1> QED
  BY <1>3

LEMMA ComputesQuiet ==
  ASSUME RaceInv, QuietInv, Computes, UNCHANGED staged
  PROVE  Placed' /\ UnlockedReadable' /\ QuietCopy'
<1> USE DEF QuietInv
<1>1. CTypeOK' /\ UNCHANGED <<final, dirs, archive>>
  BY ComputesType DEF RaceInv
<1>2. Placed'
  BY <1>1 DEF Placed
<1>3. Lake' = Lake /\ ArchivedRows' = ArchivedRows /\ \A p : RowsIn(p)' = RowsIn(p)
  BY <1>1 DEF Lake, ArchivedRows, RowsIn
<1>4. \A p : ArchivedReadable(p)' <=> ArchivedReadable(p)
  BY <1>3 DEF ArchivedReadable, In
<1>5. CountKeys \/ CopyRows => RowsIn(compaction.part)' = RowsIn(compaction.part)
  <2> SUFFICES ASSUME CountKeys \/ CopyRows, NEW r
               PROVE  r \in RowsIn(compaction.part)' <=> r \in RowsIn(compaction.part)
    OBVIOUS
  <2>1. compaction'.part = compaction.part
    BY CompactionType DEF RaceInv, CountKeys, CopyRows
  <2>2. r \in RowsIn(compaction.part)' <=> \E n \in FileNames : r \in final'[<<compaction'.part, n>>]
    BY DEF RowsIn
  <2>3. r \in RowsIn(compaction.part) <=> \E n \in FileNames : r \in final[<<compaction.part, n>>]
    BY DEF RowsIn
  <2> QED
    BY <1>1, <2>1, <2>2, <2>3
<1>6. ASSUME cpc = "swap" PROVE Replaceable(compaction.part) /\ compaction.part \notin dirs
  <2>1. compaction.part \in Partitions /\ compaction.part \notin dirs
    BY <1>6, CompactionType DEF RaceInv, QuietCopy, QuietSwap
  <2>2. \A n \in FileNames : final[<<compaction.part, n>>] = {}
    BY <2>1 DEF RaceInv, FilesInDirectories, Artifacts
  <2> QED
    BY <2>1, <2>2 DEF Replaceable, RowsIn
<1>7. ASSUME NEW p \in Partitions, NEW i \in CompactionIds, Begin(p, i)
      PROVE  UnlockedReadable' /\ QuietCopy'
  <2>1. /\ p \notin locked /\ locked' = locked \cup {p} /\ cpc' = "count"
        /\ compaction'.part = p
    BY <1>7 DEF Begin, LockedWith, NoCompaction
  <2>2. ArchivedReadable(p)
    BY <2>1 DEF UnlockedReadable
  <2>3. ArchivedReadable(compaction.part)'
    BY <1>3, <2>1, <2>2 DEF ArchivedReadable, In
  <2> QED
    BY <1>4, <2>1, <2>3 DEF UnlockedReadable, QuietCopy
<1>8. CASE CountKeys \/ CopyRows \/ Record
  <2>1. /\ compaction' \in [id : CompactionIds, part : locked', unique : Nat, rows : SUBSET Rows]
        /\ compaction'.part = compaction.part /\ compaction.part \in Partitions
        /\ UNCHANGED locked
    BY <1>1, <1>8, CompactionType DEF RaceInv, CountKeys, CopyRows, Record, CTypeOK
  <2>2. ArchivedReadable(compaction.part)
    BY <1>8 DEF CountKeys, CopyRows, Record, QuietCopy
  <2>3. ArchivedReadable(compaction.part)'
    BY <1>3, <2>1, <2>2 DEF ArchivedReadable, In
  <2>4. UnlockedReadable'
    BY <1>4, <2>1 DEF UnlockedReadable
  <2>5. CASE CountKeys
    <3>1. ~Conflicting(RowsIn(compaction.part))'
      BY <1>5, <2>5 DEF CountKeys, Conflicting
    <3> QED
      BY <1>2, <2>3, <2>4, <2>5, <3>1 DEF CountKeys, QuietCopy
  <2>6. CASE CopyRows
    <3>1. compaction'.rows \in SUBSET RowsIn(compaction.part)
          /\ KeysOf(compaction'.rows) = KeysOf(RowsIn(compaction.part))
      BY <2>6, CompactionType DEF CopyRows, RaceInv
    <3>2. ~Conflicting(RowsIn(compaction.part)) /\ RowsIn(compaction.part) \in SUBSET Rows
      BY <2>1, <2>6, RowsInType DEF CopyRows, QuietCopy, RaceInv, CTypeOK
    <3>3. compaction'.rows = RowsIn(compaction.part)
      BY <3>1, <3>2, WholeCopy
    <3>4. cpc' = "archive" /\ compaction'.rows = RowsIn(compaction.part)'
      BY <1>5, <2>6, <3>3 DEF CopyRows
    <3> QED
      BY <1>2, <2>3, <2>4, <3>4 DEF QuietCopy
  <2>7. CASE Record
    BY <1>2, <2>3, <2>4, <2>7 DEF Record, QuietCopy
  <2> QED
    BY <1>8, <2>5, <2>6, <2>7
<1>9. CASE RefuseCompaction \/ Finish
  <2>1. ArchivedReadable(compaction.part) /\ locked' = locked \ {compaction.part} /\ cpc' = "idle"
    BY <1>9 DEF RefuseCompaction, Finish, Leave, QuietCopy
  <2>2. UnlockedReadable'
    BY <1>4, <2>1 DEF UnlockedReadable
  <2> QED
    BY <1>2, <2>1, <2>2 DEF QuietCopy
<1>10. CASE KillCompactor
  BY <1>2, <1>4, <1>10 DEF KillCompactor, UnlockedReadable, QuietCopy
<1>11. ~StrandOriginals /\ ~(Interrupt /\ compaction.part \in dirs)
  BY <1>6 DEF StrandOriginals, Interrupt
<1> QED
  BY <1>2, <1>7, <1>8, <1>9, <1>10, <1>11 DEF Computes
\* A readable row of a partition is in one of the partition's own files.
LEMMA RowPlace ==
  ASSUME Placed, NEW r \in Lake
  PROVE  \E n \in FileNames : r \in final[<<PartitionOf[r.key], n>>]
<1>1. PICK q \in Partitions, n \in FileNames : r \in final[<<q, n>>]
  BY LakeRow
<1>2. PartitionOf[r.key] = q
  BY <1>1 DEF Placed, Artifacts
<1> QED
  BY <1>1, <1>2

LEMMA MoveQuiet ==
  ASSUME RaceInv, QuietInv, MoveToArchive, UNCHANGED staged
  PROVE  Placed' /\ UnlockedReadable' /\ QuietCopy'
<1> DEFINE p == compaction.part
           i == compaction.id
<1> USE DEF QuietInv
<1>1. /\ p \in Partitions /\ p \in locked /\ i \in CompactionIds /\ i \in FileNames
      /\ \A q \in Partitions, n \in FileNames :
            final'[<<q, n>>] = IF q = p THEN {} ELSE final[<<q, n>>]
      /\ \A k \in CompactionIds, n \in FileNames :
            archive'[k][n] = IF k = i THEN final[<<p, n>>] ELSE archive[k][n]
      /\ cpc = "archive" /\ cpc' = "swap" /\ UNCHANGED <<locked, compaction>>
      /\ dirs' = dirs \ {p}
  BY MoveEffect, CompactionType DEF RaceInv, MoveToArchive
<1>2. /\ ArchivedReadable(p) /\ compaction.rows = RowsIn(p)
  BY <1>1 DEF QuietCopy
<1>3. \A r : r \in RowsIn(p) <=> \E n \in FileNames : r \in final[<<p, n>>]
  BY DEF RowsIn
<1>4. ASSUME NEW r \in RowsIn(p) PROVE PartitionOf[r.key] = p
  <2>1. PICK n \in FileNames : r \in final[<<p, n>>]
    BY <1>3
  <2> QED
    BY <1>1, <2>1 DEF Placed, Artifacts
<1>5. Placed'
  <2> SUFFICES ASSUME NEW q \in Partitions, NEW n \in FileNames,
                      NEW r \in final'[<<q, n>>] \cup staged'[<<q, n>>]
               PROVE  PartitionOf[r.key] = q
    BY DEF Placed, Artifacts
  <2>1. r \in final[<<q, n>>] \cup staged[<<q, n>>]
    BY <1>1
  <2> QED
    BY <2>1 DEF Placed, Artifacts
<1>6. ASSUME NEW r \in ArchivedRows' PROVE r \in RowsIn(p) \/ r \in ArchivedRows
  <2>1. PICK k \in CompactionIds, n \in FileNames : r \in archive'[k][n]
    BY ArchivedRow
  <2>2. CASE k = i
    BY <1>1, <1>3, <2>1, <2>2
  <2>3. CASE k # i
    BY <1>1, <2>1, <2>3, ArchivedRow
  <2> QED
    BY <2>2, <2>3
<1>7. ASSUME NEW r \in ArchivedRows', PartitionOf[r.key] = p PROVE r \in RowsIn(p)
  <2>1. CASE r \in ArchivedRows
    <3>1. r \in Lake
      BY <1>2, <1>7, <2>1 DEF ArchivedReadable, In
    <3> QED
      BY <1>3, <1>7, <3>1, RowPlace
  <2> QED
    BY <1>6, <2>1
<1>8. UnlockedReadable'
  <2> SUFFICES ASSUME NEW q \in Partitions \ locked, NEW r \in ArchivedRows',
                      PartitionOf[r.key] = q
               PROVE  r \in Lake'
    BY <1>1 DEF UnlockedReadable, ArchivedReadable, In
  <2>1. q # p
    BY <1>1
  <2>2. r \in ArchivedRows
    BY <1>4, <1>6, <2>1
  <2>3. r \in Lake
    BY <2>2 DEF UnlockedReadable, ArchivedReadable, In
  <2>4. PICK n \in FileNames : r \in final[<<q, n>>]
    BY <2>3, RowPlace
  <2>5. r \in final'[<<q, n>>]
    BY <1>1, <2>1, <2>4
  <2> QED
    BY <2>5, LakeRowNext
<1>9. QuietSwap'
  <2>1. RowsIn(p) = ArchiveOf(i)'
    <3> SUFFICES ASSUME NEW r PROVE r \in RowsIn(p) <=> r \in ArchiveOf(i)'
      OBVIOUS
    <3>1. r \in ArchiveOf(i)' <=> \E n \in FileNames : r \in archive'[i][n]
      BY <1>1 DEF ArchiveOf
    <3>2. \A n \in FileNames : archive'[i][n] = final[<<p, n>>]
      BY <1>1
    <3> QED
      BY <1>3, <3>1, <3>2
  <2>2. In(ArchivedRows, p)' \subseteq RowsIn(p)
    BY <1>1, <1>7 DEF In
  <2>3. p \notin dirs'
    BY <1>1
  <2> QED
    BY <1>1, <1>2, <1>4, <2>1, <2>2, <2>3 DEF QuietSwap
<1> QED
  BY <1>1, <1>5, <1>8, <1>9 DEF QuietCopy

LEMMA SwapQuiet ==
  ASSUME RaceInv, QuietInv, SwapIn, UNCHANGED staged
  PROVE  Placed' /\ UnlockedReadable' /\ QuietCopy'
<1> DEFINE p == compaction.part
           i == compaction.id
<1> USE DEF QuietInv
<1>1. /\ p \in Partitions /\ i \in FileNames
      /\ \A q \in Partitions, n \in FileNames :
            final'[<<q, n>>] = IF q = p /\ n = i THEN compaction.rows ELSE final[<<q, n>>]
      /\ final[<<p, i>>] = {} /\ QuietSwap
      /\ cpc' = "record" /\ UNCHANGED <<archive, locked, compaction>>
  BY SwapEffect DEF RaceInv, SwapIn, QuietCopy
<1>2. Placed'
  <2> SUFFICES ASSUME NEW q \in Partitions, NEW n \in FileNames,
                      NEW r \in final'[<<q, n>>] \cup staged'[<<q, n>>]
               PROVE  PartitionOf[r.key] = q
    BY DEF Placed, Artifacts
  <2>1. r \in final[<<q, n>>] \cup staged[<<q, n>>] \/ (q = p /\ r \in compaction.rows)
    BY <1>1
  <2> QED
    BY <1>1, <2>1 DEF Placed, Artifacts, QuietSwap
<1>3. ASSUME NEW r \in Lake PROVE r \in Lake'
  <2>1. PICK q \in Partitions, n \in FileNames : r \in final[<<q, n>>]
    BY LakeRow
  <2>2. r \in final'[<<q, n>>]
    BY <1>1, <2>1
  <2> QED
    BY <2>2, LakeRowNext
<1>4. compaction.rows \subseteq Lake'
  BY <1>1, LakeRowNext
<1>5. ArchivedRows' = ArchivedRows
  BY <1>1 DEF ArchivedRows
<1>6. UnlockedReadable'
  BY <1>1, <1>3, <1>5 DEF UnlockedReadable, ArchivedReadable, In
<1>7. ArchivedReadable(compaction.part)'
  BY <1>1, <1>4, <1>5 DEF QuietSwap, ArchivedReadable, In
<1> QED
  BY <1>1, <1>2, <1>6, <1>7 DEF QuietCopy

LEMMA RestoreQuiet ==
  ASSUME RaceInv, QuietInv, RestoresBack, UNCHANGED staged
  PROVE  Placed' /\ UnlockedReadable' /\ QuietCopy'
<1> DEFINE p == compaction.part
           i == compaction.id
<1> USE DEF QuietInv
<1>1. /\ p \in Partitions /\ i \in CompactionIds
      /\ \A q \in Partitions, n \in FileNames :
            final'[<<q, n>>] = IF q = p THEN archive[i][n] ELSE final[<<q, n>>]
      /\ \A k \in CompactionIds, n \in FileNames :
            archive'[k][n] = IF k = i THEN {} ELSE archive[k][n]
      /\ \A n \in FileNames : final[<<p, n>>] = {}
      /\ QuietSwap /\ cpc' = "idle" /\ locked' = locked \ {p}
  BY RestoreEffect DEF RaceInv, RestoresBack, Leave, QuietCopy
<1>2. \A r : r \in compaction.rows <=> \E n \in FileNames : r \in archive[i][n]
  BY <1>1, ArchivedRow DEF QuietSwap
<1>3. Placed'
  <2> SUFFICES ASSUME NEW q \in Partitions, NEW n \in FileNames,
                      NEW r \in final'[<<q, n>>] \cup staged'[<<q, n>>]
               PROVE  PartitionOf[r.key] = q
    BY DEF Placed, Artifacts
  <2>1. r \in final[<<q, n>>] \cup staged[<<q, n>>] \/ (q = p /\ r \in compaction.rows)
    BY <1>1, <1>2
  <2> QED
    BY <1>1, <2>1 DEF Placed, Artifacts, QuietSwap
<1>4. ASSUME NEW r \in Lake PROVE r \in Lake'
  <2>1. PICK q \in Partitions, n \in FileNames : r \in final[<<q, n>>]
    BY LakeRow
  <2>2. r \in final'[<<q, n>>]
    BY <1>1, <2>1
  <2> QED
    BY <2>2, LakeRowNext
<1>5. ASSUME NEW r \in compaction.rows PROVE r \in Lake'
  <2>1. PICK n \in FileNames : r \in archive[i][n]
    BY <1>2
  <2>2. r \in final'[<<p, n>>]
    BY <1>1, <2>1
  <2> QED
    BY <1>1, <2>2, LakeRowNext
<1>6. ASSUME NEW r \in ArchivedRows' PROVE r \in ArchivedRows
  <2>1. PICK k \in CompactionIds, n \in FileNames : r \in archive'[k][n]
    BY ArchivedRow
  <2>2. r \in archive[k][n]
    BY <1>1, <2>1
  <2> QED
    BY <2>2, ArchivedRow
<1>7. UnlockedReadable'
  <2> SUFFICES ASSUME NEW q \in Partitions, q \notin locked \/ q = p,
                      NEW r \in ArchivedRows', PartitionOf[r.key] = q
               PROVE  r \in Lake'
    BY <1>1 DEF UnlockedReadable, ArchivedReadable, In
  <2>1. r \in ArchivedRows
    BY <1>6
  <2>2. CASE q = p
    BY <1>1, <1>5, <2>1, <2>2 DEF QuietSwap, In
  <2>3. CASE q \notin locked
    BY <1>4, <2>1, <2>3 DEF UnlockedReadable, ArchivedReadable, In
  <2> QED
    BY <2>2, <2>3
<1> QED
  BY <1>1, <1>3, <1>7 DEF QuietCopy

LEMMA QuietStep ==
  ASSUME RaceInv, QuietInv, [CNext /\ Quiet]_allvars
  PROVE  QuietInv'
<1>1. ASSUME NEW w \in Workers, Step(w), UNCHANGED cvars PROVE QuietInv'
  BY <1>1, StepQuiet
<1>2. ASSUME NEW w \in Workers, Quiet, Start(w) \/ Kill(w), UNCHANGED cvars PROVE QuietInv'
  BY <1>2, EdgeQuiet
<1>3. ASSUME NEW w \in Workers, Quiet, Obstructed(w) PROVE QuietInv'
  <2>1. UNCHANGED cvars
    BY <1>3 DEF Obstructed, RefuseLocked, PromoteNowhere
  <2> QED
    BY <1>3, <2>1, EdgeQuiet
<1>4. CASE (Provider \/ UNCHANGED vars) /\ UNCHANGED cvars
  <2>1. UNCHANGED <<final, staged, dirs, locked, pc, job, cvars>>
    BY <1>4 DEF Provider, Publish, Correct, vars, disk
  <2>2. /\ UNCHANGED <<Lake, ArchivedRows>>
        /\ \A i : ArchiveOf(i)' = ArchiveOf(i)
        /\ \A p : RowsIn(p)' = RowsIn(p)
    BY <2>1 DEF Lake, ArchivedRows, ArchiveOf, RowsIn, cvars
  <2>3. LakeKept'
    BY <2>1, <2>2 DEF QuietInv, LakeKept, RunKeeps, ReplaysRetained, StagedInFull,
                PromotedInFull, AcceptedRetained, Part
  <2>4. Apart' /\ PromotesUnlocked' /\ Placed'
    BY <2>1 DEF QuietInv, Apart, PromotesUnlocked, Placed, IsNext, cvars
  <2>5. UnlockedReadable' /\ QuietCopy'
    BY <2>1, <2>2 DEF QuietInv, UnlockedReadable, QuietCopy, QuietSwap, ArchivedReadable, In,
                      Conflicting, cvars
  <2> QED
    BY <2>3, <2>4, <2>5 DEF QuietInv
<1>5. ASSUME Quiet, Compactor PROVE QuietInv'
  <2>1. Apart' /\ LakeKept' /\ PromotesUnlocked' /\ UNCHANGED staged
    BY <1>5, CompactorApart
  <2>2. Placed' /\ UnlockedReadable' /\ QuietCopy'
    BY <1>5, <2>1, CompactorCases, ComputesQuiet, MoveQuiet, SwapQuiet, RestoreQuiet DEF RaceInv
  <2> QED
    BY <2>1, <2>2 DEF QuietInv
<1> QED
  BY <1>1, <1>2, <1>3, <1>4, <1>5 DEF CNext, Next, allvars

\* With compactions apart from runs, what archives hold of an unlocked partition is
\* in its files too, and what a run is about to acknowledge is readable.
THEOREM QuietInvariant == QuietSpec => [](RaceInv /\ QuietInv)
<1>1. CInit => QuietInv
  <2> SUFFICES ASSUME CInit PROVE QuietInv
    OBVIOUS
  <2>1. LakeKept
    BY NoPromises DEF CInit, Init, LakeKept
  <2>2. ArchivedRows = {}
    BY DEF CInit, ArchivedRows, NoDirectory
  <2>3. Apart /\ PromotesUnlocked /\ Placed /\ UnlockedReadable /\ QuietCopy
    BY <2>2 DEF CInit, Init, Apart, PromotesUnlocked, Placed, UnlockedReadable, ArchivedReadable, In,
           QuietCopy
  <2> QED
    BY <2>1, <2>3 DEF QuietInv
<1>2. [CNext /\ Quiet]_allvars => [CNext]_allvars
  OBVIOUS
<1>3. QuietSpec => CSpec
  BY <1>2, PTL DEF QuietSpec, CSpec
<1> QED
  BY <1>1, <1>3, QuietStep, RaceInvariant, PTL DEF QuietSpec

\* Kept apart from runs, a compaction hides no acknowledged row: wherever no lock
\* stands, whatever was killed before, every one is readable.
THEOREM UnlockedRowsReadable == QuietSpec => []UnlockedPartitionsComplete
<1>1. RaceInv /\ QuietInv => UnlockedPartitionsComplete
  <2> SUFFICES ASSUME RaceInv, QuietInv, NEW r \in acked, PartitionOf[r.key] \notin locked
               PROVE  r \in Lake
    BY DEF UnlockedPartitionsComplete
  <2>1. PartitionOf[r.key] \in Partitions
    BY CalendarAssumption DEF RaceInv, CTypeOK, TypeOK, Rows
  <2>2. r \in ArchivedRows => r \in Lake
    BY <2>1 DEF QuietInv, UnlockedReadable, ArchivedReadable, In
  <2> QED
    BY <2>2 DEF RaceInv, AckedRecoverable
<1> QED
  BY <1>1, QuietInvariant, PTL
-----------------------------------------------------------------------------
(* Serialized runs and compactions: the final and the archived rows together  *)
(* are a write-once keyed store.                                              *)

\* Between the renames the archived directory has one row per key, as it had before.
ArchiveUnique ==
    cpc = "swap" =>
        \A m, n \in FileNames :
            \A x \in archive[compaction.id][m], y \in archive[compaction.id][n] :
                x.key = y.key => m = n /\ x = y

StoreInv == SerialInv /\ ~Conflicting(KeptRows) /\ ArchiveUnique

\* The new rows of a promotion have keys that neither a file nor an archive holds.
LEMMA PromoteStore ==
  ASSUME RaceInv, QuietInv, SerialInv, ~Conflicting(KeptRows), NEW w \in Workers, Promote(w),
         UNCHANGED cvars
  PROVE  ~Conflicting(KeptRows)'
<1>1. PICK p \in Partitions : /\ IsNext(w, p)
                             /\ final' = [final EXCEPT ![Part(w, p)] = staged[Part(w, p)]]
  BY DEF Promote
<1> DEFINE added == In(job[w].fresh, p)
<1>2. staged[Part(w, p)] = added /\ pc[w] = "promote"
  BY <1>1 DEF Promote, QuietInv, LakeKept, RunKeeps, StagedInFull, IsNext
<1>3. KeptRows' \subseteq KeptRows \cup added
  <2>1. \A a \in Artifacts : final'[a] = final[a] \/ final'[a] = added
    BY <1>1, <1>2 DEF RaceInv, CTypeOK, TypeOK
  <2>2. Lake' \subseteq Lake \cup added
    BY <2>1 DEF Lake
  <2> QED
    BY <2>2 DEF KeptRows, ArchivedRows, cvars
<1>4. /\ added \subseteq job[w].accepted /\ ~Conflicting(job[w].accepted)
      /\ KeysOf(added) \cap KeysOf(Lake) = {}
  BY <1>1, <1>2 DEF SerialInv, SerialRunInv, FreshRows, NewKeysFree, IsNext, In
<1>5. ASSUME NEW x \in added, NEW y \in KeptRows PROVE x.key # y.key
  <2>1. CASE y \in Lake
    BY <1>4, <2>1 DEF KeysOf
  <2>2. CASE y \in ArchivedRows /\ x.key = y.key
    <3>1. PartitionOf[y.key] = p /\ p \notin locked
      BY <1>1, <1>2, <2>2 DEF In, QuietInv, PromotesUnlocked
    <3>2. y \in Lake
      BY <2>2, <3>1 DEF QuietInv, UnlockedReadable, ArchivedReadable, In
    <3> QED
      BY <1>4, <2>2, <3>2 DEF KeysOf
  <2> QED
    BY <2>1, <2>2 DEF KeptRows
<1> HIDE DEF added
<1>6. \A x, y \in KeptRows' : x.key = y.key => x.val = y.val
  BY <1>3, <1>4, <1>5 DEF Conflicting
<1> QED
  BY <1>6 DEF Conflicting

LEMMA RunStore ==
  ASSUME Serialized, RaceInv, QuietInv, RaceInv', QuietInv', StoreInv,
         Next \/ UNCHANGED vars, UNCHANGED cvars
  PROVE  StoreInv'
<1>1. RunsInv /\ RunsInv'
  BY DEF RaceInv, CTypeOK, RunsKept, QuietInv, LakeKept, RunsInv, RunInv
<1>2. SerialInv'
  BY <1>1, SerialStep, OutsideSerial DEF StoreInv, Next
<1>3. ArchiveUnique'
  BY DEF StoreInv, ArchiveUnique, cvars
<1>4. ~Conflicting(KeptRows)'
  <2>1. ASSUME NEW w \in Workers, Promote(w) PROVE ~Conflicting(KeptRows)'
    BY <2>1, PromoteStore DEF StoreInv
  <2>2. ASSUME \A w \in Workers : ~Promote(w) PROVE ~Conflicting(KeptRows)'
    <3>1. UNCHANGED final
      <4>1. ASSUME NEW w \in Workers, Step(w) PROVE UNCHANGED final
        BY <1>1, <2>2, <4>1, StepOnDisk DEF RunsInv
      <4>2. ASSUME NEW w \in Workers, Start(w) \/ Kill(w) PROVE UNCHANGED final
        BY <1>1, <4>2, StartFrame, KillFrame DEF RunsInv
      <4>3. CASE Provider \/ UNCHANGED vars
        BY <4>3 DEF Provider, Publish, Correct, vars, disk
      <4> QED
        BY <4>1, <4>2, <4>3 DEF Next
    <3>2. KeptRows' = KeptRows
      BY <3>1 DEF KeptRows, Lake, ArchivedRows, cvars
    <3> QED
      BY <3>2 DEF StoreInv, Conflicting
  <2> QED
    BY <2>1, <2>2
<1> QED
  BY <1>2, <1>3, <1>4 DEF StoreInv

LEMMA ObstructedStore ==
  ASSUME Serialized, RaceInv, StoreInv, NEW w \in Workers, Obstructed(w)
  PROVE  StoreInv'
<1>1. UNCHANGED <<final, audit, manifest, ckpt, cvars>> /\ pc'[w] = "idle" /\ job'[w] = NoJob
  BY DEF Obstructed, RefuseLocked, PromoteNowhere, End, Goto, disk, RaceInv, CTypeOK, TypeOK, RunsTypeOK
<1>2. SerialRunInv(w)'
  BY <1>1 DEF SerialRunInv, FreshRows, NewKeysFree, OtherKeysCounted, AuditBeforeManifest,
         CheckpointHeld, NoJob, Conflicting
<1>3. SerialInv'
  BY <1>1, <1>2 DEF StoreInv, SerialInv, Serialized, NoDuplicateKeys, RunsReconcile
<1>4. KeptRows' = KeptRows
  BY <1>1 DEF KeptRows, Lake, ArchivedRows, cvars
<1> QED
  BY <1>1, <1>3, <1>4 DEF StoreInv, Conflicting, ArchiveUnique, cvars

\* Rows of one key are in one partition: no two files of different ones share a key.
LEMMA SamePlace ==
  ASSUME Placed', NEW a \in Artifacts, NEW b \in Artifacts, NEW x \in final'[a], NEW y \in final'[b],
         x.key = y.key
  PROVE  a[1] = b[1]
  BY DEF Placed

LEMMA CompactorUnique ==
  ASSUME RaceInv, QuietInv, Placed', StoreInv, Computes \/ MoveToArchive \/ SwapIn \/ RestoresBack
  PROVE  NoDuplicateKeys' /\ ArchiveUnique'
<1> DEFINE p == compaction.part
           i == compaction.id
<1> USE DEF StoreInv, SerialInv
<1>1. CASE Computes
  <2>1. UNCHANGED <<final, archive>>
    BY <1>1, ComputesType DEF RaceInv
  <2>2. cpc' # "swap"
    BY <1>1 DEF Computes, Begin, CountKeys, CopyRows, RefuseCompaction, StrandOriginals, Interrupt,
                Record, Finish, KillCompactor, Leave
  <2> QED
    BY <2>1, <2>2 DEF NoDuplicateKeys, ArchiveUnique
<1>2. CASE MoveToArchive
  <2>1. /\ p \in Partitions /\ i \in CompactionIds /\ UNCHANGED compaction
        /\ \A n \in FileNames : archive'[i][n] = final[<<p, n>>]
        /\ \A a \in Artifacts : final'[a] \subseteq final[a]
    BY <1>2, MoveEffect DEF RaceInv, MoveToArchive
  <2>2. NoDuplicateKeys'
    BY <2>1 DEF NoDuplicateKeys
  <2>3. ASSUME NEW m \in FileNames, NEW n \in FileNames, NEW x \in archive'[i][m],
               NEW y \in archive'[i][n], x.key = y.key
        PROVE  m = n /\ x = y
    <3>1. x \in final[<<p, m>>] /\ y \in final[<<p, n>>]
      BY <2>1
    <3>2. <<p, m>> \in Artifacts /\ <<p, n>> \in Artifacts
      BY <2>1 DEF Artifacts
    <3> QED
      BY <2>3, <3>1, <3>2 DEF NoDuplicateKeys
  <2> QED
    BY <2>1, <2>2, <2>3 DEF ArchiveUnique
<1>3. CASE SwapIn
  <2>1. /\ p \in Partitions /\ i \in CompactionIds /\ i \in FileNames /\ cpc' = "record"
        /\ \A q \in Partitions, n \in FileNames :
              final'[<<q, n>>] = IF q = p /\ n = i THEN compaction.rows ELSE final[<<q, n>>]
        /\ compaction.rows \subseteq KeptRows
        /\ RowsIn(p) = {}
    BY <1>3, SwapEffect, ArchivedRow DEF RaceInv, SwapIn, KeptRows, Replaceable
  <2>2. ASSUME NEW a \in Artifacts, NEW b \in Artifacts, NEW x \in final'[a], NEW y \in final'[b],
               x.key = y.key
        PROVE  a = b /\ x = y
    <3>1. PICK q \in Partitions, m \in FileNames, n \in FileNames : a = <<q, m>> /\ b = <<q, n>>
      <4>1. PICK q1 \in Partitions, m1 \in FileNames : a = <<q1, m1>>
        BY DEF Artifacts
      <4>2. PICK q2 \in Partitions, m2 \in FileNames : b = <<q2, m2>>
        BY DEF Artifacts
      <4> QED
        BY <2>2, <4>1, <4>2, SamePlace
    <3>2. CASE q = p
      <4>1. \A k \in FileNames : final[<<p, k>>] = {}
        BY <2>1 DEF RowsIn
      <4>2. m = i /\ n = i /\ x \in compaction.rows /\ y \in compaction.rows
        BY <2>1, <3>1, <3>2, <4>1
      <4>3. x \in Rows /\ y \in Rows /\ x.val = y.val
        BY <1>3, <2>1, <2>2, <4>2, CompactionType DEF RaceInv, SwapIn, Conflicting
      <4> QED
        BY <2>2, <3>1, <4>2, <4>3 DEF Rows
    <3>3. CASE q # p
      <4>1. x \in final[a] /\ y \in final[b]
        BY <2>1, <3>1, <3>3
      <4> QED
        BY <2>2, <4>1 DEF NoDuplicateKeys
    <3> QED
      BY <3>2, <3>3
  <2> QED
    BY <2>1, <2>2 DEF NoDuplicateKeys, ArchiveUnique
<1>4. CASE RestoresBack
  <2>1. /\ \A q \in Partitions, n \in FileNames :
              final'[<<q, n>>] = IF q = p THEN archive[i][n] ELSE final[<<q, n>>]
        /\ cpc = "swap" /\ cpc' = "idle"
    BY <1>4, RestoreEffect DEF RaceInv, RestoresBack, Leave
  <2>2. ASSUME NEW a \in Artifacts, NEW b \in Artifacts, NEW x \in final'[a], NEW y \in final'[b],
               x.key = y.key
        PROVE  a = b /\ x = y
    <3>1. PICK q \in Partitions, m \in FileNames, n \in FileNames : a = <<q, m>> /\ b = <<q, n>>
      <4>1. PICK q1 \in Partitions, m1 \in FileNames : a = <<q1, m1>>
        BY DEF Artifacts
      <4>2. PICK q2 \in Partitions, m2 \in FileNames : b = <<q2, m2>>
        BY DEF Artifacts
      <4> QED
        BY <2>2, <4>1, <4>2, SamePlace
    <3>2. CASE q = p
      <4>1. x \in archive[i][m] /\ y \in archive[i][n]
        BY <2>1, <3>1, <3>2
      <4> QED
        BY <2>1, <2>2, <3>1, <4>1 DEF ArchiveUnique
    <3>3. CASE q # p
      <4>1. x \in final[a] /\ y \in final[b]
        BY <2>1, <3>1, <3>3
      <4> QED
        BY <2>2, <4>1 DEF NoDuplicateKeys
    <3> QED
      BY <3>2, <3>3
  <2> QED
    BY <2>1, <2>2 DEF NoDuplicateKeys, ArchiveUnique
<1> QED
  BY <1>1, <1>2, <1>3, <1>4

LEMMA CompactorStore ==
  ASSUME RaceInv, QuietInv, QuietInv', StoreInv, Quiet, Compactor
  PROVE  StoreInv'
<1>1. Computes \/ MoveToArchive \/ SwapIn \/ RestoresBack
  BY CompactorCases DEF RaceInv
<1>2. NoDuplicateKeys' /\ ArchiveUnique' /\ KeptRows' = KeptRows
  BY <1>1, CompactorUnique, CompactorKeeps DEF RaceInv, QuietInv
<1>3. UNCHANGED <<audit, manifest, ckpt, pc, job>> /\ \A w \in Workers : pc[w] = "idle"
  <2>1. UNCHANGED <<audit, manifest, ckpt, pc, job>>
    BY CompactorRest DEF LakeRest
  <2>2. cpc # "idle" \/ cpc' # "idle"
    BY DEF Compactor, Begin, CountKeys, CopyRows, RefuseCompaction, MoveToArchive, SwapIn,
           RollBack, StrandOriginals, Interrupt, Record, Finish, KillCompactor
  <2> QED
    BY <2>1, <2>2 DEF QuietInv, Apart
<1>4. \A w \in Workers : SerialRunInv(w)'
  BY <1>3 DEF StoreInv, SerialInv, SerialRunInv, FreshRows, NewKeysFree, OtherKeysCounted,
              AuditBeforeManifest, CheckpointHeld, Conflicting
<1>5. RunsReconcile'
  BY <1>3 DEF StoreInv, SerialInv, RunsReconcile
<1> QED
  BY <1>2, <1>4, <1>5 DEF StoreInv, SerialInv, Conflicting

LEMMA StoreStep ==
  ASSUME Serialized, RaceInv, QuietInv, RaceInv', QuietInv', StoreInv, [CNext /\ Quiet]_allvars
  PROVE  StoreInv'
  BY RunStore, ObstructedStore, CompactorStore DEF CNext, allvars

\* With one run at a time, compactions apart from it leave one row per key in files and
\* archives together: deduplication over the files alone still sees every key.
THEOREM StoreInvariant == ASSUME Serialized PROVE QuietSpec => []StoreInv
<1>1. CInit => StoreInv
  <2> SUFFICES ASSUME CInit PROVE StoreInv
    OBVIOUS
  <2>1. SerialInv
    BY IdleSerial DEF CInit, Init, SerialInv, NoDuplicateKeys, RunsReconcile
  <2>2. KeptRows = {}
    BY DEF CInit, Init, KeptRows, Lake, ArchivedRows, NoDirectory
  <2> QED
    BY <2>1, <2>2 DEF CInit, StoreInv, Conflicting, ArchiveUnique
<1>2. RaceInv /\ QuietInv /\ (RaceInv /\ QuietInv)' /\ StoreInv /\ [CNext /\ Quiet]_allvars => StoreInv'
  BY StoreStep
<1> QED
  BY <1>1, <1>2, QuietInvariant, PTL DEF QuietSpec

\* Compactions between serialized runs, killed or not, leave one row per key in the
\* files and never make a run's reconciliation fail.
THEOREM CompactionKeepsKeysUnique ==
  ASSUME Serialized PROVE QuietSpec => [](NoDuplicateKeys /\ RunsReconcile)
<1>1. StoreInv => NoDuplicateKeys /\ RunsReconcile
  BY DEF StoreInv, SerialInv
<1> QED
  BY <1>1, StoreInvariant, PTL

\* With its archives the compacted data set is still a write-once keyed store.
THEOREM KeptRowsImplementStore == ASSUME Serialized PROVE QuietSpec => KeptSpec
<1>1. CInit => Kept!Init
  <2> SUFFICES ASSUME CInit PROVE Kept!Init
    OBVIOUS
  <2>1. Lake \cup ArchivedRows = {} /\ acked = {}
    BY DEF CInit, Init, Lake, ArchivedRows, NoDirectory
  <2> QED
    BY <2>1 DEF Kept!Init, Kept!OneRowPerKey
<1>2. ASSUME RaceInv, RaceInv', StoreInv', [CNext /\ Quiet]_allvars
      PROVE  [Kept!Next]_(Kept!vars)
  <2>1. KeptRows \subseteq KeptRows'
    BY <1>2, KeptRowsStep
  <2>2. KeptRows' \subseteq Rows /\ \A x, y \in KeptRows' : x.key = y.key => x = y
    <3>1. KeptRows' \subseteq Rows
      BY <1>2 DEF RaceInv, CTypeOK, TypeOK, KeptRows, Lake, ArchivedRows, Artifacts
    <3> QED
      BY <1>2, <3>1 DEF StoreInv, Conflicting, Rows
  <2>3. UNCHANGED acked \/ (acked \subseteq acked' /\ UNCHANGED KeptRows)
    <3>1. CASE \E w \in Workers : Step(w) /\ UNCHANGED cvars
      <4>1. UNCHANGED acked \/ (acked \subseteq acked' /\ \E w \in Workers : WriteManifest(w))
        BY <3>1, StepAcknowledges
      <4> QED
        BY <3>1, <4>1 DEF WriteManifest, KeptRows, Lake, ArchivedRows, cvars
    <3>2. CASE Compactor
      BY <3>2, CompactorRest DEF LakeRest, history
    <3>3. CASE \E w \in Workers : Obstructed(w)
      BY <3>3 DEF Obstructed, RefuseLocked, PromoteNowhere, history
    <3>4. CASE UNCHANGED vars \/ Provider \/ \E w \in Workers : Start(w) \/ Kill(w)
      BY <3>4 DEF Provider, Publish, Correct, Start, StartBackfill,
             StartIncremental, Enter, Kill, vars, history
    <3> QED
      BY <1>2, <3>1, <3>2, <3>3, <3>4 DEF CNext, Next, allvars
  <2>4. acked' \subseteq KeptRows'
    BY <1>2 DEF RaceInv, AckedRecoverable, KeptRows
  <2> QED
    BY <2>1, <2>2, <2>3, <2>4
    DEF Kept!Next, Kept!Add, Kept!Acknowledge, Kept!vars, Kept!OneRowPerKey, KeptRows
<1> QED
  BY <1>1, <1>2, QuietInvariant, StoreInvariant, PTL DEF QuietSpec, KeptSpec, Kept!Spec

===============================================================================
