--------------------------- MODULE IngestionLakeProofs ---------------------------
(* Theorems about IngestionLake, for every value of its constants. *)
EXTENDS IngestionLake, FiniteSetTheorems, TLAPS

-----------------------------------------------------------------------------
(* The operators of the model stay within their types. *)

LEMMA NoJobType == NoJob \in Jobs
  BY DEF NoJob, Jobs

LEMMA LakeType == ASSUME TypeOK PROVE Lake \subseteq Rows
  BY DEF TypeOK, Lake, Artifacts

LEMMA KeyCount == ASSUME TypeOK PROVE Cardinality(KeysOf(Lake)) \in Nat
<1>1. KeysOf(Lake) \subseteq Keys
  BY LakeType DEF KeysOf, Rows
<1>2. IsFiniteSet(KeysOf(Lake))
  BY <1>1, CalendarAssumption, FS_Subset
<1> QED
  BY <1>2, FS_CardinalityType

LEMMA PartitionsOfType ==
  ASSUME NEW rows \in SUBSET Rows
  PROVE  PartitionsOf(rows) \subseteq Partitions
  BY CalendarAssumption DEF PartitionsOf, Rows

LEMMA AcceptedType ==
  ASSUME TypeOK, NEW supplied \in SUBSET Keys
  PROVE  Accepted(supplied) \in SUBSET Rows
  BY DEF TypeOK, Accepted, Rows

LEMMA SuppliedType ==
  ASSUME NEW lo, NEW hi
  PROVE  Supplied(lo, hi) \in SUBSET Keys
  BY DEF Supplied

-----------------------------------------------------------------------------
(* Type correctness. *)

\* What a step of worker w that ends its run does to pc and job.
LEMMA EndType ==
  ASSUME TypeOK, NEW w \in Workers, End(w)
  PROVE  RunsTypeOK'
  BY NoJobType DEF TypeOK, RunsTypeOK, End, Goto

LEMMA EnterType ==
  ASSUME TypeOK, NEW w \in Workers, NEW r \in RunIds, NEW incremental \in BOOLEAN,
         NEW supplied \in SUBSET Keys, Enter(w, r, incremental, supplied),
         horizon' \in Dates \cup {0}
  PROVE  TypeOK'
<1>1. [NoJob EXCEPT !.id = r, !.incremental = incremental, !.accepted = Accepted(supplied),
                    !.rejected = {k \in supplied : source[k] \in Defects}] \in Jobs
  BY NoJobType, AcceptedType DEF NoJob, Jobs
<1> QED
  BY <1>1 DEF TypeOK, RunsTypeOK, Enter, disk, Goto, NoJob

LEMMA AdvanceType ==
  ASSUME TypeOK, NEW w \in Workers, pc[w] # "idle", NEW p,
         NEW again \in {"open", "check"}, NEW after \in {"check", "reconcile"},
         Advance(w, p, again, after)
  PROVE  RunsTypeOK'
<1>1. job[w] \in Jobs /\ job[w].fresh \in SUBSET Rows
  BY DEF TypeOK, RunsTypeOK, Jobs
<1>2. PartitionsOf(job[w].fresh) \in SUBSET Partitions /\ job[w].todo \ {p} \in SUBSET Partitions
  BY <1>1, PartitionsOfType DEF Jobs
<1> DEFINE rest == job[w].todo \ {p}
<1> DEFINE left == IF rest = {} /\ after = "check" THEN PartitionsOf(job[w].fresh) ELSE rest
<1>3. left \in SUBSET Partitions
  BY <1>2
<1>4. job' = [job EXCEPT ![w].todo = left] /\ Goto(w, IF rest = {} THEN after ELSE again)
  BY DEF Advance
<1> HIDE DEF left, rest
<1> QED
  BY <1>1, <1>3, <1>4 DEF TypeOK, RunsTypeOK, Jobs, Goto

\* Every step of a run that keeps its job, or changes the fields named here, is typed.
LEMMA StepType == ASSUME TypeOK, NEW w \in Workers, Step(w) PROVE TypeOK'
<1> USE DEF TypeOK, disk, history
<1>0. pc[w] # "idle" => job[w] \in Jobs /\ job[w].id \in RunIds
  BY DEF RunsTypeOK
<1>1. CASE WriteQuarantine(w)
  BY <1>0, <1>1 DEF WriteQuarantine, Diagnosed, RunsTypeOK, Goto
<1>2. CASE RefuseQuarantine(w)
  BY <1>2, EndType DEF RefuseQuarantine
<1>3. CASE ReadExisting(w)
  <2>1. NewRows(w) \in SUBSET Rows
    BY <1>0, <1>3 DEF ReadExisting, NewRows, Jobs
  <2>2. PartitionsOf(NewRows(w)) \in SUBSET Partitions /\ Cardinality(KeysOf(Lake)) \in Nat
    BY <2>1, PartitionsOfType, KeyCount
  <2> QED
    BY <1>0, <1>3, <2>1, <2>2 DEF ReadExisting, RunsTypeOK, Jobs, Goto
<1>4. CASE RefuseConflict(w)
  BY <1>4, EndType DEF RefuseConflict
<1>5. CASE OpenTemp(w)
  BY <1>0, <1>5 DEF OpenTemp, Goto, RunsTypeOK, Part, Artifacts
<1>6. CASE WriteTemp(w)
  <2>1. PICK p \in Partitions : /\ staged' = [staged EXCEPT ![Part(w, p)] = In(job[w].fresh, p)]
                               /\ Advance(w, p, "open", "check")
    BY <1>6 DEF WriteTemp
  <2>2. RunsTypeOK'
    BY <1>6, <2>1, AdvanceType DEF WriteTemp
  <2>3. In(job[w].fresh, p) \in SUBSET Rows
    BY <1>0, <1>6 DEF WriteTemp, In, Jobs
  <2> QED
    BY <1>6, <2>1, <2>2, <2>3 DEF WriteTemp
<1>7. CASE RefuseArtifact(w)
  BY <1>7, EndType DEF RefuseArtifact
<1>8. CASE CheckPromotion(w)
  BY <1>0, <1>8 DEF CheckPromotion, Goto, RunsTypeOK
<1>9. CASE Promote(w)
  <2>1. PICK p \in Partitions : /\ final' = [final EXCEPT ![Part(w, p)] = staged[Part(w, p)]]
                               /\ staged' = [staged EXCEPT ![Part(w, p)] = {}]
                               /\ Advance(w, p, "check", "reconcile")
    BY <1>9 DEF Promote
  <2>2. RunsTypeOK'
    BY <1>9, <2>1, AdvanceType DEF Promote
  <2>3. Part(w, p) \in Artifacts
    BY <1>0, <1>9, NamesAssumption DEF Promote, Part, Artifacts
  <2> QED
    BY <1>9, <2>1, <2>2, <2>3 DEF Promote
<1>10. CASE Reconcile(w)
  BY <1>0, <1>10 DEF Reconcile, Goto, RunsTypeOK
<1>11. CASE FailReconciliation(w)
  BY <1>11, EndType DEF FailReconciliation
<1>12. CASE FailRecount(w)
  BY <1>12, EndType DEF FailRecount
<1>13. CASE WriteManifest(w)
  <2>1. RunsTypeOK'
    BY <1>0, <1>13, EndType DEF WriteManifest, Goto, RunsTypeOK
  <2>2. job[w].accepted \subseteq Rows
    BY <1>0, <1>13 DEF WriteManifest, Jobs
  <2> QED
    BY <1>13, <2>1, <2>2 DEF WriteManifest
<1>14. CASE GetCheckpoint(w)
  BY <1>0, <1>14 DEF GetCheckpoint, Goto, RunsTypeOK, Jobs
<1>15. CASE AdvanceCheckpoint(w)
  <2>1. CandidateDates(w) \subseteq Dates \cup {0}
    BY <1>0, <1>15, CalendarAssumption
    DEF AdvanceCheckpoint, CandidateDates, EventDates, Jobs, Rows
  <2> QED
    BY <1>15, <2>1, EndType DEF AdvanceCheckpoint
<1> QED
  BY <1>1, <1>2, <1>3, <1>4, <1>5, <1>6, <1>7, <1>8, <1>9, <1>10, <1>11, <1>12,
     <1>13, <1>14, <1>15 DEF Step

LEMMA StartType == ASSUME TypeOK, NEW w \in Workers, Start(w) PROVE TypeOK'
<1>1. CASE \E r \in RunIds : StartBackfill(w, r)
  <2>1. PICK r \in RunIds, lo \in Dates, hi \in Dates :
          Enter(w, r, FALSE, Supplied(lo, hi)) /\ UNCHANGED horizon
    BY <1>1 DEF StartBackfill
  <2> QED
    BY <2>1, SuppliedType, EnterType DEF TypeOK
<1>2. CASE \E r \in RunIds, through \in Dates : StartIncremental(w, r, through)
  <2>1. PICK r \in RunIds, through \in Dates : StartIncremental(w, r, through)
    BY <1>2
  <2> DEFINE supplied == Supplied(FetchFrom, through)
  <2>2. supplied \in SUBSET Keys
    BY SuppliedType
  <2>3. Accepted(supplied) \in SUBSET Rows
    BY <2>2, AcceptedType
  <2>4. {DateOf[x.key] : x \in Accepted(supplied)} \subseteq Dates
    BY <2>3, CalendarAssumption DEF Rows
  <2>5. Enter(w, r, TRUE, supplied) /\ horizon' \in Dates \cup {0}
    BY <2>1, <2>4 DEF StartIncremental, TypeOK
  <2> QED
    BY <2>2, <2>5, EnterType
<1> QED
  BY <1>1, <1>2 DEF Start

\* The state of the provider, of the disk and of every run stays within its type.
THEOREM TypeCorrect == Spec => []TypeOK
<1>1. Init => TypeOK
  BY NoJobType DEF Init, TypeOK, RunsTypeOK
<1>2. TypeOK /\ [Next]_vars => TypeOK'
  <2> SUFFICES ASSUME TypeOK, [Next]_vars PROVE TypeOK'
    OBVIOUS
  <2>1. ASSUME NEW k \in Keys, Publish(k) PROVE TypeOK'
    BY <2>1 DEF Publish, TypeOK, RunsTypeOK, disk
  <2>2. ASSUME NEW k \in Keys, Correct(k) PROVE TypeOK'
    BY <2>2 DEF Correct, TypeOK, RunsTypeOK, disk, history
  <2>3. ASSUME NEW w \in Workers, Kill(w) PROVE TypeOK'
    BY <2>3, EndType DEF Kill, TypeOK, disk, history
  <2>4. CASE UNCHANGED vars
    BY <2>4 DEF vars, TypeOK, RunsTypeOK, disk, history
  <2> QED
    BY <2>1, <2>2, <2>3, <2>4, StartType, StepType DEF Next, Provider
<1> QED
  BY <1>1, <1>2, PTL DEF Spec

-----------------------------------------------------------------------------
(* Retention.  What a run knows about its own files at each step: the       *)
(* inductive strengthening of AckedRetained and FinalFilesImmutable.  The   *)
(* rows that stay readable are a parameter: the final files here, those and *)
(* the archives of compactions in CompactionProofs.                         *)

\* Active runs have different ids, so no two of them touch the same file.
DistinctRuns ==
    \A v, w \in Workers :
        v # w /\ pc[v] # "idle" /\ pc[w] # "idle" => job[v].id # job[w].id

\* From its first read on, a run's rows that are not new are retained.
ReplaysRetained(w, rows) ==
    pc[w] \in {"open", "write", "check", "promote", "reconcile", "manifest"} =>
        job[w].accepted \ job[w].fresh \subseteq rows

\* A partition that staging has passed, or that promotion has before it, is
\* staged in full.
StagedInFull(w) ==
    /\ pc[w] \in {"open", "write"} =>
          \A p \in PartitionsOf(job[w].fresh) \ job[w].todo :
              staged[Part(w, p)] = In(job[w].fresh, p)
    /\ pc[w] \in {"check", "promote"} =>
          \A p \in job[w].todo : staged[Part(w, p)] = In(job[w].fresh, p)

\* A partition that promotion has passed is retained.
PromotedInFull(w, rows) ==
    pc[w] \in {"check", "promote"} =>
        \A p \in PartitionsOf(job[w].fresh) \ job[w].todo : In(job[w].fresh, p) \subseteq rows

\* The target of a rename is free.
TargetFree(w) ==
    pc[w] = "promote" => \A p \in Partitions : IsNext(w, p) => final[Part(w, p)] = {}

\* When the files are promoted, everything the run accepted is retained.
AcceptedRetained(w, rows) ==
    pc[w] \in {"reconcile", "manifest"} => job[w].accepted \subseteq rows

RunKeeps(w, rows) ==
    /\ ReplaysRetained(w, rows) /\ StagedInFull(w)
    /\ PromotedInFull(w, rows) /\ AcceptedRetained(w, rows)

RunInv(w) == RunKeeps(w, Lake) /\ TargetFree(w)

RunsInv ==
    /\ TypeOK
    /\ DistinctRuns
    /\ \A w \in Workers : RunInv(w)

RetentionInv == RunsInv /\ AckedRetained

\* The final files are among rows, and neither those nor the new files get lost.
Keeping(rows, next) == Lake \subseteq rows /\ rows \subseteq next /\ Lake' \subseteq next

\* What a step of worker w leaves alone: the other runs, the files of other ids,
\* and every file that is already there.
Frame(w) ==
    /\ \A v \in Workers \ {w} : pc'[v] = pc[v] /\ job'[v] = job[v]
    /\ \A a \in Artifacts : a[2] # job[w].id => final'[a] = final[a] /\ staged'[a] = staged[a]
    /\ \A a \in Artifacts : final[a] # {} => final'[a] = final[a]

LEMMA LakeGrows ==
  ASSUME NEW w, Frame(w)
  PROVE  Lake \subseteq Lake'
  BY DEF Frame, Lake

LEMMA OneNext ==
  ASSUME NEW w, NEW p \in Partitions, NEW q \in Partitions, IsNext(w, p), IsNext(w, q)
  PROVE  p = q
  BY CalendarAssumption DEF IsNext

LEMMA StepFrame ==
  ASSUME TypeOK, NEW w \in Workers, TargetFree(w), Step(w)
  PROVE  Frame(w)
<1> USE DEF TypeOK, RunsTypeOK, Frame
<1>1. CASE WriteQuarantine(w) \/ ReadExisting(w) \/ CheckPromotion(w) \/ Reconcile(w)
           \/ GetCheckpoint(w)
  BY <1>1 DEF WriteQuarantine, ReadExisting, CheckPromotion, Reconcile, GetCheckpoint,
              Goto, disk
<1>2. CASE \/ RefuseQuarantine(w) \/ RefuseConflict(w) \/ RefuseArtifact(w)
           \/ FailReconciliation(w) \/ FailRecount(w) \/ AdvanceCheckpoint(w)
  BY <1>2 DEF RefuseQuarantine, RefuseConflict, RefuseArtifact, FailReconciliation, FailRecount,
              AdvanceCheckpoint, End, Goto, disk
<1>3. CASE WriteManifest(w)
  BY <1>3 DEF WriteManifest, End, Goto
<1>4. CASE OpenTemp(w)
  BY <1>4 DEF OpenTemp, Goto, Part, Artifacts
<1>5. CASE WriteTemp(w)
  BY <1>5 DEF WriteTemp, Advance, Goto, Part, Artifacts
<1>6. CASE Promote(w)
  <2>1. PICK p \in Partitions : /\ IsNext(w, p)
                               /\ final' = [final EXCEPT ![Part(w, p)] = staged[Part(w, p)]]
                               /\ staged' = [staged EXCEPT ![Part(w, p)] = {}]
                               /\ Advance(w, p, "check", "reconcile")
    BY <1>6 DEF Promote
  <2>2. final[Part(w, p)] = {}
    BY <1>6, <2>1 DEF Promote, TargetFree
  <2>3. \A v \in Workers \ {w} : pc'[v] = pc[v] /\ job'[v] = job[v]
    BY <2>1 DEF Advance, Goto
  <2>4. \A a \in Artifacts : a # Part(w, p) => final'[a] = final[a] /\ staged'[a] = staged[a]
    BY <2>1 DEF Artifacts
  <2>5. \A a \in Artifacts : a[2] # job[w].id => a # Part(w, p)
    BY DEF Part, Artifacts
  <2> QED
    BY <2>2, <2>3, <2>4, <2>5
<1> QED
  BY <1>1, <1>2, <1>3, <1>4, <1>5, <1>6 DEF Step

LEMMA OthersKept ==
  ASSUME TypeOK, DistinctRuns, NEW w \in Workers, Frame(w), NEW v \in Workers \ {w},
         NEW rows, NEW next, rows \subseteq next, RunKeeps(v, rows), TargetFree(v),
         pc[w] # "idle" \/ UNCHANGED <<final, staged>>
  PROVE  RunKeeps(v, next)' /\ TargetFree(v)'
<1>1. CASE pc[v] = "idle"
  BY <1>1 DEF Frame, RunKeeps, ReplaysRetained, StagedInFull, PromotedInFull, AcceptedRetained,
              TargetFree
<1>2. CASE pc[v] # "idle"
  <2>1. pc'[v] = pc[v] /\ job'[v] = job[v]
    BY DEF Frame
  <2>2. job[v].id \in FileNames /\ (pc[w] # "idle" => job[v].id # job[w].id)
    BY <1>2, NamesAssumption DEF TypeOK, RunsTypeOK, DistinctRuns
  <2>3. \A p \in Partitions : /\ Part(v, p)' = Part(v, p)
                              /\ final'[Part(v, p)] = final[Part(v, p)]
                              /\ staged'[Part(v, p)] = staged[Part(v, p)]
    BY <2>1, <2>2 DEF Frame, Part, Artifacts
  <2>4. job[v].todo \subseteq Partitions /\ PartitionsOf(job[v].fresh) \subseteq Partitions
    BY PartitionsOfType DEF TypeOK, RunsTypeOK, Jobs
  <2>5. ReplaysRetained(v, next)' /\ AcceptedRetained(v, next)' /\ PromotedInFull(v, next)'
    BY <2>1 DEF RunKeeps, ReplaysRetained, AcceptedRetained, PromotedInFull
  <2>6. StagedInFull(v)'
    BY <2>1, <2>3, <2>4 DEF RunKeeps, StagedInFull
  <2>7. TargetFree(v)'
    BY <2>1, <2>3 DEF TargetFree, IsNext
  <2> QED
    BY <2>5, <2>6, <2>7 DEF RunKeeps
<1> QED
  BY <1>1, <1>2

\* The steps at which a run holds no promise about its files.
LEMMA NoPromises ==
  ASSUME NEW w, NEW rows, pc[w] \in {"idle", "quarantine", "read", "get", "advance"}
  PROVE  RunKeeps(w, rows) /\ TargetFree(w)
  BY DEF RunKeeps, ReplaysRetained, StagedInFull, PromotedInFull, AcceptedRetained, TargetFree

LEMMA NoPromisesNext ==
  ASSUME NEW w, NEW next, pc'[w] \in {"idle", "quarantine", "read", "get", "advance"}
  PROVE  RunKeeps(w, next)' /\ TargetFree(w)'
  BY DEF RunKeeps, ReplaysRetained, StagedInFull, PromotedInFull, AcceptedRetained, TargetFree

\* With the rows of the next state, this is the next state's invariant of the run.
LEMMA RunInvNext ==
  ASSUME NEW w, NEW next, next = Lake', RunKeeps(w, next)', TargetFree(w)'
  PROVE  RunInv(w)'
  BY DEF RunInv, RunKeeps, ReplaysRetained, StagedInFull, PromotedInFull, AcceptedRetained

LEMMA ReadKept ==
  ASSUME TypeOK, NEW w \in Workers, NEW rows, NEW next, Keeping(rows, next),
         RunKeeps(w, rows), ReadExisting(w)
  PROVE  RunKeeps(w, next)' /\ TargetFree(w)'
<1> USE DEF Keeping
<1>1. /\ job'[w].accepted = job[w].accepted
      /\ job'[w].fresh = NewRows(w)
      /\ job'[w].todo = PartitionsOf(NewRows(w))
      /\ pc'[w] = IF NewRows(w) = {} THEN "reconcile" ELSE "open"
  BY DEF ReadExisting, Goto, TypeOK, RunsTypeOK, Jobs
<1>2. job[w].accepted \ NewRows(w) \subseteq Lake
  BY DEF ReadExisting, NewRows, Changed
<1> QED
  BY <1>1, <1>2 DEF RunKeeps, ReplaysRetained, StagedInFull, PromotedInFull, AcceptedRetained, TargetFree

LEMMA OpenKept ==
  ASSUME TypeOK, NEW w \in Workers, NEW rows, NEW next, Keeping(rows, next),
         RunKeeps(w, rows), OpenTemp(w)
  PROVE  RunKeeps(w, next)' /\ TargetFree(w)'
<1> USE DEF Keeping
<1>1. PICK p \in job[w].todo : staged' = [staged EXCEPT ![Part(w, p)] = {}]
  BY DEF OpenTemp, IsNext
<1>2. pc'[w] = "write" /\ job' = job
  BY DEF OpenTemp, Goto, TypeOK, RunsTypeOK
<1>3. \A q \in Partitions : q # p => staged'[Part(w, q)] = staged[Part(w, q)]
  BY <1>1, NamesAssumption DEF TypeOK, RunsTypeOK, OpenTemp, Part, Artifacts
<1>4. PartitionsOf(job[w].fresh) \subseteq Partitions
  BY PartitionsOfType DEF TypeOK, RunsTypeOK, Jobs
<1>5. StagedInFull(w)'
  BY <1>1, <1>2, <1>3, <1>4 DEF RunKeeps, StagedInFull, OpenTemp, Part
<1> QED
  BY <1>2, <1>5 DEF RunKeeps, ReplaysRetained, PromotedInFull, AcceptedRetained, OpenTemp, TargetFree

LEMMA WriteKept ==
  ASSUME TypeOK, NEW w \in Workers, NEW rows, NEW next, Keeping(rows, next),
         RunKeeps(w, rows), WriteTemp(w)
  PROVE  RunKeeps(w, next)' /\ TargetFree(w)'
<1> USE DEF Keeping
<1>1. PICK p \in Partitions : /\ IsNext(w, p)
                             /\ staged' = [staged EXCEPT ![Part(w, p)] = In(job[w].fresh, p)]
                             /\ Advance(w, p, "open", "check")
  BY DEF WriteTemp
<1> DEFINE rest == job[w].todo \ {p}
<1>2. /\ job'[w].id = job[w].id
      /\ job'[w].accepted = job[w].accepted
      /\ job'[w].fresh = job[w].fresh
      /\ job'[w].todo = IF rest = {} THEN PartitionsOf(job[w].fresh) ELSE rest
      /\ pc'[w] = IF rest = {} THEN "check" ELSE "open"
  BY <1>1 DEF Advance, Goto, TypeOK, RunsTypeOK, Jobs
<1>3. \A q \in Partitions : staged'[Part(w, q)] =
          IF q = p THEN In(job[w].fresh, p) ELSE staged[Part(w, q)]
  BY <1>1, NamesAssumption DEF TypeOK, RunsTypeOK, WriteTemp, Part, Artifacts
<1>4. \A q \in PartitionsOf(job[w].fresh) \ rest : staged'[Part(w, q)] = In(job[w].fresh, q)
  <2>1. PartitionsOf(job[w].fresh) \subseteq Partitions
    BY PartitionsOfType DEF TypeOK, RunsTypeOK, Jobs
  <2> QED
    BY <1>3, <2>1 DEF RunKeeps, StagedInFull, WriteTemp
<1>5. StagedInFull(w)'
  BY <1>2, <1>4 DEF StagedInFull, Part
<1>6. ReplaysRetained(w, next)' /\ AcceptedRetained(w, next)'
  BY <1>2 DEF RunKeeps, ReplaysRetained, AcceptedRetained, WriteTemp
<1>7. PromotedInFull(w, next)' /\ TargetFree(w)'
  BY <1>2 DEF PromotedInFull, TargetFree
<1> QED
  BY <1>5, <1>6, <1>7 DEF RunKeeps

LEMMA CheckKept ==
  ASSUME TypeOK, NEW w \in Workers, NEW rows, NEW next, Keeping(rows, next),
         RunKeeps(w, rows), CheckPromotion(w)
  PROVE  RunKeeps(w, next)' /\ TargetFree(w)'
<1> USE DEF Keeping
<1>1. /\ pc[w] = "check" /\ pc'[w] = "promote"
      /\ UNCHANGED <<job, staged, final>>
  BY DEF CheckPromotion, Goto, TypeOK, RunsTypeOK
<1>2. \A p \in Partitions : IsNext(w, p) => final[Part(w, p)] = {}
  BY OneNext DEF CheckPromotion
<1> QED
  BY <1>1, <1>2
  DEF RunKeeps, ReplaysRetained, StagedInFull, PromotedInFull, AcceptedRetained, TargetFree, IsNext, Part

LEMMA PromoteKept ==
  ASSUME TypeOK, NEW w \in Workers, NEW rows, NEW next, Keeping(rows, next),
         RunKeeps(w, rows), Promote(w)
  PROVE  RunKeeps(w, next)' /\ TargetFree(w)'
<1> USE DEF Keeping
<1>1. PICK p \in Partitions : /\ IsNext(w, p)
                             /\ final' = [final EXCEPT ![Part(w, p)] = staged[Part(w, p)]]
                             /\ staged' = [staged EXCEPT ![Part(w, p)] = {}]
                             /\ Advance(w, p, "check", "reconcile")
  BY DEF Promote
<1> DEFINE rest == job[w].todo \ {p}
<1>2. /\ job'[w].id = job[w].id
      /\ job'[w].accepted = job[w].accepted
      /\ job'[w].fresh = job[w].fresh
      /\ job'[w].todo = rest
      /\ pc'[w] = IF rest = {} THEN "reconcile" ELSE "check"
  BY <1>1 DEF Advance, Goto, TypeOK, RunsTypeOK, Jobs
<1>3. Part(w, p) \in Artifacts
  BY NamesAssumption DEF Promote, TypeOK, RunsTypeOK, Part, Artifacts
<1>4. /\ \A q \in Partitions : q # p => staged'[Part(w, q)] = staged[Part(w, q)]
      /\ job[w].todo \subseteq Partitions
  BY <1>1 DEF TypeOK, RunsTypeOK, Jobs, Part, Artifacts
<1>5. StagedInFull(w)'
  BY <1>2, <1>4 DEF RunKeeps, StagedInFull, Promote, Part
<1>6. In(job[w].fresh, p) \subseteq next
  <2>1. staged[Part(w, p)] = In(job[w].fresh, p)
    BY <1>1 DEF RunKeeps, StagedInFull, Promote, IsNext
  <2>2. final'[Part(w, p)] = In(job[w].fresh, p)
    BY <1>1, <1>3, <2>1 DEF TypeOK
  <2> QED
    BY <1>3, <2>2 DEF Lake
<1>7. \A q \in PartitionsOf(job[w].fresh) \ rest : In(job[w].fresh, q) \subseteq next
  BY <1>6 DEF RunKeeps, PromotedInFull, Promote
<1>8. PromotedInFull(w, next)'
  BY <1>2, <1>7 DEF PromotedInFull
<1>9. ReplaysRetained(w, next)'
  BY <1>2 DEF RunKeeps, ReplaysRetained, Promote
<1>10. AcceptedRetained(w, next)'
  <2> SUFFICES ASSUME rest = {} PROVE job[w].accepted \subseteq next
    BY <1>2 DEF AcceptedRetained
  <2>1. \A r \in job[w].fresh : r \in In(job[w].fresh, PartitionOf[r.key])
                                /\ PartitionOf[r.key] \in PartitionsOf(job[w].fresh)
    BY DEF In, PartitionsOf
  <2>2. job[w].fresh \subseteq next
    BY <1>7, <2>1
  <2> QED
    BY <2>2 DEF RunKeeps, ReplaysRetained, Promote
<1>11. TargetFree(w)'
  BY <1>2 DEF TargetFree
<1> QED
  BY <1>5, <1>8, <1>9, <1>10, <1>11 DEF RunKeeps

LEMMA StepKept ==
  ASSUME TypeOK, NEW w \in Workers, NEW rows, NEW next, Keeping(rows, next),
         RunKeeps(w, rows), Step(w)
  PROVE  RunKeeps(w, next)' /\ TargetFree(w)'
<1> USE DEF TypeOK, RunsTypeOK
<1>1. CASE ReadExisting(w)
  BY <1>1, ReadKept
<1>2. CASE OpenTemp(w)
  BY <1>2, OpenKept
<1>3. CASE WriteTemp(w)
  BY <1>3, WriteKept
<1>4. CASE CheckPromotion(w)
  BY <1>4, CheckKept
<1>5. CASE Promote(w)
  BY <1>5, PromoteKept
<1>6. CASE Reconcile(w)
  BY <1>6 DEF Reconcile, Goto, RunKeeps, ReplaysRetained, StagedInFull, PromotedInFull,
              AcceptedRetained, TargetFree, Keeping
<1>7. CASE \/ WriteQuarantine(w) \/ WriteManifest(w) \/ GetCheckpoint(w)
           \/ RefuseQuarantine(w) \/ RefuseConflict(w) \/ RefuseArtifact(w)
           \/ FailReconciliation(w) \/ FailRecount(w) \/ AdvanceCheckpoint(w)
  <2>1. pc'[w] \in {"idle", "quarantine", "read", "get", "advance"}
    BY <1>7 DEF WriteQuarantine, WriteManifest, GetCheckpoint, RefuseQuarantine,
                RefuseConflict, RefuseArtifact, FailReconciliation, FailRecount,
                AdvanceCheckpoint, End, Goto
  <2> QED
    BY <2>1, NoPromisesNext
<1> QED
  BY <1>1, <1>2, <1>3, <1>4, <1>5, <1>6, <1>7 DEF Step

LEMMA StepActive == ASSUME NEW w \in Workers, Step(w) PROVE pc[w] # "idle"
  BY DEF Step, WriteQuarantine, RefuseQuarantine, ReadExisting, RefuseConflict, OpenTemp,
         WriteTemp, RefuseArtifact, CheckPromotion, Promote,
         Reconcile, FailReconciliation, FailRecount, WriteManifest, GetCheckpoint,
         AdvanceCheckpoint

\* A step neither gives a run a new id nor starts one.
LEMMA StepDistinct ==
  ASSUME TypeOK, DistinctRuns, NEW w \in Workers, Step(w), Frame(w)
  PROVE  DistinctRuns'
<1>1. pc[w] # "idle"
  BY StepActive
<1>2. pc'[w] = "idle" \/ job'[w].id = job[w].id
  BY DEF TypeOK, RunsTypeOK, Jobs, Step, WriteQuarantine, RefuseQuarantine, ReadExisting,
         RefuseConflict, OpenTemp, WriteTemp, RefuseArtifact, CheckPromotion,
         Promote, Reconcile, FailReconciliation, FailRecount, WriteManifest,
         GetCheckpoint, AdvanceCheckpoint, Advance, End, Goto
<1> QED
  BY <1>1, <1>2 DEF DistinctRuns, Frame

\* Starting a run and killing one change no file; a run starts under an unused id.
LEMMA StartFrame ==
  ASSUME TypeOK, DistinctRuns, NEW w \in Workers, Start(w)
  PROVE  /\ Frame(w) /\ UNCHANGED <<final, staged, acked>>
         /\ (\A next : RunKeeps(w, next)') /\ TargetFree(w)' /\ DistinctRuns'
<1>1. PICK r \in RunIds, incremental \in BOOLEAN, supplied \in SUBSET Keys :
        Enter(w, r, incremental, supplied)
  BY SuppliedType DEF Start, StartBackfill, StartIncremental
<1>2. Frame(w) /\ UNCHANGED <<final, staged, acked>> /\ pc'[w] = "quarantine"
  BY <1>1 DEF Enter, Frame, Goto, disk, TypeOK, RunsTypeOK
<1>3. (\A next : RunKeeps(w, next)') /\ TargetFree(w)'
  BY <1>2, NoPromisesNext
<1>4. job'[w].id = r /\ \A v \in Workers : pc[v] # "idle" => job[v].id # r
  BY <1>1 DEF Enter, NoJob, TypeOK, RunsTypeOK
<1> QED
  BY <1>2, <1>3, <1>4 DEF DistinctRuns, Frame

LEMMA KillFrame ==
  ASSUME TypeOK, DistinctRuns, NEW w \in Workers, Kill(w)
  PROVE  /\ Frame(w) /\ UNCHANGED <<final, staged, acked>> /\ pc[w] # "idle"
         /\ (\A next : RunKeeps(w, next)') /\ TargetFree(w)' /\ DistinctRuns'
<1>1. Frame(w) /\ UNCHANGED <<final, staged, acked>> /\ pc[w] # "idle" /\ pc'[w] = "idle"
  BY DEF Kill, End, Goto, Frame, disk, history, TypeOK, RunsTypeOK
<1>2. (\A next : RunKeeps(w, next)') /\ TargetFree(w)'
  BY <1>1, NoPromisesNext
<1> QED
  BY <1>1, <1>2 DEF DistinctRuns, Frame

\* Only _write_manifest acknowledges rows, and only those its run accepted.
LEMMA StepAcknowledges ==
  ASSUME NEW w \in Workers, Step(w)
  PROVE  \/ UNCHANGED acked
         \/ pc[w] = "manifest" /\ WriteManifest(w) /\ acked' = acked \cup job[w].accepted
  BY DEF Step, WriteQuarantine, RefuseQuarantine, ReadExisting, RefuseConflict, OpenTemp,
         WriteTemp, RefuseArtifact, CheckPromotion, Promote,
         Reconcile, FailReconciliation, FailRecount, WriteManifest, GetCheckpoint,
         AdvanceCheckpoint, history

LEMMA RetentionStep ==
  ASSUME RetentionInv, TypeOK', [Next]_vars
  PROVE  /\ RetentionInv'
         /\ \A a \in Artifacts : final[a] # {} => final'[a] = final[a]
<1> USE DEF RetentionInv, RunsInv
<1>1. ASSUME NEW w \in Workers, Step(w)
      PROVE  /\ RetentionInv'
             /\ \A a \in Artifacts : final[a] # {} => final'[a] = final[a]
  <2>1. Frame(w)
    BY <1>1, StepFrame DEF RunInv
  <2>2. Lake \subseteq Lake'
    BY <2>1, LakeGrows
  <2>3. PICK rows, next : rows = Lake /\ next = Lake'
    OBVIOUS
  <2>4. \A v \in Workers : RunKeeps(v, rows) /\ TargetFree(v)
    BY <2>3 DEF RunInv
  <2>5. ASSUME NEW v \in Workers PROVE RunKeeps(v, next)' /\ TargetFree(v)'
    <3>1. CASE v = w
      BY <1>1, <2>2, <2>3, <2>4, <3>1, StepKept DEF Keeping
    <3>2. CASE v # w
      BY <1>1, <2>1, <2>2, <2>3, <2>4, <3>2, StepActive, OthersKept
    <3> QED
      BY <3>1, <3>2
  <2>6. \A v \in Workers : RunInv(v)'
    BY <2>3, <2>5, RunInvNext
  <2>7. AckedRetained'
    BY <1>1, <2>2, StepAcknowledges DEF AckedRetained, RunInv, RunKeeps, AcceptedRetained
  <2> QED
    BY <1>1, <2>1, <2>6, <2>7, StepDistinct DEF Frame
<1>2. ASSUME NEW w \in Workers, Start(w) \/ Kill(w)
      PROVE  /\ RetentionInv'
             /\ \A a \in Artifacts : final[a] # {} => final'[a] = final[a]
  <2>1. PICK rows : rows = Lake
    OBVIOUS
  <2>2. /\ Frame(w) /\ UNCHANGED <<final, staged, acked>>
        /\ RunKeeps(w, rows)' /\ TargetFree(w)' /\ DistinctRuns'
    BY <1>2, StartFrame, KillFrame
  <2>3. rows = Lake'
    BY <2>1, <2>2 DEF Lake
  <2>4. \A v \in Workers \ {w} : RunKeeps(v, rows) /\ TargetFree(v)
    BY <2>1 DEF RunInv
  <2>5. \A v \in Workers : RunKeeps(v, rows)' /\ TargetFree(v)'
    BY <2>2, <2>4, OthersKept
  <2>6. \A v \in Workers : RunInv(v)'
    BY <2>3, <2>5, RunInvNext
  <2> QED
    BY <2>2, <2>6 DEF AckedRetained, Lake
<1>3. CASE Provider \/ UNCHANGED vars
  <2>1. UNCHANGED <<final, staged, pc, job, acked>>
    BY <1>3 DEF Provider, Publish, Correct, vars, disk, history
  <2> QED
    BY <2>1 DEF DistinctRuns, RunInv, RunKeeps, ReplaysRetained, StagedInFull, PromotedInFull,
                AcceptedRetained, TargetFree, AckedRetained, Lake, Part, IsNext
<1> QED
  BY <1>1, <1>2, <1>3 DEF Next

THEOREM RetentionInvariant == Spec => []RetentionInv
<1>1. Init => RetentionInv
  <2> SUFFICES ASSUME Init PROVE RetentionInv
    OBVIOUS
  <2>1. TypeOK
    BY NoJobType DEF Init, TypeOK, RunsTypeOK
  <2>2. DistinctRuns /\ \A w \in Workers : RunInv(w)
    BY NoPromises DEF Init, DistinctRuns, RunInv
  <2> QED
    BY <2>1, <2>2 DEF Init, RetentionInv, RunsInv, AckedRetained
<1>2. TypeOK' /\ RetentionInv /\ [Next]_vars => RetentionInv'
  BY RetentionStep
<1> QED
  BY <1>1, <1>2, TypeCorrect, PTL DEF Spec

\* However many runs execute, crash and are retried: every row that a success
\* manifest accounted for is readable from the final files.
THEOREM AcknowledgedRowsRetained == Spec => []AckedRetained
<1>1. RetentionInv => AckedRetained
  BY DEF RetentionInv
<1> QED
  BY <1>1, RetentionInvariant, PTL

\* No run rewrites or removes a file that became canonical.
THEOREM PromotedFilesImmutable == Spec => FinalFilesImmutable
<1>1. TypeOK' /\ RetentionInv /\ [Next]_vars
        => [\A a \in Artifacts : final[a] # {} => final'[a] = final[a]]_vars
  BY RetentionStep
<1> QED
  BY <1>1, TypeCorrect, RetentionInvariant, PTL DEF Spec, FinalFilesImmutable

-----------------------------------------------------------------------------
(* Consistency.  AckedConsistent is not inductive: a run between its audit   *)
(* and its manifest is about to acknowledge what it accepted.                *)

\* Rows that are acknowledged, or will be by the next step of some run.
Reported == acked \cup UNION {job[w].accepted : w \in {v \in Workers : pc[v] = "manifest"}}

LEMMA ReportedRetained == ASSUME RetentionInv PROVE Reported \subseteq Lake
  BY DEF RetentionInv, RunsInv, RunInv, RunKeeps, AcceptedRetained, AckedRetained, Reported

LEMMA FewerConflicts ==
  ASSUME NEW rows, NEW some \in SUBSET rows, ~Conflicting(rows)
  PROVE  ~Conflicting(some)
  BY DEF Conflicting

\* Reports only grow by a Reconcile, which has just read every file back.
LEMMA ReportStep ==
  ASSUME RunsInv, [Next]_vars
  PROVE  Reported' \subseteq Reported \/ (ReadsBack /\ UNCHANGED final)
<1> USE DEF RunsInv, RunInv, TypeOK, RunsTypeOK
<1>1. ASSUME NEW w \in Workers, Reconcile(w)
      PROVE  ReadsBack /\ UNCHANGED final
  BY <1>1 DEF Reconcile
<1>2. ASSUME NEW w \in Workers, Step(w), ~Reconcile(w)
      PROVE  Reported' \subseteq Reported
  <2>1. pc'[w] # "manifest"
    BY <1>2 DEF Step, WriteQuarantine, RefuseQuarantine, ReadExisting, RefuseConflict,
           OpenTemp, WriteTemp, RefuseArtifact, CheckPromotion, Promote,
           FailReconciliation, FailRecount, WriteManifest, GetCheckpoint,
           AdvanceCheckpoint, Advance, End, Goto
  <2>2. \A v \in Workers \ {w} : pc'[v] = pc[v] /\ job'[v] = job[v]
    BY <1>2, StepFrame DEF Frame
  <2> QED
    BY <1>2, <2>1, <2>2, StepAcknowledges DEF Reported
<1>3. ASSUME NEW w \in Workers, Start(w) \/ Kill(w)
      PROVE  Reported' \subseteq Reported
  <2>1. /\ pc'[w] # "manifest" /\ acked' = acked
        /\ \A v \in Workers \ {w} : pc'[v] = pc[v] /\ job'[v] = job[v]
    BY <1>3 DEF Start, StartBackfill, StartIncremental, Enter, Kill, End, Goto, history
  <2> QED
    BY <2>1 DEF Reported
<1>4. CASE Provider \/ UNCHANGED vars
  BY <1>4 DEF Provider, Publish, Correct, vars, disk, history, Reported
<1> QED
  BY <1>1, <1>2, <1>3, <1>4 DEF Next

ReportedConsistent == ~Conflicting(Reported)

\* Concurrent runs never acknowledge two values of one key.
THEOREM AcknowledgedRowsConsistent == Spec => []AckedConsistent
<1>1. Init => ReportedConsistent
  BY DEF Init, ReportedConsistent, Reported, Conflicting
<1>2. RetentionInv /\ RetentionInv' /\ ReportedConsistent /\ [Next]_vars => ReportedConsistent'
  <2> SUFFICES ASSUME RetentionInv, RetentionInv', ReportedConsistent, [Next]_vars
               PROVE  ReportedConsistent'
    OBVIOUS
  <2>1. CASE Reported' \subseteq Reported
    BY <2>1, FewerConflicts DEF ReportedConsistent, Conflicting
  <2>2. CASE ReadsBack /\ UNCHANGED final
    <3>1. Reported' \subseteq Lake
      BY <2>2 DEF RetentionInv, RunsInv, RunInv, RunKeeps, AcceptedRetained, AckedRetained,
                  Reported, Lake
    <3> QED
      BY <2>2, <3>1 DEF ReadsBack, ReportedConsistent, Conflicting
  <2> QED
    BY <2>1, <2>2, ReportStep DEF RetentionInv
<1>3. ReportedConsistent => AckedConsistent
  BY FewerConflicts DEF ReportedConsistent, AckedConsistent, Reported
<1> QED
  BY <1>1, <1>2, <1>3, RetentionInvariant, PTL DEF Spec

-----------------------------------------------------------------------------
(* The checkpoint and the data: what a run carries from its manifest to the  *)
(* two statements of CheckpointStore.advance.                                *)

\* A run that reaches the checkpoint has acknowledged its rows, and the date it
\* read there is backed by acknowledged rows.
AdvanceInv ==
    \A w \in Workers :
        /\ pc[w] \in {"get", "advance"} => job[w].accepted \subseteq acked
        /\ pc[w] = "advance" => \/ job[w].seen = 0
                                \/ \E r \in acked : DateOf[r.key] = job[w].seen

LEMMA CheckpointStep ==
  ASSUME RunsInv, CheckpointBacked, AdvanceInv, [Next]_vars
  PROVE  (CheckpointBacked /\ AdvanceInv)'
<1> USE DEF RunsInv, RunInv, TypeOK, RunsTypeOK
<1>1. ASSUME NEW w \in Workers, Step(w)
      PROVE  (CheckpointBacked /\ AdvanceInv)'
  <2>1. acked \subseteq acked'
    BY <1>1, StepAcknowledges
  <2>2. \A v \in Workers \ {w} : pc'[v] = pc[v] /\ job'[v] = job[v]
    BY <1>1, StepFrame DEF Frame
  <2>3. CASE WriteManifest(w)
    BY <2>1, <2>2, <2>3 DEF WriteManifest, Goto, End, CheckpointBacked, AdvanceInv
  <2>4. CASE GetCheckpoint(w)
    BY <2>2, <2>4 DEF GetCheckpoint, Goto, CheckpointBacked, AdvanceInv, Jobs, disk, history
  <2>5. CASE AdvanceCheckpoint(w)
    <3>1. ckpt' = 0 \/ \E r \in acked : DateOf[r.key] = ckpt'
      BY <2>5 DEF AdvanceCheckpoint, CandidateDates, EventDates, AdvanceInv
    <3> QED
      BY <2>1, <2>2, <2>5, <3>1 DEF AdvanceCheckpoint, End, Goto, CheckpointBacked, AdvanceInv
  <2>6. ASSUME ~WriteManifest(w), ~GetCheckpoint(w), ~AdvanceCheckpoint(w)
        PROVE  ckpt' = ckpt /\ pc'[w] \notin {"get", "advance"}
    BY <1>1, <2>6 DEF Step, WriteQuarantine, RefuseQuarantine, ReadExisting, RefuseConflict,
           OpenTemp, WriteTemp, RefuseArtifact, CheckPromotion, Promote,
           Reconcile, FailReconciliation, FailRecount, Advance, End, Goto,
           disk
  <2> QED
    BY <2>1, <2>2, <2>3, <2>4, <2>5, <2>6 DEF CheckpointBacked, AdvanceInv
<1>2. ASSUME NEW w \in Workers, Start(w) \/ Kill(w)
      PROVE  (CheckpointBacked /\ AdvanceInv)'
  <2>1. /\ pc'[w] \notin {"get", "advance"} /\ UNCHANGED <<acked, ckpt>>
        /\ \A v \in Workers \ {w} : pc'[v] = pc[v] /\ job'[v] = job[v]
    BY <1>2 DEF Start, StartBackfill, StartIncremental, Enter, Kill, End, Goto, history, disk
  <2> QED
    BY <2>1 DEF CheckpointBacked, AdvanceInv
<1>3. CASE Provider \/ UNCHANGED vars
  BY <1>3 DEF Provider, Publish, Correct, vars, disk, history, CheckpointBacked, AdvanceInv
<1> QED
  BY <1>1, <1>2, <1>3 DEF Next

THEOREM AdvanceInvariant == Spec => [](CheckpointBacked /\ AdvanceInv)
<1>1. Init => CheckpointBacked /\ AdvanceInv
  BY DEF Init, CheckpointBacked, AdvanceInv
<1>2. RetentionInv /\ CheckpointBacked /\ AdvanceInv /\ [Next]_vars
        => (CheckpointBacked /\ AdvanceInv)'
  BY CheckpointStep DEF RetentionInv
<1> QED
  BY <1>1, <1>2, RetentionInvariant, PTL DEF Spec

\* The checkpoint never runs ahead of the data, however many runs advance it.
THEOREM CheckpointNeverAhead == Spec => []CheckpointBacked
  BY AdvanceInvariant, PTL

-----------------------------------------------------------------------------
(* Diagnostics.  The quarantine file is the first thing a run writes, its     *)
(* manifest the last.                                                         *)

\* A run past its first step has left its diagnostics, if it has any.
DiagnosedInv ==
    \A w \in Workers :
        pc[w] \notin {"idle", "quarantine"} /\ job[w].rejected # {} =>
            job[w].id \in quarantined

LEMMA StepDiagnosed ==
  ASSUME RunsInv, DiagnosedInv, DegradedRunsDiagnosed, NEW w \in Workers, Step(w) \/ Kill(w)
  PROVE  (DiagnosedInv /\ DegradedRunsDiagnosed)'
<1> USE DEF RunsInv, RunInv, TypeOK, RunsTypeOK
<1>1. /\ \A v \in Workers \ {w} : pc'[v] = pc[v] /\ job'[v] = job[v]
      /\ pc[w] # "idle" /\ job[w] \in Jobs
  BY StepFrame, KillFrame, StepActive DEF Frame
<1>2. CASE WriteQuarantine(w)
  BY <1>1, <1>2 DEF WriteQuarantine, Diagnosed, Goto, DiagnosedInv, DegradedRunsDiagnosed
<1>3. CASE WriteManifest(w)
  BY <1>1, <1>3 DEF WriteManifest, End, Goto, DiagnosedInv, DegradedRunsDiagnosed
<1>4. CASE ~WriteQuarantine(w) /\ ~WriteManifest(w)
  <2>1. UNCHANGED <<quarantined, manifest>>
    BY <1>4 DEF Step, Kill, RefuseQuarantine, ReadExisting, RefuseConflict, OpenTemp, WriteTemp,
           RefuseArtifact, CheckPromotion, Promote, Reconcile, FailReconciliation, FailRecount,
           GetCheckpoint, AdvanceCheckpoint, disk
  <2>2. \/ pc'[w] = "idle"
        \/ /\ pc[w] # "quarantine" /\ job'[w].id = job[w].id
           /\ job'[w].rejected = job[w].rejected
    BY <1>1, <1>4 DEF Step, Kill, RefuseQuarantine, ReadExisting, RefuseConflict, OpenTemp,
           WriteTemp, RefuseArtifact, CheckPromotion, Promote, Reconcile, FailReconciliation,
           FailRecount, GetCheckpoint, AdvanceCheckpoint, Advance, End, Goto, Jobs
  <2> QED
    BY <1>1, <2>1, <2>2 DEF DiagnosedInv, DegradedRunsDiagnosed
<1> QED
  BY <1>2, <1>3, <1>4

\* A manifest that counts rejected rows is not without their quarantine file, wherever
\* its run or any other was killed.  Nothing is said of the audit, and the file stays
\* only until scripts/cleanup.py removes it after its retention.
THEOREM DegradedRunsHaveDiagnostics == Spec => []DegradedRunsDiagnosed
<1>1. Init => DiagnosedInv /\ DegradedRunsDiagnosed
  BY DEF Init, DiagnosedInv, DegradedRunsDiagnosed
<1>2. ASSUME RetentionInv, DiagnosedInv, DegradedRunsDiagnosed, [Next]_vars
      PROVE  (DiagnosedInv /\ DegradedRunsDiagnosed)'
  <2>1. ASSUME NEW w \in Workers, Start(w)
        PROVE  (DiagnosedInv /\ DegradedRunsDiagnosed)'
    <3>1. /\ pc'[w] = "quarantine" /\ UNCHANGED <<quarantined, manifest>>
          /\ \A v \in Workers \ {w} : pc'[v] = pc[v] /\ job'[v] = job[v]
      BY <1>2, <2>1 DEF Start, StartBackfill, StartIncremental, Enter, Goto, disk, RetentionInv,
                        RunsInv, TypeOK, RunsTypeOK
    <3> QED
      BY <1>2, <3>1 DEF DiagnosedInv, DegradedRunsDiagnosed
  <2>2. CASE Provider \/ UNCHANGED vars
    BY <1>2, <2>2 DEF Provider, Publish, Correct, vars, disk, DiagnosedInv, DegradedRunsDiagnosed
  <2> QED
    BY <1>2, <2>1, <2>2, StepDiagnosed DEF Next, RetentionInv
<1> QED
  BY <1>1, <1>2, RetentionInvariant, PTL DEF Spec

-----------------------------------------------------------------------------
(* What holds when runs are serialized, as the single Dagster executor does:  *)
(* whatever is killed and retried, but at most one run at a time.  The          *)
(* concurrent case violates it.                                                 *)

Serialized == \A v, w \in Workers : v = w

\* What the run in progress knows about the rows it is going to add: they are
\* among the accepted ones, of which there is one per key, no file holds their
\* keys before promotion, and the other keys are as many as were counted.
FreshRows(w) ==
    /\ ~Conflicting(job[w].accepted)
    /\ job[w].fresh \subseteq job[w].accepted

NewKeysFree(w) ==
    /\ pc[w] \in {"open", "write"} => KeysOf(job[w].fresh) \cap KeysOf(Lake) = {}
    /\ pc[w] \in {"check", "promote"} =>
          \A p \in job[w].todo : KeysOf(In(job[w].fresh, p)) \cap KeysOf(Lake) = {}

OtherKeysCounted(w) ==
    pc[w] \in {"open", "write", "check", "promote", "reconcile"} =>
        job[w].pre = Cardinality(KeysOf(Lake) \ KeysOf(job[w].fresh))

AuditBeforeManifest(w) == pc[w] = "manifest" => audit[job[w].id] = "passed"

\* Between its two statements the checkpoint store belongs to the run.
CheckpointHeld(w) == pc[w] = "advance" => job[w].seen = ckpt

SerialRunInv(w) ==
    /\ FreshRows(w) /\ NewKeysFree(w) /\ OtherKeysCounted(w)
    /\ AuditBeforeManifest(w) /\ CheckpointHeld(w)

SerialInv ==
    /\ NoDuplicateKeys
    /\ RunsReconcile
    /\ \A w \in Workers : SerialRunInv(w)

-----------------------------------------------------------------------------
(* Counting keys and rows. *)

LEMMA KeysFinite ==
  ASSUME NEW rows \in SUBSET Rows
  PROVE  IsFiniteSet(KeysOf(rows)) /\ Cardinality(KeysOf(rows)) \in Nat
<1>1. KeysOf(rows) \in SUBSET Keys
  BY DEF KeysOf, Rows
<1> QED
  BY <1>1, CalendarAssumption, FS_Subset, FS_CardinalityType

\* One row per key: as many rows as keys.
LEMMA RowCount ==
  ASSUME NEW rows \in SUBSET Rows, ~Conflicting(rows)
  PROVE  IsFiniteSet(rows) /\ Cardinality(rows) = Cardinality(KeysOf(rows))
<1> DEFINE keyOf == [r \in rows |-> r.key]
<1>1. \A x, y \in rows : x.key = y.key => x = y
  BY DEF Conflicting, Rows
<1>2. keyOf \in Bijection(rows, KeysOf(rows))
  BY <1>1 DEF Bijection, Injection, IsInjective, Surjection, KeysOf
<1>3. keyOf \in Injection(rows, KeysOf(rows)) /\ keyOf \in Surjection(rows, KeysOf(rows))
  BY <1>2 DEF Bijection
<1>4. IsFiniteSet(KeysOf(rows))
  BY KeysFinite
<1> HIDE DEF keyOf
<1> QED
  BY <1>3, <1>4, FS_Injection

LEMMA SplitCount ==
  ASSUME NEW S, IsFiniteSet(S), NEW T \in SUBSET S
  PROVE  /\ IsFiniteSet(T) /\ Cardinality(T) \in Nat /\ Cardinality(S \ T) \in Nat
         /\ Cardinality(S) = Cardinality(T) + Cardinality(S \ T)
<1>1. IsFiniteSet(T) /\ IsFiniteSet(S \ T) /\ Cardinality(S \ T) = Cardinality(S) - Cardinality(S \cap T)
  BY FS_Subset, FS_Difference
<1>2. S \cap T = T
  OBVIOUS
<1>3. Cardinality(S) \in Nat /\ Cardinality(T) \in Nat /\ Cardinality(S \ T) \in Nat
  BY <1>1, FS_CardinalityType
<1>4. Cardinality(S \ T) = Cardinality(S) - Cardinality(T)
  BY <1>1, <1>2
<1> QED
  BY <1>1, <1>3, <1>4

\* Accepted rows are a function of their keys.
LEMMA AcceptedUnique == ASSUME NEW supplied PROVE ~Conflicting(Accepted(supplied))
  BY DEF Conflicting, Accepted

\* When every new row is in place, the three equations of reconcile_run hold.
LEMMA ReconcileBalances ==
  ASSUME RunsInv, SerialInv, NEW w \in Workers, pc[w] = "reconcile"
  PROVE  Balanced(w)
<1> DEFINE accepted == job[w].accepted
           fresh == job[w].fresh
<1>1. accepted \in SUBSET Rows /\ fresh \in SUBSET accepted /\ ~Conflicting(accepted)
      /\ job[w].rejected \in SUBSET Keys
  BY DEF RunsInv, TypeOK, RunsTypeOK, Jobs, SerialInv, SerialRunInv, FreshRows
<1>2. accepted \subseteq Lake /\ Lake \subseteq Rows
  BY LakeType DEF RunsInv, RunInv, RunKeeps, AcceptedRetained
<1>3. IsFiniteSet(accepted) /\ IsFiniteSet(job[w].rejected)
  BY <1>1, RowCount, CalendarAssumption, FS_Subset
<1>4. /\ Cardinality(fresh) \in Nat /\ Cardinality(accepted \ fresh) \in Nat
      /\ Cardinality(accepted) = Cardinality(fresh) + Cardinality(accepted \ fresh)
      /\ Cardinality(job[w].rejected) \in Nat
  <2> HIDE DEF accepted, fresh
  <2> QED
    BY <1>1, <1>3, SplitCount, FS_CardinalityType
<1>5. Cardinality(KeysOf(fresh)) = Cardinality(fresh)
  <2>1. ~Conflicting(fresh)
    BY <1>1, FewerConflicts
  <2> QED
    BY <1>1, <2>1, RowCount
<1>6. Cardinality(KeysOf(Lake)) = job[w].pre + Cardinality(fresh)
  <2>1. job[w].pre = Cardinality(KeysOf(Lake) \ KeysOf(fresh))
    BY DEF SerialInv, SerialRunInv, OtherKeysCounted
  <2>2. KeysOf(fresh) \in SUBSET KeysOf(Lake)
    BY <1>1, <1>2 DEF KeysOf
  <2>3. IsFiniteSet(KeysOf(Lake))
    BY <1>2, KeysFinite
  <2>4. /\ Cardinality(KeysOf(Lake) \ KeysOf(fresh)) \in Nat
        /\ Cardinality(KeysOf(Lake)) =
              Cardinality(KeysOf(fresh)) + Cardinality(KeysOf(Lake) \ KeysOf(fresh))
    BY <2>2, <2>3, SplitCount
  <2> HIDE DEF fresh
  <2> QED
    BY <1>4, <1>5, <2>1, <2>4
<1>7. job[w].pre \in Nat
  BY DEF RunsInv, TypeOK, RunsTypeOK, Jobs
<1>8. Cardinality(KeysOf(Lake)) - job[w].pre = Cardinality(fresh)
  <2> HIDE DEF fresh
  <2> QED
    BY <1>4, <1>6, <1>7
<1>9. Cardinality(accepted) + Cardinality(job[w].rejected) =
        Cardinality(fresh) + Cardinality(job[w].rejected) + Cardinality(accepted \ fresh)
  <2> HIDE DEF accepted, fresh
  <2> QED
    BY <1>4
<1> QED
  BY <1>8, <1>9 DEF Balanced, Reconciles

-----------------------------------------------------------------------------
(* The step of the run in progress. *)

LEMMA IdleSerial ==
  ASSUME NEW w, pc[w] = "idle", job[w] = NoJob
  PROVE  SerialRunInv(w)
  BY DEF SerialRunInv, FreshRows, NewKeysFree, OtherKeysCounted, AuditBeforeManifest,
         CheckpointHeld, NoJob, Conflicting

LEMMA ReadSerial ==
  ASSUME TypeOK, NEW w \in Workers, SerialRunInv(w), ReadExisting(w)
  PROVE  SerialRunInv(w)'
<1>1. /\ job'[w].accepted = job[w].accepted
      /\ job'[w].fresh = NewRows(w)
      /\ job'[w].pre = Cardinality(KeysOf(Lake))
      /\ pc'[w] \in {"reconcile", "open"}
  BY DEF ReadExisting, Goto, TypeOK, RunsTypeOK, Jobs
<1>2. Lake' = Lake
  BY DEF ReadExisting, disk, Lake
<1>3. KeysOf(NewRows(w)) \cap KeysOf(Lake) = {} /\ NewRows(w) \subseteq job[w].accepted
  BY DEF NewRows, KeysOf
<1>4. KeysOf(Lake) \ KeysOf(NewRows(w)) = KeysOf(Lake)
  BY <1>3
<1> QED
  BY <1>1, <1>2, <1>3, <1>4
  DEF SerialRunInv, FreshRows, NewKeysFree, OtherKeysCounted, AuditBeforeManifest,
      CheckpointHeld, KeysOf

LEMMA WriteSerial ==
  ASSUME TypeOK, NEW w \in Workers, SerialRunInv(w), WriteTemp(w)
  PROVE  SerialRunInv(w)'
<1>1. /\ job'[w].accepted = job[w].accepted
      /\ job'[w].fresh = job[w].fresh
      /\ job'[w].pre = job[w].pre
      /\ pc[w] = "write" /\ pc'[w] \in {"open", "check"}
      /\ Lake' = Lake
  BY DEF WriteTemp, Advance, Goto, TypeOK, RunsTypeOK, Jobs, Lake
<1>2. \A q : KeysOf(In(job[w].fresh, q)) \subseteq KeysOf(job[w].fresh)
  BY DEF KeysOf, In
<1> QED
  BY <1>1, <1>2
  DEF SerialRunInv, FreshRows, NewKeysFree, OtherKeysCounted, AuditBeforeManifest,
      CheckpointHeld, KeysOf

\* Promotion adds the rows of one partition, whose keys no file had.
LEMMA PromoteSerial ==
  ASSUME RunsInv, NoDuplicateKeys, NEW w \in Workers, SerialRunInv(w), Promote(w)
  PROVE  SerialRunInv(w)' /\ NoDuplicateKeys'
<1> USE DEF RunsInv
<1>1. PICK p \in Partitions : /\ IsNext(w, p)
                             /\ final' = [final EXCEPT ![Part(w, p)] = staged[Part(w, p)]]
                             /\ Advance(w, p, "check", "reconcile")
  BY DEF Promote
<1> DEFINE added == In(job[w].fresh, p)
<1>2. /\ job'[w].accepted = job[w].accepted
      /\ job'[w].fresh = job[w].fresh
      /\ job'[w].pre = job[w].pre
      /\ job'[w].todo = job[w].todo \ {p}
      /\ pc[w] = "promote" /\ pc'[w] \in {"check", "reconcile"}
  BY <1>1 DEF Promote, Advance, Goto, TypeOK, RunsTypeOK, Jobs
<1>3. Part(w, p) \in Artifacts
  BY NamesAssumption DEF Promote, TypeOK, RunsTypeOK, Part, Artifacts
<1>4. \A a \in Artifacts : final'[a] = IF a = Part(w, p) THEN added ELSE final[a]
  BY <1>1, <1>2, <1>3 DEF RunInv, RunKeeps, StagedInFull, IsNext, TypeOK
<1>5. added \subseteq job[w].fresh /\ KeysOf(added) \cap KeysOf(Lake) = {}
  BY <1>1, <1>2 DEF SerialRunInv, NewKeysFree, IsNext, In
<1>6. Lake' \subseteq Lake \cup added /\ Lake \subseteq Lake'
  <2>1. Lake \subseteq Lake'
    BY StepFrame, LakeGrows DEF Step, RunInv
  <2> QED
    BY <1>4, <2>1 DEF Lake
<1>7. NewKeysFree(w)'
  <2>1. \A q \in job[w].todo \ {p} : KeysOf(In(job[w].fresh, q)) \cap KeysOf(added) = {}
    BY DEF KeysOf, In
  <2>2. KeysOf(Lake') \subseteq KeysOf(Lake) \cup KeysOf(added)
    BY <1>6 DEF KeysOf
  <2> QED
    BY <1>2, <2>1, <2>2 DEF SerialRunInv, NewKeysFree, KeysOf
<1>8. OtherKeysCounted(w)'
  <2>1. KeysOf(Lake') \ KeysOf(job[w].fresh) = KeysOf(Lake) \ KeysOf(job[w].fresh)
    BY <1>5, <1>6 DEF KeysOf
  <2> QED
    BY <1>2, <2>1 DEF SerialRunInv, OtherKeysCounted, KeysOf
<1>9. NoDuplicateKeys'
  <2> SUFFICES ASSUME NEW a \in Artifacts, NEW b \in Artifacts,
                      NEW x \in final'[a], NEW y \in final'[b], x.key = y.key
               PROVE  a = b /\ x = y
    BY DEF NoDuplicateKeys
  <2>1. CASE a = Part(w, p) /\ b = Part(w, p)
    <3>1. x \in job[w].accepted /\ y \in job[w].accepted
      BY <1>4, <1>5, <2>1 DEF SerialRunInv, FreshRows
    <3>2. x \in Rows /\ y \in Rows
      BY <3>1 DEF TypeOK, RunsTypeOK, Jobs
    <3> QED
      BY <2>1, <3>1, <3>2 DEF SerialRunInv, FreshRows, Conflicting, Rows
  <2>2. CASE a # Part(w, p) /\ b # Part(w, p)
    BY <1>4, <2>2 DEF NoDuplicateKeys
  <2>3. CASE a = Part(w, p) /\ b # Part(w, p)
    BY <1>4, <1>5, <2>3 DEF KeysOf, Lake
  <2>4. CASE a # Part(w, p) /\ b = Part(w, p)
    BY <1>4, <1>5, <2>4 DEF KeysOf, Lake
  <2> QED
    BY <2>1, <2>2, <2>3, <2>4
<1>10. FreshRows(w)' /\ AuditBeforeManifest(w)' /\ CheckpointHeld(w)'
  BY <1>2 DEF SerialRunInv, FreshRows, AuditBeforeManifest, CheckpointHeld, Conflicting
<1> QED
  BY <1>7, <1>8, <1>9, <1>10 DEF SerialRunInv

\* The steps that keep final, job's rows and counts as they are.
LEMMA QuietSerial ==
  ASSUME TypeOK, NEW w \in Workers, SerialRunInv(w),
         OpenTemp(w) \/ CheckPromotion(w) \/ WriteQuarantine(w) \/ GetCheckpoint(w)
           \/ Reconcile(w)
  PROVE  SerialRunInv(w)'
<1>1. CASE OpenTemp(w) \/ CheckPromotion(w)
  <2>1. /\ UNCHANGED <<job, final>>
        /\ \/ pc[w] = "open" /\ pc'[w] = "write"
           \/ pc[w] = "check" /\ pc'[w] = "promote"
    BY <1>1 DEF OpenTemp, CheckPromotion, Goto, TypeOK, RunsTypeOK
  <2> QED
    BY <2>1 DEF SerialRunInv, FreshRows, NewKeysFree, OtherKeysCounted, AuditBeforeManifest,
                CheckpointHeld, Lake, KeysOf, Conflicting
<1>2. CASE WriteQuarantine(w) \/ GetCheckpoint(w)
  <2>1. /\ job'[w].accepted = job[w].accepted /\ job'[w].fresh = job[w].fresh
        /\ pc'[w] = "read" \/ (pc'[w] = "advance" /\ job'[w].seen = ckpt /\ ckpt' = ckpt)
    BY <1>2 DEF WriteQuarantine, GetCheckpoint, Goto, TypeOK, RunsTypeOK, Jobs, disk
  <2> QED
    BY <2>1 DEF SerialRunInv, FreshRows, NewKeysFree, OtherKeysCounted, AuditBeforeManifest,
                CheckpointHeld, Conflicting
<1>3. CASE Reconcile(w)
  <2>1. /\ UNCHANGED job /\ pc'[w] = "manifest" /\ audit'[job[w].id] = "passed"
    BY <1>3 DEF Reconcile, Goto, TypeOK, RunsTypeOK
  <2> QED
    BY <2>1 DEF SerialRunInv, FreshRows, NewKeysFree, OtherKeysCounted, AuditBeforeManifest,
                CheckpointHeld, Conflicting
<1> QED
  BY <1>1, <1>2, <1>3

LEMMA SerialStep ==
  ASSUME Serialized, RunsInv, RunsInv', SerialInv, NEW w \in Workers, Step(w)
  PROVE  SerialInv'
<1> USE DEF RunsInv
<1>1. SerialRunInv(w) /\ NoDuplicateKeys /\ RunsReconcile
  BY DEF SerialInv
<1>2. SerialRunInv(w)'
  <2>1. CASE pc'[w] = "idle"
    BY <2>1, IdleSerial DEF TypeOK, RunsTypeOK, SerialRunInv, FreshRows, NewKeysFree,
            OtherKeysCounted, AuditBeforeManifest, CheckpointHeld, NoJob, Conflicting
  <2>2. CASE ReadExisting(w) \/ WriteTemp(w) \/ Promote(w)
    BY <1>1, <2>2, ReadSerial, WriteSerial, PromoteSerial
  <2>3. CASE \/ OpenTemp(w) \/ CheckPromotion(w) \/ WriteQuarantine(w)
             \/ GetCheckpoint(w) \/ Reconcile(w)
    BY <1>1, <2>3, QuietSerial
  <2>4. CASE WriteManifest(w) /\ pc'[w] # "idle"
    <3>1. pc'[w] = "get" /\ UNCHANGED job
      BY <2>4 DEF WriteManifest, End, Goto, TypeOK, RunsTypeOK
    <3> QED
      BY <1>1, <3>1 DEF SerialRunInv, FreshRows, NewKeysFree, OtherKeysCounted,
            AuditBeforeManifest, CheckpointHeld, Conflicting
  <2>5. CASE \/ RefuseQuarantine(w) \/ RefuseConflict(w) \/ RefuseArtifact(w)
             \/ FailReconciliation(w) \/ FailRecount(w) \/ AdvanceCheckpoint(w)
    <3>1. pc'[w] = "idle"
      BY <2>5 DEF RefuseQuarantine, RefuseConflict, RefuseArtifact, FailReconciliation, FailRecount,
              AdvanceCheckpoint, End, Goto, TypeOK, RunsTypeOK
    <3> QED
      BY <2>1, <3>1
  <2> QED
    BY <2>1, <2>2, <2>3, <2>4, <2>5 DEF Step
<1>3. NoDuplicateKeys'
  <2>1. CASE Promote(w)
    BY <1>1, <2>1, PromoteSerial
  <2>2. CASE ~Promote(w)
    <3>1. UNCHANGED final
      BY <2>2 DEF Step, WriteQuarantine, RefuseQuarantine, ReadExisting, RefuseConflict,
             OpenTemp, WriteTemp, RefuseArtifact, CheckPromotion,
             Reconcile, FailReconciliation, FailRecount, WriteManifest, GetCheckpoint,
             AdvanceCheckpoint, disk
    <3> QED
      BY <1>1, <3>1 DEF NoDuplicateKeys
  <2> QED
    BY <2>1, <2>2
<1>4. RunsReconcile'
  <2>1. ~FailReconciliation(w)
    BY ReconcileBalances DEF FailReconciliation
  <2>2. CASE Reconcile(w)
    BY <1>1, <2>2 DEF Reconcile, RunsReconcile, TypeOK
  <2>3. CASE WriteManifest(w)
    BY <1>1, <2>3 DEF WriteManifest, RunsReconcile, SerialRunInv, AuditBeforeManifest, TypeOK
  <2>4. CASE ~Reconcile(w) /\ ~WriteManifest(w)
    <3>1. UNCHANGED <<audit, manifest>>
      BY <2>1, <2>4 DEF Step, WriteQuarantine, RefuseQuarantine, ReadExisting, RefuseConflict,
             OpenTemp, WriteTemp, RefuseArtifact, CheckPromotion, Promote,
             FailRecount, GetCheckpoint, AdvanceCheckpoint, disk
    <3> QED
      BY <1>1, <3>1 DEF RunsReconcile
  <2> QED
    BY <2>2, <2>3, <2>4
<1> QED
  BY <1>2, <1>3, <1>4 DEF SerialInv, Serialized

\* The provider, the start of a run and a kill.
LEMMA OutsideSerial ==
  ASSUME Serialized, RunsInv, RunsInv', SerialInv,
         Provider \/ UNCHANGED vars \/ \E w \in Workers : Start(w) \/ Kill(w)
  PROVE  SerialInv'
<1> USE DEF RunsInv, TypeOK, RunsTypeOK
<1>1. CASE Provider \/ UNCHANGED vars
  <2>1. UNCHANGED <<disk, pc, job>>
    BY <1>1 DEF Provider, Publish, Correct, vars
  <2>2. \A w \in Workers : FreshRows(w)' /\ AuditBeforeManifest(w)' /\ CheckpointHeld(w)'
    BY <2>1 DEF disk, SerialInv, SerialRunInv, FreshRows, Conflicting, AuditBeforeManifest,
                CheckpointHeld
  <2>3. ASSUME NEW w \in Workers PROVE NewKeysFree(w)' /\ OtherKeysCounted(w)'
    <3>1. /\ KeysOf(Lake)' = KeysOf(Lake)
          /\ KeysOf(job[w].fresh)' = KeysOf(job[w].fresh)
          /\ \A p : KeysOf(In(job[w].fresh, p))' = KeysOf(In(job[w].fresh, p))
      BY <2>1 DEF disk, Lake, KeysOf, In
    <3>2. NewKeysFree(w) /\ OtherKeysCounted(w)
      BY DEF SerialInv, SerialRunInv
    <3> QED
      BY <2>1, <3>1, <3>2 DEF NewKeysFree, OtherKeysCounted
  <2>4. NoDuplicateKeys' /\ RunsReconcile'
    BY <2>1 DEF disk, SerialInv, NoDuplicateKeys, RunsReconcile
  <2> QED
    BY <2>2, <2>3, <2>4 DEF SerialInv, SerialRunInv
<1>2. ASSUME NEW w \in Workers, Start(w) PROVE SerialInv'
  <2>1. PICK r \in RunIds, incremental \in BOOLEAN, supplied \in SUBSET Keys :
          Enter(w, r, incremental, supplied)
    BY <1>2, SuppliedType DEF Start, StartBackfill, StartIncremental
  <2>2. UNCHANGED disk /\ pc'[w] = "quarantine"
    BY <2>1 DEF Enter, Goto
  <2>3. job'[w].accepted = Accepted(supplied) /\ job'[w].fresh = {}
    BY <2>1 DEF Enter, NoJob
  <2>4. ~Conflicting(job'[w].accepted)
    BY <2>3, AcceptedUnique
  <2>5. FreshRows(w)'
    BY <2>3, <2>4 DEF FreshRows, Conflicting
  <2>6. SerialRunInv(w)'
    BY <2>2, <2>5 DEF SerialRunInv, NewKeysFree, OtherKeysCounted, AuditBeforeManifest,
                CheckpointHeld
  <2> QED
    BY <2>2, <2>6 DEF disk, SerialInv, Serialized, NoDuplicateKeys, RunsReconcile
<1>3. ASSUME NEW w \in Workers, Kill(w) PROVE SerialInv'
  <2>1. UNCHANGED disk /\ pc'[w] = "idle" /\ job'[w] = NoJob
    BY <1>3 DEF Kill, End, Goto
  <2>2. SerialRunInv(w)'
    BY <2>1 DEF SerialRunInv, FreshRows, NewKeysFree, OtherKeysCounted, AuditBeforeManifest,
                CheckpointHeld, NoJob, Conflicting
  <2> QED
    BY <2>1, <2>2 DEF disk, SerialInv, Serialized, NoDuplicateKeys, RunsReconcile
<1> QED
  BY <1>1, <1>2, <1>3

THEOREM SerialInvariant == ASSUME Serialized PROVE Spec => []SerialInv
<1>1. Init => SerialInv
  BY IdleSerial DEF Init, SerialInv, NoDuplicateKeys, RunsReconcile
<1>2. RetentionInv /\ RetentionInv' /\ SerialInv /\ [Next]_vars => SerialInv'
  BY SerialStep, OutsideSerial DEF Next, RetentionInv
<1> QED
  BY <1>1, <1>2, RetentionInvariant, PTL DEF Spec

\* One canonical row per key: the read-deduplicate-promote sequence, killed and
\* retried at any point, admits no second row.
THEOREM KeysUnique == ASSUME Serialized PROVE Spec => []NoDuplicateKeys
<1>1. SerialInv => NoDuplicateKeys
  BY DEF SerialInv
<1> QED
  BY <1>1, SerialInvariant, PTL

\* No run's count reconciliation fails, and every manifest has a passed one.
THEOREM ReconciliationNeverFails == ASSUME Serialized PROVE Spec => []RunsReconcile
<1>1. SerialInv => RunsReconcile
  BY DEF SerialInv
<1> QED
  BY <1>1, SerialInvariant, PTL

-----------------------------------------------------------------------------
(* The checkpoint. *)

\* Serialized runs never move the checkpoint backwards.
THEOREM CheckpointNeverBack == ASSUME Serialized PROVE Spec => CheckpointMonotonic
<1>1. RetentionInv /\ SerialInv /\ [Next]_vars => [ckpt <= ckpt']_vars
  <2> SUFFICES ASSUME RetentionInv, SerialInv, [Next]_vars PROVE ckpt <= ckpt'
    OBVIOUS
  <2>1. ckpt \in Int
    BY CalendarAssumption DEF RetentionInv, RunsInv, TypeOK
  <2>2. CASE \E w \in Workers : AdvanceCheckpoint(w)
    BY <2>2 DEF AdvanceCheckpoint, CandidateDates, SerialInv, SerialRunInv, CheckpointHeld
  <2>3. CASE ~\E w \in Workers : AdvanceCheckpoint(w)
    <3>1. UNCHANGED ckpt
      BY <2>3 DEF Next, Provider, Publish, Correct, Start, StartBackfill, StartIncremental,
             Enter, Kill, vars, Step, WriteQuarantine, RefuseQuarantine, ReadExisting,
             RefuseConflict, OpenTemp, WriteTemp, RefuseArtifact, CheckPromotion,
             Promote, Reconcile, FailReconciliation,
             FailRecount, WriteManifest, GetCheckpoint, disk
    <3> QED
      BY <2>1, <3>1
  <2> QED
    BY <2>2, <2>3
<1> QED
  BY <1>1, RetentionInvariant, SerialInvariant, PTL DEF Spec, CheckpointMonotonic

-----------------------------------------------------------------------------
(* Refinement. *)

\* To its readers the data set is a write-once keyed store.
THEOREM LakeImplementsStore == ASSUME Serialized PROVE Spec => StoreSpec
<1>1. Init => Store!Init
  BY DEF Init, Store!Init, Store!OneRowPerKey, Lake, Artifacts
<1>2. ASSUME RetentionInv, RetentionInv', SerialInv', [Next]_vars
      PROVE  [Store!Next]_(Store!vars)
  <2>1. Lake \subseteq Lake' /\ Lake' \subseteq Rows /\ Store!OneRowPerKey(Lake')
    <3>1. Lake \subseteq Lake'
      BY <1>2, RetentionStep DEF RetentionInv, RunsInv, Lake
    <3>2. Lake' \subseteq Rows
      BY <1>2 DEF RetentionInv, RunsInv, TypeOK, Lake, Artifacts
    <3>3. Store!OneRowPerKey(Lake')
      BY <1>2 DEF SerialInv, NoDuplicateKeys, Lake, Store!OneRowPerKey
    <3> QED
      BY <3>1, <3>2, <3>3
  <2>2. UNCHANGED acked \/ (acked \subseteq acked' /\ UNCHANGED Lake)
    <3>1. CASE \E w \in Workers : Step(w)
      <4>1. UNCHANGED acked \/ (acked \subseteq acked' /\ \E w \in Workers : WriteManifest(w))
        BY <3>1, StepAcknowledges
      <4> QED
        BY <4>1 DEF WriteManifest, Lake
    <3>2. CASE ~\E w \in Workers : Step(w)
      BY <1>2, <3>2 DEF Next, Provider, Publish, Correct, Start, StartBackfill,
             StartIncremental, Enter, Kill, vars, history
    <3> QED
      BY <3>1, <3>2
  <2>3. acked' \subseteq Lake'
    BY <1>2 DEF RetentionInv, AckedRetained
  <2> QED
    BY <2>1, <2>2, <2>3 DEF Store!Next, Store!Add, Store!Acknowledge, Store!vars
<1> QED
  BY <1>1, <1>2, RetentionInvariant, SerialInvariant, PTL DEF Spec, StoreSpec, Store!Spec

-----------------------------------------------------------------------------
(* No gap behind the checkpoint.  The argument joins three parts of the code: *)
(* the window that run_incremental fetches, the rows run_backfill retains,    *)
(* and the date advance writes.                                               *)

\* A provider row that a run dated as far as d has to have fetched by now.
Due(k, d) ==
    /\ source[k] \in Values
    /\ InitialStart <= DateOf[k] /\ ckpt < DateOf[k] /\ DateOf[k] <= d

\* An incremental run in progress holds every row between the checkpoint and any
\* of its own dates, except those published after it fetched.
WindowFetched(w) ==
    job[w].incremental =>
        \A d \in EventDates(w) :
            d <= horizon /\ \A k \in Keys \ late : Due(k, d) => k \in KeysOf(job[w].accepted)

OnlyIncrementalAdvances(w) == pc[w] \in {"get", "advance"} => job[w].incremental

CoverInv ==
    /\ CheckpointCovers
    /\ ckpt <= horizon
    /\ \A w \in Workers : WindowFetched(w) /\ OnlyIncrementalAdvances(w)

-----------------------------------------------------------------------------
LEMMA DateTypes ==
  ASSUME TypeOK
  PROVE  /\ ckpt \in Nat /\ horizon \in Nat
         /\ \A k \in Keys : DateOf[k] \in Nat
         /\ InitialStart \in Nat /\ InitialStart # 0
         /\ \A w \in Workers : EventDates(w) \subseteq Nat
<1>1. \A w \in Workers : job[w].accepted \subseteq Rows
  BY DEF TypeOK, RunsTypeOK, Jobs
<1>2. \A k \in Keys : DateOf[k] \in Nat
  BY CalendarAssumption
<1>3. \A w \in Workers : EventDates(w) \subseteq Nat
  BY <1>1, <1>2 DEF EventDates, Rows
<1>4. InitialStart \in Nat /\ InitialStart # 0 /\ ckpt \in Nat /\ horizon \in Nat
  BY CalendarAssumption, WindowAssumption DEF TypeOK
<1> QED
  BY <1>2, <1>3, <1>4

\* calculate_fetch_window starts no later than the day after the checkpoint.
LEMMA WindowStart ==
  ASSUME TypeOK, NEW k \in Keys, InitialStart <= DateOf[k], ckpt < DateOf[k]
  PROVE  FetchFrom <= DateOf[k]
  BY DateTypes, WindowAssumption DEF FetchFrom

LEMMA PublishCovers ==
  ASSUME TypeOK, CoverInv, Provider
  PROVE  CoverInv'
<1>1. PICK k \in Keys : Publish(k) \/ Correct(k)
  BY DEF Provider
<1>2. /\ UNCHANGED <<final, ckpt, pc, job, horizon>> /\ late \subseteq late'
      /\ \A j \in Keys \ {k} : source'[j] = source[j]
      /\ source[k] \in Values \/ k \in late' \/ horizon < DateOf[k]
  BY <1>1, DateTypes DEF Publish, Correct, disk, history, TypeOK
<1>3. CheckpointCovers'
  BY <1>2, DateTypes DEF CoverInv, CheckpointCovers, Lake, KeysOf
<1>4. ASSUME NEW w \in Workers PROVE WindowFetched(w)'
  BY <1>2, DateTypes DEF CoverInv, WindowFetched, Due, EventDates, KeysOf
<1> QED
  BY <1>2, <1>3, <1>4 DEF CoverInv, OnlyIncrementalAdvances

\* What a run fetches: every provider row from the checkpoint on to its last date.
LEMMA StartCovers ==
  ASSUME TypeOK, Serialized, CoverInv, NEW w \in Workers, Start(w)
  PROVE  CoverInv'
<1>1. ckpt' = ckpt /\ UNCHANGED <<source, final, late>>
  BY DEF Start, StartBackfill, StartIncremental, Enter, disk
<1>2. CASE \E r \in RunIds : StartBackfill(w, r)
  <2>1. ~job'[w].incremental /\ horizon' = horizon /\ pc'[w] = "quarantine"
    BY <1>2 DEF StartBackfill, Enter, Goto, NoJob, TypeOK, RunsTypeOK
  <2> QED
    BY <1>1, <2>1 DEF CoverInv, CheckpointCovers, WindowFetched, OnlyIncrementalAdvances,
                      Serialized, Lake, KeysOf
<1>3. CASE \E r \in RunIds, through \in Dates : StartIncremental(w, r, through)
  <2>1. PICK r \in RunIds, through \in Dates : StartIncremental(w, r, through)
    BY <1>3
  <2> DEFINE supplied == Supplied(FetchFrom, through)
             dates == {DateOf[x.key] : x \in Accepted(supplied)}
  <2>2. job'[w].accepted = Accepted(supplied) /\ pc'[w] = "quarantine"
    BY <2>1 DEF StartIncremental, Enter, Goto, NoJob, TypeOK, RunsTypeOK
  <2>3. EventDates(w)' = dates
    BY <2>2 DEF EventDates
  <2>4. horizon <= horizon' /\ \A d \in dates : d <= horizon'
    BY <2>1 DEF StartIncremental
  <2>5. through \in Nat /\ \A d \in dates : d \in Nat /\ d <= through
    <3>1. \A k \in supplied : source[k] \in Values => k \in Keys /\ DateOf[k] \in FetchFrom .. through
      BY DefectsAssumption DEF Supplied
    <3>2. through \in Nat
      BY CalendarAssumption
    <3>3. ASSUME NEW d \in dates PROVE d \in Nat /\ d <= through
      <4>1. PICK k \in supplied : source[k] \in Values /\ d = DateOf[k]
        BY DEF Accepted
      <4>2. k \in Keys /\ d \in FetchFrom .. through
        BY <3>1, <4>1
      <4> QED
        BY <4>1, <4>2, DateTypes
    <3> QED
      BY <3>2, <3>3
  <2>6. ASSUME NEW d \in dates, NEW k \in Keys, Due(k, d)
        PROVE  k \in KeysOf(Accepted(supplied))
    <3>1. FetchFrom <= DateOf[k]
      BY <2>6, WindowStart DEF Due
    <3>2. DateOf[k] <= through
      <4> HIDE DEF dates
      <4> QED
        BY <2>5, <2>6, DateTypes DEF Due
    <3>3. FetchFrom \in Int
      BY DateTypes, WindowAssumption DEF FetchFrom
    <3>4. source[k] # Unpublished /\ DateOf[k] \in FetchFrom .. through
      BY <2>5, <2>6, <3>1, <3>2, <3>3, DefectsAssumption, DateTypes DEF Due
    <3>5. source[k] \in Values /\ k \in supplied
      BY <2>6, <3>4 DEF Due, Supplied
    <3>6. [key |-> k, val |-> source[k]] \in Accepted(supplied)
      BY <3>5 DEF Accepted
    <3> QED
      BY <3>6 DEF KeysOf
  <2>7. WindowFetched(w)'
    BY <1>1, <2>2, <2>3, <2>4, <2>6 DEF WindowFetched, Due, KeysOf
  <2>8. CheckpointCovers'
    BY <1>1 DEF CoverInv, CheckpointCovers, Lake, KeysOf
  <2>9. ckpt' <= horizon'
    <3>1. horizon' \in dates \cup {horizon}
      BY <2>1 DEF StartIncremental
    <3>2. horizon' \in Nat /\ ckpt \in Nat /\ horizon \in Nat
      <4> HIDE DEF dates
      <4> QED
        BY <2>5, <3>1, DateTypes
    <3>3. ckpt <= horizon
      BY DEF CoverInv
    <3> HIDE DEF dates, supplied
    <3> QED
      BY <1>1, <2>4, <3>2, <3>3
  <2>10. OnlyIncrementalAdvances(w)'
    BY <2>2 DEF OnlyIncrementalAdvances
  <2> HIDE DEF supplied, dates
  <2> QED
    BY <2>7, <2>8, <2>9, <2>10 DEF CoverInv, Serialized
<1> QED
  BY <1>2, <1>3 DEF Start

\* The steps of a run other than its advance leave the checkpoint and what the
\* run fetched alone, and only an incremental run gets as far as its checkpoint.
LEMMA QuietCovers ==
  ASSUME TypeOK, Serialized, CoverInv, NEW w \in Workers, Step(w) \/ Kill(w), Frame(w),
         ~AdvanceCheckpoint(w)
  PROVE  CoverInv'
<1> USE DEF TypeOK, RunsTypeOK
<1>1. UNCHANGED <<source, ckpt, late, horizon>>
  BY DEF Step, WriteQuarantine, RefuseQuarantine, ReadExisting, RefuseConflict, OpenTemp,
         WriteTemp, RefuseArtifact, CheckPromotion, Promote,
         Reconcile, FailReconciliation, FailRecount, WriteManifest, GetCheckpoint, Kill,
         disk, history
<1>2. KeysOf(Lake) \subseteq KeysOf(Lake)'
  BY LakeGrows DEF KeysOf
<1>3. \/ job'[w] = NoJob
      \/ job'[w].accepted = job[w].accepted /\ job'[w].incremental = job[w].incremental
  BY DEF Step, WriteQuarantine, RefuseQuarantine, ReadExisting, RefuseConflict, OpenTemp,
         WriteTemp, RefuseArtifact, CheckPromotion, Promote,
         Reconcile, FailReconciliation, FailRecount, WriteManifest, GetCheckpoint, Kill,
         End, Advance, Jobs
<1>4. pc'[w] \in {"get", "advance"} => job'[w].incremental
  <2>1. CASE WriteManifest(w)
    BY <2>1 DEF WriteManifest, End, Goto
  <2>2. CASE GetCheckpoint(w)
    BY <2>2 DEF GetCheckpoint, Goto, CoverInv, OnlyIncrementalAdvances, Jobs
  <2>3. CASE ~WriteManifest(w) /\ ~GetCheckpoint(w)
    <3>1. pc'[w] \notin {"get", "advance"}
      BY <2>3 DEF Step, WriteQuarantine, RefuseQuarantine, ReadExisting, RefuseConflict,
             OpenTemp, WriteTemp, RefuseArtifact, CheckPromotion, Promote,
             Reconcile, FailReconciliation, FailRecount, Kill, Advance, End,
             Goto
    <3> QED
      BY <3>1
  <2> QED
    BY <2>1, <2>2, <2>3
<1>5. WindowFetched(w)'
  <2>1. CASE job'[w] = NoJob
    BY <2>1 DEF WindowFetched, NoJob
  <2>2. CASE job'[w].accepted = job[w].accepted /\ job'[w].incremental = job[w].incremental
    BY <1>1, <2>2 DEF CoverInv, WindowFetched, Due, EventDates, KeysOf
  <2> QED
    BY <1>3, <2>1, <2>2
<1>6. CheckpointCovers' /\ ckpt' <= horizon'
  BY <1>1, <1>2 DEF CoverInv, CheckpointCovers
<1> QED
  BY <1>4, <1>5, <1>6 DEF CoverInv, OnlyIncrementalAdvances, Serialized

\* The advance: what lies between the old and the new checkpoint was fetched,
\* accepted, and acknowledged by the manifest, hence retained.
LEMMA AdvanceCovers ==
  ASSUME RetentionInv, Serialized, SerialInv, AdvanceInv, CoverInv,
         NEW w \in Workers, AdvanceCheckpoint(w)
  PROVE  CoverInv'
<1> USE DEF RetentionInv, RunsInv, RunInv
<1>1. /\ pc[w] = "advance" /\ ckpt' \in EventDates(w) \cup {ckpt}
      /\ UNCHANGED <<source, final, late, horizon>>
      /\ pc'[w] = "idle" /\ job'[w] = NoJob
  BY DEF AdvanceCheckpoint, CandidateDates, SerialInv, SerialRunInv, CheckpointHeld, End, Goto,
         TypeOK, RunsTypeOK, history
<1>2. job[w].incremental /\ WindowFetched(w)
  BY <1>1 DEF CoverInv, OnlyIncrementalAdvances
<1>3. KeysOf(job[w].accepted) \subseteq KeysOf(Lake)
  BY <1>1 DEF AdvanceInv, AckedRetained, KeysOf
<1>4. KeysOf(Lake)' = KeysOf(Lake)
  BY <1>1 DEF Lake, KeysOf
<1>5. ASSUME NEW k \in Keys \ late, source[k] \in Values,
             InitialStart <= DateOf[k], DateOf[k] <= ckpt'
      PROVE  k \in KeysOf(Lake)
  <2>1. CASE DateOf[k] <= ckpt
    BY <1>5, <2>1 DEF CoverInv, CheckpointCovers
  <2>2. CASE ~(DateOf[k] <= ckpt)
    <3>1. ckpt' \in EventDates(w)
      BY <1>1, <1>5, <2>2
    <3>2. Due(k, ckpt')
      BY <1>5, <2>2, DateTypes DEF Due
    <3> QED
      BY <1>2, <1>3, <3>1, <3>2 DEF WindowFetched
  <2> QED
    BY <2>1, <2>2
<1>6. CheckpointCovers'
  BY <1>1, <1>4, <1>5 DEF CheckpointCovers
<1>7. ckpt' <= horizon'
  BY <1>1, <1>2 DEF CoverInv, WindowFetched
<1>8. WindowFetched(w)' /\ OnlyIncrementalAdvances(w)'
  BY <1>1 DEF WindowFetched, OnlyIncrementalAdvances, NoJob
<1> QED
  BY <1>6, <1>7, <1>8 DEF CoverInv, Serialized

-----------------------------------------------------------------------------
LEMMA CoverStep ==
  ASSUME RetentionInv, Serialized, SerialInv, AdvanceInv, CoverInv, [Next]_vars
  PROVE  CoverInv'
<1> USE DEF RetentionInv, RunsInv, RunInv
<1>1. ASSUME NEW w \in Workers, Step(w) PROVE CoverInv'
  BY <1>1, StepFrame, QuietCovers, AdvanceCovers
<1>2. ASSUME NEW w \in Workers, Kill(w) PROVE CoverInv'
  <2>1. CASE AdvanceCheckpoint(w)
    BY <2>1, AdvanceCovers
  <2>2. CASE ~AdvanceCheckpoint(w)
    BY <1>2, <2>2, KillFrame, QuietCovers
  <2> QED
    BY <2>1, <2>2
<1>3. ASSUME NEW w \in Workers, Start(w) PROVE CoverInv'
  BY <1>3, StartCovers
<1>4. CASE UNCHANGED vars
  BY <1>4 DEF vars, disk, history, CoverInv, CheckpointCovers, WindowFetched, Due, EventDates,
              OnlyIncrementalAdvances, Lake, KeysOf
<1> QED
  BY <1>1, <1>2, <1>3, <1>4, PublishCovers DEF Next

\* No gap behind the checkpoint (CheckpointCovers): every valid row dated between
\* initial_start and it is retained, unless it was published after a run had
\* fetched past its date.
THEOREM CheckpointGapFree == ASSUME Serialized PROVE Spec => []CheckpointCovers
<1>1. Init => CoverInv
  <2> SUFFICES ASSUME Init PROVE CoverInv
    OBVIOUS
  <2>1. CheckpointCovers
    <3>1. ASSUME NEW k \in Keys PROVE ~(DateOf[k] <= 0)
      <4>1. DateOf[k] \in Nat /\ DateOf[k] # 0
        BY CalendarAssumption
      <4> QED
        BY <4>1
    <3> QED
      BY <3>1 DEF Init, CheckpointCovers
  <2>2. ckpt <= horizon
    BY DEF Init
  <2>3. ASSUME NEW w \in Workers PROVE WindowFetched(w) /\ OnlyIncrementalAdvances(w)
    BY DEF Init, WindowFetched, OnlyIncrementalAdvances, NoJob
  <2> QED
    BY <2>1, <2>2, <2>3 DEF CoverInv
<1>2. RetentionInv /\ SerialInv /\ AdvanceInv /\ CoverInv /\ [Next]_vars => CoverInv'
  BY CoverStep
<1>3. CoverInv => CheckpointCovers
  BY DEF CoverInv
<1> QED
  BY <1>1, <1>2, <1>3, RetentionInvariant, SerialInvariant, AdvanceInvariant, PTL DEF Spec

=================================================================================
