------------------------------ MODULE IngestionLake ------------------------------
(***************************************************************************)
(* The raw-data ingestion pipeline of MarketForge for one dataset: the      *)
(* provider, the runs of run_backfill (ingestion/loaders/backfill.py) and   *)
(* run_incremental (ingestion/loaders/incremental.py), the files they write *)
(* and the checkpoint store (ingestion/checkpoints/sqlite.py).              *)
(*                                                                          *)
(* A worker is one process executing a run: the single Dagster executor, or *)
(* several command-line processes.  Every file-system effect is a step of   *)
(* its own, so that a run can be killed between any two of them and runs    *)
(* interleave between any two of them.                                      *)
(***************************************************************************)
EXTENDS Integers, FiniteSets

CONSTANTS
    Workers,        \* processes that execute runs
    RunIds,         \* run identifiers; a caller may reuse one
    FileNames,      \* names of Parquet files; part-<run>.parquet is named by its run
    Keys,           \* idempotency keys (contract.idempotency_by)
    Values,         \* canonical values of a row (value_fields)
    Partitions,     \* year=/month= directories, as numbers in path order
    Dates,          \* event dates, as days counted from 1
    DateOf,         \* the event date of a key
    PartitionOf,    \* the partition of a key, determined by its date
    InitialStart,   \* run_incremental's initial_start
    Overlap,        \* run_incremental's overlap_days
    Unpublished,    \* the provider has no row for the key
    Defects,        \* rows that break the contract, by what is wrong with them
    Undated         \* the defect whose event date cannot be read either

ASSUME NamesAssumption == RunIds \subseteq FileNames
ASSUME CalendarAssumption ==
    /\ IsFiniteSet(Keys)
    /\ Dates \subseteq Nat \ {0}
    /\ Partitions \subseteq Int
    /\ DateOf \in [Keys -> Dates]
    /\ PartitionOf \in [Keys -> Partitions]
ASSUME WindowAssumption == InitialStart \in Dates /\ Overlap \in Nat
ASSUME DefectsAssumption == ({Unpublished, Undated} \cup Defects) \cap Values = {}

\* A canonical row: its idempotency key and everything replay compares.
Rows == [key : Keys, val : Values]

\* An artifact is a Parquet file: its partition directory and its name.
Artifacts == Partitions \X FileNames

VARIABLES
    source,      \* what the provider answers now, per key
    final,       \* rows of each file under data/raw/<dataset>; {} when there is none
    staged,      \* rows of each validated file under data/raw/.tmp; {} when none
    dirs,        \* partition directories that exist
    locked,      \* partitions whose month=MM.compaction.lock exists
    quarantined, \* runs whose quarantine file exists
    audit,       \* reconciliation/<run>.json: its status, or "none"
    manifest,    \* ingestion_runs/<run>.json: its status, or "none"
    ckpt,        \* last_successful_event_date; 0 when there is no row
    pc,          \* what each worker does next
    job,         \* the local variables of each worker's run
    acked,       \* history: rows some success manifest accounted for
    late,        \* history: keys published behind the newest date ever fetched
    horizon      \* history: the newest event date an incremental run ever fetched

disk == <<final, staged, dirs, locked, quarantined, audit, manifest, ckpt>>
history == <<acked, late, horizon>>
vars == <<source, disk, pc, job, history>>

\* The local variables of a run.
Jobs == [id : RunIds \cup {Unpublished}, incremental : BOOLEAN,
         accepted : SUBSET Rows, rejected : SUBSET Keys, fresh : SUBSET Rows,
         pre : Nat, todo : SUBSET Partitions, seen : Dates \cup {0}]

NoJob == [id |-> Unpublished, incremental |-> FALSE, accepted |-> {}, rejected |-> {},
          fresh |-> {}, pre |-> 0, todo |-> {}, seen |-> 0]

KeysOf(rows) == {r.key : r \in rows}

\* What a scan of year=*/month=*/*.parquet returns.
Lake == UNION {final[a] : a \in Artifacts}

Conflicting(rows) == \E x, y \in rows : x.key = y.key /\ x.val # y.val

\* Variant: retained files that disagree about a key go unnoticed.
ReadsAnything == TRUE

\* _existing_rows raises when retained files disagree about a key.
ReadsBack == ~Conflicting(Lake)

In(rows, p) == {r \in rows : PartitionOf[r.key] = p}
PartitionsOf(rows) == {PartitionOf[r.key] : r \in rows}

\* The artifact that worker w's run writes in partition p.
Part(w, p) == <<p, job[w].id>>

Goto(w, step) == pc' = [pc EXCEPT ![w] = step]

\* Variant: the next run starts from the locals of the last one.
EndKeepingJob(w) == Goto(w, "idle") /\ UNCHANGED job

\* The run ends, by return, by exception or by SIGKILL; its memory is gone.
End(w) == Goto(w, "idle") /\ job' = [job EXCEPT ![w] = NoJob]

RunsTypeOK ==
    /\ pc \in [Workers -> {"idle", "quarantine", "read", "open", "write", "check",
                           "promote", "reconcile", "manifest", "get", "advance"}]
    /\ job \in [Workers -> Jobs]
    /\ \A w \in Workers : IF pc[w] = "idle" THEN job[w] = NoJob ELSE job[w].id \in RunIds

TypeOK ==
    /\ source \in [Keys -> Values \cup Defects \cup {Unpublished}]
    /\ final \in [Artifacts -> SUBSET Rows]
    /\ staged \in [Artifacts -> SUBSET Rows]
    /\ dirs \subseteq Partitions
    /\ locked \subseteq Partitions
    /\ quarantined \subseteq RunIds
    /\ audit \in [RunIds -> {"none", "passed", "failed"}]
    /\ manifest \in [RunIds -> {"none", "success", "degraded"}]
    /\ ckpt \in Dates \cup {0}
    /\ RunsTypeOK
    /\ acked \subseteq Rows
    /\ late \subseteq Keys
    /\ horizon \in Dates \cup {0}

Init ==
    /\ source = [k \in Keys |-> Unpublished]
    /\ final = [a \in Artifacts |-> {}]
    /\ staged = [a \in Artifacts |-> {}]
    /\ dirs = {}
    /\ locked = {}
    /\ quarantined = {}
    /\ audit = [r \in RunIds |-> "none"]
    /\ manifest = [r \in RunIds |-> "none"]
    /\ ckpt = 0
    /\ pc = [w \in Workers |-> "idle"]
    /\ job = [w \in Workers |-> NoJob]
    /\ acked = {}
    /\ late = {}
    /\ horizon = 0

-----------------------------------------------------------------------------
(* The provider (external). *)

\* A row appears for a key that had none, or that had a defective one.
Publish(k) ==
    /\ source[k] \notin Values
    /\ \E v \in Values \cup Defects : source' = [source EXCEPT ![k] = v]
    /\ late' = IF DateOf[k] <= horizon THEN late \cup {k} ELSE late
    /\ UNCHANGED <<disk, pc, job, acked, horizon>>

\* The provider corrects a row it had published.
Correct(k) ==
    /\ source[k] \in Values
    /\ \E v \in Values \ {source[k]} : source' = [source EXCEPT ![k] = v]
    /\ UNCHANGED <<disk, pc, job, history>>

-----------------------------------------------------------------------------
(* Entering run_backfill: window, fetch, enrichment and contract validation. *)

\* Rows of the window; one whose date cannot be read stays in for quarantine.
Supplied(lo, hi) ==
    {k \in Keys : /\ source[k] # Unpublished
                  /\ source[k] = Undated \/ DateOf[k] \in lo .. hi}

Accepted(supplied) ==
    {[key |-> k, val |-> source[k]] : k \in {s \in supplied : source[s] \in Values}}

\* Runs in progress are taken to have different ids, which the callers of run_backfill
\* choose and nothing enforces.
Enter(w, r, incremental, supplied) ==
    /\ pc[w] = "idle"
    /\ \A v \in Workers : pc[v] # "idle" => job[v].id # r
    /\ job' = [job EXCEPT ![w] =
                 [NoJob EXCEPT !.id = r, !.incremental = incremental,
                               !.accepted = Accepted(supplied),
                               !.rejected = {k \in supplied : source[k] \in Defects}]]
    /\ Goto(w, "quarantine")
    /\ UNCHANGED <<source, disk, acked, late>>

\* run_backfill over a requested range.
StartBackfill(w, r) ==
    /\ \E lo, hi \in Dates : lo <= hi /\ Enter(w, r, FALSE, Supplied(lo, hi))
    /\ UNCHANGED horizon

\* Variant: the first window begins a day late.
FetchFromLate ==
    IF ckpt = 0 THEN InitialStart + 1
    ELSE IF Overlap = 0 THEN ckpt + 1 ELSE ckpt - (Overlap - 1)

\* calculate_fetch_window.
FetchFrom ==
    IF ckpt = 0 THEN InitialStart
    ELSE IF Overlap = 0 THEN ckpt + 1 ELSE ckpt - (Overlap - 1)

\* run_incremental through the date the caller names.
StartIncremental(w, r, through) ==
    LET supplied == Supplied(FetchFrom, through)
        newest == {DateOf[x.key] : x \in Accepted(supplied)} \cup {horizon}
    IN  /\ ckpt = 0 => FetchFrom <= through
        /\ Enter(w, r, TRUE, supplied)
        /\ horizon' \in newest /\ \A d \in newest : d <= horizon'

-----------------------------------------------------------------------------
(* The body of run_backfill. *)

\* Variant: a batch without a new row leaves no diagnostics.
DiagnosedIfNew(w) ==
    IF job[w].rejected = {} \/ job[w].accepted \subseteq Lake
    THEN quarantined ELSE quarantined \cup {job[w].id}

Diagnosed(w) ==
    IF job[w].rejected = {} THEN quarantined ELSE quarantined \cup {job[w].id}

\* write_quarantine: nothing to write, or one file opened with mode "x".
WriteQuarantine(w) ==
    /\ pc[w] = "quarantine"
    /\ job[w].rejected # {} => job[w].id \notin quarantined
    /\ quarantined' = Diagnosed(w)
    /\ Goto(w, "read")
    /\ UNCHANGED <<source, final, staged, dirs, locked, audit, manifest, ckpt,
                   job, history>>

RefuseQuarantine(w) ==
    /\ pc[w] = "quarantine"
    /\ job[w].rejected # {} /\ job[w].id \in quarantined
    /\ End(w)
    /\ UNCHANGED <<source, disk, history>>

\* Variant: replays are recognised by the manifests instead of the files.
UnreportedRows(w) == {r \in job[w].accepted : r.key \notin KeysOf(acked)}

\* deduplicate_rows: new_rows, and whether a retained key changed its values.
NewRows(w) == {r \in job[w].accepted : r.key \notin KeysOf(Lake)}

\* Variant: every replayed key is a conflict.
Replayed(w) == \E r \in job[w].accepted : r.key \in KeysOf(Lake)

Changed(w) == \E r \in job[w].accepted : r.key \in KeysOf(Lake) /\ r \notin Lake

\* _existing_rows and deduplicate_rows: replays are dropped, the rest is grouped.
ReadExisting(w) ==
    /\ pc[w] = "read"
    /\ ReadsBack /\ ~Changed(w)
    /\ job' = [job EXCEPT ![w].fresh = NewRows(w),
                          ![w].pre = Cardinality(KeysOf(Lake)),
                          ![w].todo = PartitionsOf(NewRows(w))]
    /\ Goto(w, IF NewRows(w) = {} THEN "reconcile" ELSE "open")
    /\ UNCHANGED <<source, disk, history>>

\* IdempotencyConflictError, from either function.
RefuseConflict(w) ==
    /\ pc[w] = "read"
    /\ ~ReadsBack \/ Changed(w)
    /\ End(w)
    /\ UNCHANGED <<source, disk, history>>

\* Groups are processed in path order.
IsNext(w, p) == p \in job[w].todo /\ \A q \in job[w].todo : p <= q

\* Variant: each loop ends after its first group.
AdvanceOnce(w, p, again, after) ==
    job' = [job EXCEPT ![w].todo = IF after = "check" THEN @ ELSE {}] /\ Goto(w, after)

\* Leave this loop for the next one when p was the last group.
Advance(w, p, again, after) ==
    LET rest == job[w].todo \ {p}
    IN  /\ job' = [job EXCEPT ![w].todo =
                     IF rest = {} /\ after = "check" THEN PartitionsOf(job[w].fresh) ELSE rest]
        /\ Goto(w, IF rest = {} THEN after ELSE again)

\* _stage_partition up to the write: leftovers of a killed run are unlinked.
OpenTemp(w) ==
    /\ pc[w] = "open"
    /\ \E p \in Partitions :
          /\ IsNext(w, p)
          /\ final[Part(w, p)] = {}
          /\ staged' = [staged EXCEPT ![Part(w, p)] = {}]
    /\ Goto(w, "write")
    /\ UNCHANGED <<source, final, dirs, locked, quarantined, audit, manifest, ckpt,
                   job, history>>

\* Variant: the compaction lock is not looked at.
UnlockedAlways(p) == TRUE

Unlocked(p) == p \notin locked

\* FileExistsError, before staging or before promotion.
RefuseArtifact(w) ==
    /\ pc[w] \in {"open", "check"}
    /\ \E p \in Partitions :
          /\ IsNext(w, p)
          /\ pc[w] = "check" => Unlocked(p)
          /\ final[Part(w, p)] # {}
          /\ dirs' = dirs \cup (IF pc[w] = "check" THEN {p} ELSE {})
    /\ End(w)
    /\ UNCHANGED <<source, final, staged, locked, quarantined, audit, manifest, ckpt,
                   history>>

\* _stage_partition from the write on: write, validate, rename into staging.
WriteTemp(w) ==
    /\ pc[w] = "write"
    /\ \E p \in Partitions :
          /\ IsNext(w, p)
          /\ staged' = [staged EXCEPT ![Part(w, p)] = In(job[w].fresh, p)]
          /\ Advance(w, p, "open", "check")
    /\ UNCHANGED <<source, final, dirs, locked, quarantined, audit, manifest, ckpt,
                   history>>

\* _promote_partition up to the rename: mkdir, then the lock and the target.
CheckPromotion(w) ==
    /\ pc[w] = "check"
    /\ \E p \in Partitions :
          /\ IsNext(w, p)
          /\ Unlocked(p)
          /\ final[Part(w, p)] = {}
          /\ dirs' = dirs \cup {p}
    /\ Goto(w, "promote")
    /\ UNCHANGED <<source, final, staged, locked, quarantined, audit, manifest, ckpt,
                   job, history>>

\* os.replace(staging, final).
Promote(w) ==
    /\ pc[w] = "promote"
    /\ \E p \in Partitions :
          /\ IsNext(w, p)
          /\ p \in dirs     \* else PromoteNowhere of Compaction
          /\ final' = [final EXCEPT ![Part(w, p)] = staged[Part(w, p)]]
          /\ staged' = [staged EXCEPT ![Part(w, p)] = {}]
          /\ Advance(w, p, "check", "reconcile")
    /\ UNCHANGED <<source, dirs, locked, quarantined, audit, manifest, ckpt,
                   history>>

\* reconcile_run's equations.
Reconciles(fetched, accepted, rejected, deduplicated, written, pre, post) ==
    /\ fetched = accepted + rejected + deduplicated
    /\ written = accepted
    /\ post - pre = accepted

\* The counts of worker w's run, with the rows retained now as the after-count.
Balanced(w) ==
    Reconciles(Cardinality(job[w].accepted) + Cardinality(job[w].rejected),
               Cardinality(job[w].fresh),
               Cardinality(job[w].rejected),
               Cardinality(job[w].accepted \ job[w].fresh),
               Cardinality(job[w].fresh),
               job[w].pre,
               Cardinality(KeysOf(Lake)))

\* Count again, write the reconciliation audit (replacing an earlier one).
Reconcile(w) ==
    /\ pc[w] = "reconcile"
    /\ ReadsBack
    /\ Balanced(w)
    /\ audit' = [audit EXCEPT ![job[w].id] = "passed"]
    /\ Goto(w, "manifest")
    /\ UNCHANGED <<source, final, staged, dirs, locked, quarantined, manifest, ckpt,
                   job, history>>

\* Variant: a run whose counts do not balance takes its files back.
RollBackRun(w) ==
    /\ pc[w] = "reconcile"
    /\ ReadsBack /\ ~Balanced(w)
    /\ audit' = [audit EXCEPT ![job[w].id] = "failed"]
    /\ final' = [a \in Artifacts |-> IF a[2] = job[w].id THEN {} ELSE final[a]]
    /\ End(w)
    /\ UNCHANGED <<source, staged, dirs, locked, quarantined, manifest, ckpt, history>>

\* ReconciliationError: the audit says failed, and the files stay.
FailReconciliation(w) ==
    /\ pc[w] = "reconcile"
    /\ ReadsBack
    /\ ~Balanced(w)
    /\ audit' = [audit EXCEPT ![job[w].id] = "failed"]
    /\ End(w)
    /\ UNCHANGED <<source, final, staged, dirs, locked, quarantined, manifest, ckpt,
                   history>>

\* The second _existing_rows raises: no audit is written at all.
FailRecount(w) ==
    /\ pc[w] = "reconcile"
    /\ ~ReadsBack
    /\ End(w)
    /\ UNCHANGED <<source, disk, history>>

\* _write_manifest; an incremental run with a dated row goes on to its checkpoint.
WriteManifest(w) ==
    /\ pc[w] = "manifest"
    /\ manifest' = [manifest EXCEPT ![job[w].id] =
                      IF job[w].rejected = {} THEN "success" ELSE "degraded"]
    /\ acked' = acked \cup job[w].accepted
    /\ IF job[w].incremental /\ job[w].accepted # {}
       THEN Goto(w, "get") /\ UNCHANGED job
       ELSE End(w)
    /\ UNCHANGED <<source, final, staged, dirs, locked, quarantined, audit, ckpt,
                   late, horizon>>

\* CheckpointStore.advance, first statement: SELECT, in autocommit.
GetCheckpoint(w) ==
    /\ pc[w] = "get"
    /\ job' = [job EXCEPT ![w].seen = ckpt]
    /\ Goto(w, "advance")
    /\ UNCHANGED <<source, disk, history>>

\* Variant: the newest date there is instead of max_event_date.
NewestDate(w) == {d \in Dates : \A e \in Dates : e <= d}

\* The dates max_event_date is taken over.
EventDates(w) == {DateOf[r.key] : r \in job[w].accepted}

\* Variant: the upsert writes the run's own date.
OwnDates(w) == EventDates(w)

CandidateDates(w) == EventDates(w) \cup {job[w].seen}

\* Second statement: the upsert of the newer of the two dates.
AdvanceCheckpoint(w) ==
    /\ pc[w] = "advance"
    /\ ckpt' \in CandidateDates(w) /\ \A d \in CandidateDates(w) : d <= ckpt'
    /\ End(w)
    /\ UNCHANGED <<source, final, staged, dirs, locked, quarantined, audit, manifest,
                   history>>

\* SIGKILL, or an exception of the host, between any two steps.
Kill(w) ==
    /\ pc[w] # "idle"
    /\ End(w)
    /\ UNCHANGED <<source, disk, history>>

-----------------------------------------------------------------------------
Provider == \E k \in Keys : Publish(k) \/ Correct(k)

Start(w) ==
    \E r \in RunIds :
        \/ StartBackfill(w, r)
        \/ \E through \in Dates : StartIncremental(w, r, through)

Step(w) ==
    \/ WriteQuarantine(w) \/ RefuseQuarantine(w)
    \/ ReadExisting(w) \/ RefuseConflict(w)
    \/ OpenTemp(w) \/ WriteTemp(w) \/ RefuseArtifact(w)
    \/ CheckPromotion(w) \/ Promote(w)
    \/ Reconcile(w) \/ FailReconciliation(w) \/ FailRecount(w)
    \/ WriteManifest(w) \/ GetCheckpoint(w) \/ AdvanceCheckpoint(w)

Next == Provider \/ \E w \in Workers : Start(w) \/ Step(w) \/ Kill(w)

Spec == Init /\ [][Next]_vars

\* A run id that names no file yet, as a generated UUID never does.
Unused(r) == r \notin quarantined /\ \A p \in Partitions : final[<<p, r>>] = {}

\* The scheduled incremental run: through the newest date, under a new id.
Scheduled(w) ==
    \E r \in RunIds, through \in Dates :
        /\ Unused(r)
        /\ \A d \in Dates : d <= through
        /\ StartIncremental(w, r, through)

(***************************************************************************)
(* The operating system lets a started run proceed, the daily schedule gets *)
(* its turn between the runs started by hand, and processes are not killed  *)
(* forever (a step that ends a run the way a kill does is not a kill).      *)
(***************************************************************************)
Fairness ==
    /\ \A w \in Workers : WF_vars(Step(w)) /\ SF_vars(Scheduled(w))
    /\ <>[][\A w \in Workers : Kill(w) => Step(w)]_vars

FairSpec == Spec /\ Fairness

-----------------------------------------------------------------------------
(* Properties. *)

\* Every row that a success manifest accounted for, as written or as a replay,
\* is readable from the final files, whatever crashed or was retried since.
AckedRetained == acked \subseteq Lake

\* Two runs never acknowledge different values for one key, even when they run
\* concurrently: the count after promotion reads every file back.
AckedConsistent == ~Conflicting(acked)

\* One canonical row per idempotency key across all files of the dataset: the
\* read-deduplicate-promote sequence of run_backfill admits no second row.
NoDuplicateKeys ==
    \A a, b \in Artifacts : \A x \in final[a], y \in final[b] :
        x.key = y.key => a = b /\ x = y

\* A published run's count reconciliation passed, and no run's ever fails: the
\* rows that appear between the two counts are exactly those the run accepted.
RunsReconcile ==
    \A r \in RunIds : /\ audit[r] # "failed"
                      /\ manifest[r] # "none" => audit[r] = "passed"

\* The checkpoint never runs ahead of the data: a row of its date has been
\* acknowledged by a manifest, which is written before the advance.
CheckpointBacked == ckpt = 0 \/ \E r \in acked : DateOf[r.key] = ckpt

\* No gap behind the checkpoint: a valid row of the provider dated between
\* initial_start and the checkpoint is retained, unless it was published only
\* after a run had already fetched past its date.
CheckpointCovers ==
    \A k \in Keys \ late :
        source[k] \in Values /\ InitialStart <= DateOf[k] /\ DateOf[k] <= ckpt
            => k \in KeysOf(Lake)

\* A manifest that reports rejected rows has a quarantine file beside it; the command
\* that cleans up quarantine files after their retention is not modelled.
DegradedRunsDiagnosed ==
    \A r \in RunIds : manifest[r] = "degraded" => r \in quarantined

\* Promotion and retries never rewrite or remove a file that became canonical.
FinalFilesImmutable ==
    [][\A a \in Artifacts : final[a] # {} => final'[a] = final[a]]_vars

\* "Advance monotonically; an overlap run can never move state backward."
CheckpointMonotonic == [][ckpt <= ckpt']_vars

\* A valid row that the provider publishes ahead of the fetched dates, and does
\* not later correct, reaches the final files in the end.
PublishedRowsArrive ==
    \A k \in Keys :
        (source[k] \in Values /\ k \notin late /\ InitialStart <= DateOf[k])
            ~> (k \in KeysOf(Lake))

\* The data set a reader sees is a write-once keyed store.
Store == INSTANCE WriteOnceStore WITH contents <- Lake, acknowledged <- acked
StoreSpec == Store!Spec
==================================================================================
