------------------------------- MODULE Publication -------------------------------
(***************************************************************************)
(* From landed files to marts marked ready for the API: the asset graph,    *)
(* jobs and schedules of orchestration/definitions.py, the queue that       *)
(* config/dagster/dagster.yaml configures, and the dbt builds of             *)
(* scripts/backfill.py, which know nothing of the queue.                     *)
(*                                                                          *)
(* Rows are counted: lake[d] is how many batches of dataset d have landed,  *)
(* and a mart holds, for each dataset it reads, the count it was built from. *)
(***************************************************************************)
EXTENDS Integers, Sequences

CONSTANTS
    Datasets,     \* ingested datasets; the op that materializes raw_d is named d
    Marts,        \* mart tables
    Reads,        \* the datasets behind a mart, through the staging views
    Reconciled,   \* marts that a dbt test compares with the live views
    Slots,        \* processes that may execute a run
    Ticks,        \* times of the day at which some schedule is due, in order
    TicksAt,      \* the times of each schedule; "publish" is daily_publish_schedule
    Configured,   \* schedules that are enabled and have an input
    Requested,    \* jobs that are also launched by hand
    MaxLake,      \* bound: batches of each dataset
    MaxQueue      \* bound: runs waiting

ASSUME GraphAssumption ==
    /\ Reads \in [Marts -> (SUBSET Datasets) \ {{}}] /\ Reconciled \subseteq Marts
ASSUME DistinctNames ==
    /\ Datasets \cap {"staging", "intermediate", "marts", "gate", "ready", "none", "publish",
                      "daily_incremental", "historical_backfill",
                      "quality_validation", "rebuild_marts"} = {}
    /\ Slots \cap {"nobody", "manual"} = {}
ASSUME ScheduleAssumption ==
    /\ Ticks \subseteq Nat \ {0} /\ Configured \subseteq DOMAIN TicksAt
    /\ DOMAIN TicksAt \subseteq Datasets \cup {"publish"}
    /\ \A s \in DOMAIN TicksAt : TicksAt[s] \subseteq Ticks
    /\ "publish" \in DOMAIN TicksAt => \A t, u \in TicksAt["publish"] : t = u
ASSUME PublicationBounds ==
    MaxLake \in [Datasets -> Nat] /\ MaxQueue \in Nat

VARIABLES
    lake,      \* batches landed, per dataset
    reported,  \* datasets with a success or degraded manifest
    indexed,   \* the SQLite audit store of the evidence exists
    views,     \* layers whose views exist in the database
    mart,      \* content of each mart table
    writer,    \* the process that has the database open
    manual,    \* marts that a rebuild from the command line has still to replace
    queue,     \* jobs of the runs waiting to be launched
    run,       \* the run of each slot
    now,       \* the latest tick of the day
    ledger,    \* run keys of the day that have a run
    marked,    \* schedules whose latest tick the daemon has dealt with
    launches   \* history: runs launched for the latest tick of a schedule

files == <<lake, reported, indexed>>
database == <<views, mart, writer, manual>>
daemon == <<now, ledger, marked, launches>>
vars == <<files, database, queue, run, daemon>>

\* A mart that does not exist, a run not yet tested.
NoTable == [d \in {} |-> 0]
Nothing == [m \in Marts |-> NoTable]

\* What a query over the staging views of a mart returns now.
Reading(m) == [d \in Reads[m] |-> lake[d]]

Ops == Datasets \cup {"staging", "intermediate", "marts", "gate", "ready"}

LayerEdges == {<<"staging", "intermediate">>, <<"staging", "marts">>,
               <<"intermediate", "marts">>, <<"gate", "ready">>, <<"marts", "ready">>}

\* Variant: the gate is not downstream of the marts.
UngatedEdges == (Datasets \X {"staging"}) \cup LayerEdges

\* Variant: the staging models do not wait for the raw assets.
RawlessEdges == LayerEdges \cup {<<"marts", "gate">>}

\* The deps of the assets, between the ops that materialize them.
Edges == (Datasets \X {"staging"}) \cup LayerEdges \cup {<<"marts", "gate">>}

Upstream(o) == {p \in Ops : <<p, o>> \in Edges}

\* The selections of the jobs; the ingestion job of dataset d is named d.
Selection(job) ==
    CASE job \in Datasets -> {job}
      [] job = "quality_validation" -> {"gate", "ready"}
      [] job = "rebuild_marts" -> {"marts", "gate", "ready"}
      [] OTHER -> Ops

Jobs == Datasets \cup {"daily_incremental", "historical_backfill",
                       "quality_validation", "rebuild_marts"}

ASSUME RequestedAssumption == Requested \subseteq Jobs

\* daily_incremental observes unless configured otherwise; the rest ingest.
Observes(job) == job = "daily_incremental"

Idle == [job |-> "none", done |-> {}, failed |-> {}, left |-> {},
         floor |-> [d \in Datasets |-> 0], tested |-> Nothing, disturbed |-> FALSE]

LakeTypeOK(l) == l \in [Datasets -> Nat] /\ \A d \in Datasets : l[d] <= MaxLake[d]

ContentTypeOK(c) ==
    /\ DOMAIN c = Marts
    /\ \A m \in Marts : c[m] = NoTable \/ c[m] \in [Reads[m] -> Nat]

RunTypeOK(r) ==
    /\ r.job \in Jobs \cup {"none"}
    /\ r.done \subseteq Ops /\ r.failed \subseteq Ops /\ r.done \cap r.failed = {}
    /\ r.left \subseteq Marts /\ LakeTypeOK(r.floor) /\ ContentTypeOK(r.tested) /\ r.disturbed \in BOOLEAN

TypeOK ==
    /\ LakeTypeOK(lake) /\ reported \subseteq Datasets /\ indexed \in BOOLEAN
    /\ views \subseteq {"staging", "intermediate"} /\ ContentTypeOK(mart)
    /\ writer \in Slots \cup {"nobody", "manual"} /\ manual \subseteq Marts
    /\ queue \in Seq(Jobs) /\ \A s \in Slots : RunTypeOK(run[s])
    /\ now \in Ticks /\ marked \subseteq DOMAIN TicksAt
    /\ ledger \subseteq (DOMAIN TicksAt) \X (Ticks \cup {0})
    /\ launches \in [DOMAIN TicksAt -> Nat]
    /\ \A s \in Slots : run[s].left # {} => writer = s
    /\ manual # {} => writer = "manual"

Init ==
    /\ lake = [d \in Datasets |-> 0] /\ reported = {} /\ indexed = FALSE
    /\ views = {} /\ mart = Nothing /\ writer = "nobody" /\ manual = {}
    /\ queue = <<>> /\ run = [s \in Slots |-> Idle]
    /\ now \in Ticks /\ \A t \in Ticks : t <= now
    /\ ledger = {} /\ marked = DOMAIN TicksAt
    /\ launches = [s \in DOMAIN TicksAt |-> 1]

-----------------------------------------------------------------------------
(* Schedules and the queue. *)

Due(s) == now \in TicksAt[s] /\ s \notin marked

\* The clock reaches the next tick; what the daemon slept through is lost, and a
\* schedule that is disabled or has no input skips it (SkipReason).  Keys of past
\* ticks and past days are never asked for again.  Bound: no run waits that long.
Tick ==
    /\ queue = <<>>
    /\ \E t \in Ticks :
          /\ IF \A u \in Ticks : u <= now THEN \A u \in Ticks : t <= u
             ELSE t > now /\ \A u \in Ticks : u > now => t <= u
          /\ now' = t
          /\ ledger' = IF t <= now THEN {} ELSE {k \in ledger : k[2] = 0}
          /\ marked' = {s \in DOMAIN TicksAt : t \notin TicksAt[s] \/ s \notin Configured}
          /\ launches' = [s \in DOMAIN TicksAt |-> IF t \in TicksAt[s] THEN 0 ELSE 1]
    /\ UNCHANGED <<files, database, queue, run>>

\* Variant: every schedule's key is made of the date alone.
DateKey(s) == <<s, 0>>

\* run_key: an ingestion's scheduled time, a publication's date.
RunKey(s) == <<s, IF s = "publish" THEN 0 ELSE now>>

\* A schedule returns a RunRequest; Dagster launches nothing for a key that has a
\* run.  The daemon may stop before it marks the tick, and evaluate it again.
Evaluate(s) ==
    /\ Due(s)
    /\ IF RunKey(s) \in ledger THEN UNCHANGED <<queue, ledger, launches>>
       ELSE /\ Len(queue) < MaxQueue
            /\ queue' = Append(queue, IF s = "publish" THEN "daily_incremental" ELSE s)
            /\ ledger' = ledger \cup {RunKey(s)}
            /\ launches' = [launches EXCEPT ![s] = @ + 1]
    /\ marked' \in {marked, marked \cup {s}}
    /\ UNCHANGED <<files, database, run, now>>

\* A run launched from the Dagster UI.
Request(job) ==
    /\ Len(queue) < MaxQueue
    /\ queue' = Append(queue, job)
    /\ UNCHANGED <<files, database, run, daemon>>

\* QueuedRunCoordinator with max_concurrent_runs: 1.
NoneRunning == \A s \in Slots : run[s] = Idle

Launch(s) ==
    /\ queue # <<>> /\ NoneRunning
    /\ run[s] = Idle /\ s = CHOOSE f \in Slots : run[f] = Idle
    /\ run' = [run EXCEPT ![s] = [Idle EXCEPT !.job = Head(queue)]]
    /\ queue' = Tail(queue)
    /\ UNCHANGED <<files, database, daemon>>

-----------------------------------------------------------------------------
(* The steps of a run. *)

\* Dagster starts an op when all of its selected upstream ops have succeeded.
Startable(s, o) ==
    /\ o \in Selection(run[s].job) \ (run[s].done \cup run[s].failed)
    /\ Upstream(o) \cap Selection(run[s].job) \subseteq run[s].done
    /\ run[s].left = {}

Running(s) == run[s] # Idle

Done(s, o) == run' = [run EXCEPT ![s].done = @ \cup {o}]
Failed(s, o) == run' = [run EXCEPT ![s].failed = @ \cup {o}]

\* _raw_asset: ingest unless observing, then look for a manifest and for files.
Materialize(s, d) ==
    /\ Running(s) /\ d \in Datasets /\ Startable(s, d)
    /\ IF Observes(run[s].job) THEN UNCHANGED files
       ELSE /\ lake' \in {lake, [lake EXCEPT ![d] = @ + 1]} /\ lake'[d] <= MaxLake[d]
            /\ reported' = reported \cup {d} /\ UNCHANGED indexed
    /\ d \in reported' /\ lake'[d] > 0
    /\ run' = [run EXCEPT ![s].done = @ \cup {d}, ![s].floor[d] = lake'[d]]
    /\ UNCHANGED <<database, queue, daemon>>

\* An attempt fails, also one that ingested nothing but rejected rows; Dagster tries
\* again after five seconds or, after max_retries (not counted here), gives up.
FailRaw(s, d) ==
    /\ Running(s) /\ d \in Datasets /\ Startable(s, d)
    /\ reported' \in IF Observes(run[s].job) THEN {reported} ELSE {reported, reported \cup {d}}
    /\ run' = run \/ Failed(s, d)
    /\ UNCHANGED <<lake, indexed, database, queue, daemon>>

\* Variant: the gate asks dbt's tests only to find nothing wrong in what exists.
AbsentPasses == \A m \in Reconciled : mart[m] \in {NoTable, Reading(m)}

\* dbt test: every model exists, the reconciled marts have the rows of the views.
Testable ==
    /\ \A m \in Marts : mart[m] # NoTable
    /\ \A m \in Reconciled : mart[m] = Reading(m)

\* Variant: a second dbt command shares the database with a first one.
UnlockedSucceeds(o) ==
    /\ \A d \in Datasets : lake[d] > 0
    /\ o = "intermediate" => "staging" \in views
    /\ o = "marts" => views = {"staging", "intermediate"}
    /\ o = "gate" => Testable

\* _run_dbt gets the database, create_raw_views finds files for every dataset, and
\* the models that the command builds on exist.
DbtSucceeds(o) ==
    /\ writer = "nobody" /\ \A d \in Datasets : lake[d] > 0
    /\ o = "intermediate" => "staging" \in views
    /\ o = "marts" => views = {"staging", "intermediate"}
    /\ o = "gate" => Testable

\* dbt build of a view layer, with the tests of its models.
BuildViews(s, o) ==
    /\ Running(s) /\ o \in {"staging", "intermediate"} /\ Startable(s, o)
    /\ DbtSucceeds(o)
    /\ views' = views \cup {o} /\ Done(s, o)
    /\ UNCHANGED <<files, mart, writer, manual, queue, daemon>>

\* dbt build of the marts: it holds the database until the last one is built.
BeginMarts(s) ==
    /\ Running(s) /\ Startable(s, "marts")
    /\ DbtSucceeds("marts")
    /\ writer' = s /\ run' = [run EXCEPT ![s].left = Marts]
    /\ UNCHANGED <<files, views, mart, manual, queue, daemon>>

\* One table is replaced; its tests run against the new one.
BuildMart(s, m) ==
    /\ m \in run[s].left
    /\ mart' = [mart EXCEPT ![m] = Reading(m)]
    /\ IF run[s].left = {m}
       THEN run' = [run EXCEPT ![s].left = {}, ![s].done = @ \cup {"marts"}] /\ writer' = "nobody"
       ELSE run' = [run EXCEPT ![s].left = @ \ {m}] /\ UNCHANGED writer
    /\ UNCHANGED <<files, views, manual, queue, daemon>>

\* quality_gate, first command.
TestMarts(s) ==
    /\ Running(s) /\ Startable(s, "gate") /\ run[s].tested = Nothing
    /\ DbtSucceeds("gate")
    /\ run' = [run EXCEPT ![s].tested = mart, ![s].disturbed = FALSE]
    /\ UNCHANGED <<files, database, queue, daemon>>

\* quality_gate, second command: dbt source freshness.
CheckSources(s) ==
    /\ Running(s) /\ Startable(s, "gate") /\ run[s].tested # Nothing
    /\ writer = "nobody"
    /\ Done(s, "gate")
    /\ UNCHANGED <<files, database, queue, daemon>>

\* A dbt command returns an error, at once (the database is taken, files or views
\* are missing) or after a failed test; the tables built so far stay.
FailDbt(s, o) ==
    /\ Running(s) /\ o \in Ops \ (Datasets \cup {"ready"})
    /\ Startable(s, o) \/ (o = "marts" /\ run[s].left # {})
    /\ writer' = IF writer = s THEN "nobody" ELSE writer
    /\ run' = [run EXCEPT ![s].failed = @ \cup {o}, ![s].left = {}]
    /\ UNCHANGED <<files, views, mart, manual, queue, daemon>>

\* api_ready.
MarkReady(s) ==
    /\ Running(s) /\ Startable(s, "ready")
    /\ Done(s, "ready")
    /\ UNCHANGED <<files, database, queue, daemon>>

\* Nothing is left to start: what is downstream of a failure is skipped.
EndRun(s) ==
    /\ Running(s) /\ run[s].left = {}
    /\ \A o \in Ops : ~Startable(s, o)
    /\ run' = [run EXCEPT ![s] = Idle]
    /\ UNCHANGED <<files, database, queue, daemon>>

\* The process of a run is killed; the database's lock goes with it.
KillRun(s) ==
    /\ Running(s)
    /\ run' = [run EXCEPT ![s] = Idle]
    /\ writer' = IF writer = s THEN "nobody" ELSE writer
    /\ UNCHANGED <<files, views, mart, manual, queue, daemon>>

-----------------------------------------------------------------------------
(* Commands that bypass the queue. *)

\* A batch lands from the command line; a killed run leaves no manifest.
Ingest(d) ==
    /\ lake[d] < MaxLake[d]
    /\ lake' = [lake EXCEPT ![d] = @ + 1]
    /\ reported' \in {reported, reported \cup {d}}
    /\ UNCHANGED <<indexed, database, queue, run, daemon>>

\* scripts/backfill.py: a batch or a replay lands, then rebuild_downstream runs dbt
\* for what is downstream of d; a mart that misses another view is not built.
BackfillAndRebuild(d) ==
    /\ lake' \in {lake, [lake EXCEPT ![d] = @ + 1]} /\ lake'[d] <= MaxLake[d]
    /\ reported' = reported \cup {d}
    /\ writer = "nobody" /\ \A e \in Datasets : lake'[e] > 0
    /\ manual' = {m \in Marts : d \in Reads[m] /\ (Reads[m] = {d} \/ "staging" \in views)}
    /\ writer' = IF manual' = {} THEN "nobody" ELSE "manual"
    /\ UNCHANGED <<indexed, views, mart, queue, run, daemon>>

RebuildMart(m) ==
    /\ m \in manual
    /\ mart' = [mart EXCEPT ![m] = Reading(m)]
    /\ manual' = manual \ {m}
    /\ writer' = IF manual' = {} THEN "nobody" ELSE writer
    /\ run' = [s \in Slots |-> IF run[s] = Idle THEN Idle ELSE [run[s] EXCEPT !.disturbed = TRUE]]
    /\ UNCHANGED <<files, views, queue, daemon>>

\* dbt fails a test or is killed.
AbandonRebuild ==
    /\ manual # {}
    /\ manual' = {} /\ writer' = "nobody"
    /\ UNCHANGED <<files, views, mart, queue, run, daemon>>

\* scripts.build_audit_store creates the store or brings it up to date; no schedule,
\* asset or script calls it.
BuildAuditStore ==
    /\ indexed' = TRUE
    /\ UNCHANGED <<lake, reported, database, queue, run, daemon>>

-----------------------------------------------------------------------------
Daemon == Tick \/ \E s \in Configured : Evaluate(s)

Succeed(s) ==
    \/ \E d \in Datasets : Materialize(s, d)
    \/ \E o \in {"staging", "intermediate"} : BuildViews(s, o)
    \/ BeginMarts(s) \/ \E m \in Marts : BuildMart(s, m)
    \/ TestMarts(s) \/ CheckSources(s) \/ MarkReady(s) \/ EndRun(s)

Fail(s) ==
    \/ \E d \in Datasets : FailRaw(s, d)
    \/ \E o \in Ops : FailDbt(s, o)
    \/ KillRun(s)

CommandLine ==
    \/ \E d \in Datasets : Ingest(d) \/ BackfillAndRebuild(d)
    \/ \E m \in Marts : RebuildMart(m)
    \/ AbandonRebuild \/ BuildAuditStore

Next ==
    \/ Daemon \/ CommandLine
    \/ \E job \in Requested : Request(job)
    \/ \E s \in Slots : Launch(s) \/ Succeed(s) \/ Fail(s)

Spec == Init /\ [][Next]_vars

-----------------------------------------------------------------------------
(* Properties. *)

\* readiness: the database opens for reading, holds the required marts, and the audit
\* store is there.  The endpoint answers 503 unless every check is passed.
Healthy == writer = "nobody" /\ (\A m \in Marts : mart[m] # NoTable) /\ indexed

Publishing(s) == "ready" \in run[s].done

\* What is marked ready is what the same run's quality gate tested: no table was
\* replaced in between, except by a rebuild from the command line.
PublishedWasTested ==
    [][\A s \in Slots : MarkReady(s) => run[s].tested = mart \/ run[s].disturbed]_vars

\* The marts that a full run marks ready hold every batch its raw assets reported.
PublishedCoversObserved ==
    [][\A s \in Slots : MarkReady(s) =>
          \A m \in Marts : \A d \in Reads[m] : run[s].floor[d] <= mart[m][d]]_vars

\* Every tick the daemon has dealt with launched exactly one run, also when the
\* daemon stopped in between and when a schedule ticks several times a day.
OneRunPerTick ==
    \A s \in Configured : launches[s] <= 1 /\ (s \in marked => launches[s] = 1)

\* When anything is marked ready, all that can keep /health/ready at 503 is a dbt that
\* is writing or an audit store that nobody has built, which api_ready does not ask for.
ReadyMeansHealthy ==
    (\E s \in Slots : Publishing(s)) => (Healthy <=> writer = "nobody" /\ indexed)
==================================================================================
