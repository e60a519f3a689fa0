# MarketForge: specification and proofs

TLA+ models of the parts of MarketForge whose correctness rests on the order of
effects: the raw lake with its ingestion runs and checkpoints, the daily shards that feed
it, compaction, the Kafka micro-batches, the orchestrated publication of the marts, the
cached read API, dataset builds with time travel, and the operational evidence. TLC checks
the models on small instances; TLAPS proves the main properties for every instance.
`PROJECT.json` maps every definition to the lines of `src/` it stands for.

Contents: [the system](#1-the-system), [the modules](#2-the-modules),
[the runs](#3-the-runs-and-their-bounds), [fairness](#4-fairness),
[the proofs](#5-the-proofs), [what the checks found](#6-disagreements-found),
[what is not modelled](#7-what-is-not-modelled), [the plan](#8-plan).

## 1. The system

MarketForge ingests market data into immutable Parquet files, builds DuckDB marts from
them with dbt and serves the marts over HTTP. Its parts share state through files; there
is no server process but the API.

| component | state | operations | interacts with |
| --- | --- | --- | --- |
| Raw lake ingestion (`ingestion/loaders/backfill.py`) | `data/raw/<dataset>/year=/month=/part-<run>.parquet`, staging under `.tmp/<run>`, quarantine, reconciliation audit and manifest files | `run_backfill`: validate, quarantine, read, deduplicate, stage each month, promote each month, reconcile, manifest | provider, compaction lock |
| Incremental loader and checkpoints (`loaders/incremental.py`, `checkpoints/sqlite.py`) | one row per dataset and source in SQLite | `calculate_fetch_window`, `run_incremental`, `advance` | ingestion, schedule |
| Reconciliation (`quality/reconciliation.py`) | none | three equations over counts | ingestion |
| Source contracts (`ingestion/contracts`) | quarantine files | `validate`, `write_quarantine` | ingestion |
| Compaction (`ingestion/compaction.py`) | lock file, staged and archived month directories, metadata | `compact_partition` and its handlers | ingestion, builds |
| Kafka micro-batches (`ingestion/streaming/kafka.py`, `scripts/consume_streamalpha.py`) | hour files, quarantine, batch metadata; offsets at the broker | `consume_microbatch` | broker, StreamAlpha |
| Query serving (`backend/`) | `QueryCache`: an LRU map and counters under a lock | `_cached`, `get_or_compute` | dbt, build manifests |
| Dataset builds and time travel (`observability/builds.py`, `warehouse/time_travel.py`) | build manifests, historical catalogs | create, verify, resolve, reproduce | lake, archives |
| Provider shards (`scripts/update_tiingo.py`, `ingestion/sources/tiingo.py`) | none; the run id is made of day and shard | select a shard, fetch its window with retries, ingest | provider, ingestion |
| Orchestration (`orchestration/definitions.py`, `config/dagster/dagster.yaml`) | Dagster's queue, runs, ticks, run keys | asset graph, jobs, schedules, retries | ingestion, dbt, readiness |
| Readiness (`backend/services/health.py`), dbt and DuckDB (`dbt/`, `warehouse/duckdb`) | views and tables of one database file, which one writer opens at a time | build a layer, test, probe | orchestration, serving |
| Freshness, statistical quality (`observability/freshness.py`, `quality/anomaly.py`) | audit files | evaluate | manifests, lake |
| Audit store (`observability/audit_store.py`) | SQLite evidence tables | `sync_all`, four transactions | all metadata files |
| Lineage, guardrails, cleanup, security master, other adapters, console, benchmarks, demos | derived or none | see section 7 | |

What is hard, and for each component what makes it correct:

* **Ingestion.** A run is a dozen durable effects in a row and may be killed between any
  two. Retries reuse staging files, quarantine files and run ids. Correct: one row per
  key, nothing acknowledged is lost, final files never change, counts balance, a degraded
  run left its diagnostics.
* **Checkpoints.** Written last, by a read and a later write. Correct: never ahead of the
  data, no gap behind, never backwards; and every published row arrives in the end.
* **Compaction.** Replaces a directory while runs that looked at the lock earlier write
  into it. Correct: acknowledged rows are in the lake or in an archive; where no lock
  stands, they are in the lake; a recorded archive is complete.
* **Kafka.** At-least-once delivery, rebalancing, bad messages. Correct: what is committed
  is stored or diagnosed, one row per event, no well-formed message blocks.
* **Serving.** The query runs outside the cache's lock while dbt replaces the database.
  Correct: no answer is older than what was published when it was asked for; capacity and
  counters hold.
* **Shards.** A fetch of many symbols fails as a whole; windows overlap while the provider
  publishes late and corrects; ids repeat within a day; rows break their contract. Correct: a day
  with all manifests is complete, but for rows that a degraded run has quarantined, and a row
  has one version.
* **Publication.** Layers are replaced one after the other by runs that fail, are killed and
  share the database with commands that no queue knows. Correct: what is marked ready was
  tested as it stands and holds what its raw assets reported; every tick launches one run.
* **Builds.** A manifest is taken directory by directory and file by file while runs and
  compactions go on, and looked up again long after. Correct: a build covers what was there, but
  for what the code can miss without noticing (section 6), its files are found again or their
  absence is noticed, and a catalog shows its rows.
* **Evidence.** Verdicts come from single files that say little about the whole, and the index
  is filled table by table while they change. Correct: fresh means landed; healthy quality
  means complete up to one percent; no run is indexed without its data; an undisturbed
  synchronization leaves all the evidence in the index, whatever earlier ones did.

`PROJECT.json` lists the hazards at their lines, with the properties that cover each.

## 2. The modules

| module | models | extends or instantiates |
| --- | --- | --- |
| `IngestionLake` | provider, `run_backfill`, `run_incremental`, `CheckpointStore` for one dataset and source | `WriteOnceStore` by refinement |
| `WriteOnceStore` | abstract: rows are added, one per key; what is acknowledged stays | |
| `Compaction` | `compact_partition` beside the runs | `IngestionLake`; `WriteOnceStore` by refinement |
| `KafkaMicrobatch` | `consume_microbatch`, its processes, broker, producer | |
| `ShardUpdates` | `update_tiingo.py`, `fetch_prices`, provider, ingestion of the window | |
| `Publication` | assets, jobs, schedules, queue, dbt layers, rebuilds from the command line | |
| `QueryServing` | request threads, `QueryCache`, dbt builds | |
| `DatasetBuilds` | build manifests, reproduction plans and catalogs over a changing lake | |
| `Evidence` | freshness, statistical quality, the audit store | |
| `MC...` | constants and initial states for TLC | the above |
| `IngestionLakeProofs`, `CompactionProofs`, `KafkaMicrobatchProofs`, `ShardUpdatesProofs`, `PublicationProofs`, `QueryServingProofs`, `DatasetBuildsProofs`, `EvidenceProofs` | theorems | the module they are named for |

Definitions called *Variant* in a comment are plausible bugs. They are not part of any
specification: `PROJECT.json` ("mutants") says which definition each would replace, and
TLC finds the named property violated when it does.

### IngestionLake

One worker is one process in one run; `pc[w]` is its position and `job[w]` its local
variables. Every effect on disk is one action.

| code | action |
| --- | --- |
| `run_backfill` up to validation (backfill.py:266-292), window and selection (incremental.py:77-92) | `StartBackfill`, `StartIncremental` |
| `write_quarantine` (`open(..., "x")`) | `WriteQuarantine`, `RefuseQuarantine` |
| `_existing_rows`, `deduplicate_rows`, grouping | `ReadExisting`, `RefuseConflict` |
| `_stage_partition` up to the write: unlink leftovers | `OpenTemp`, `RefuseArtifact` |
| `_stage_partition`, write to rename | `WriteTemp` |
| `_promote_partition`: mkdir, lock, target | `CheckPromotion`, `RefuseArtifact`; in `Compaction` `RefuseLocked` |
| `os.replace(staging, final)` | `Promote`; in `Compaction` `PromoteNowhere` |
| second `_existing_rows`, `reconcile_run`, audit | `Reconcile`, `FailReconciliation`, `FailRecount` |
| `_write_manifest` | `WriteManifest` |
| `CheckpointStore.advance`: SELECT; upsert | `GetCheckpoint`; `AdvanceCheckpoint` |
| SIGKILL; any exception that only unwinds the run | `Kill` |

Data abstraction: a row is a key and a value; `Values` are what replay compares, so
`ingested_at` and `source_record_id` are left out. A file is the set of its rows, and `{}`
is no file (the code never writes an empty one). A batch holds one row per key, as an
extract does after validation: a second one of a key in a batch is rejected
(contracts/base.py:182). Rows that break the contract are `Defects`; `Undated` is the one
whose date cannot be read, which the window keeps for quarantine. A missing column that
refuses a whole batch ends the run like `Kill` in its first step. An atomic rename or a
SQLite transaction is one step. Two runs in progress have different ids (`Enter`); an id
may be reused after that, which `update_tiingo.py` does every day. The difference is an
assumption about the callers and nothing in the code enforces it: `--run-id` is free text and
update_tiingo.py:56 derives it from the day and the shard, so two such commands at once have the
same one. Then `exists()` at backfill.py:223 may find no file for either, and the second `os.replace`
(225) overwrites the first run's file. `FinalFilesImmutable` and what rests on it (`AckedRetained`,
the write-once store) hold under this assumption only. Quarantine files stay in the model;
in the code `scripts/cleanup.py` unlinks those older than the retention, so `DegradedRunsDiagnosed`
says that the file was written before the manifest and that no run or compaction removes it.

`acked`, `late` and `horizon` are history variables, read only by properties, `Publish`
and `StartIncremental`, which maintain them. `late` holds the keys that the provider
published behind dates that were already fetched: with too small an overlap no pipeline
of this form sees them.

### Compaction

The compactor is one more process. `Begin` takes the lock, `CountKeys` and `CopyRows` read
the month twice as the code does, `MoveToArchive` and `SwapIn` are the two renames,
`Record` writes the metadata, `Finish` is the return and any failure outside the swap, and
`RollBack`, `StrandOriginals` and `Interrupt` are the inner and the outer exception handler
with the month missing, occupied or present. `KillCompactor` runs no handler. A directory
can be renamed over an empty one but not over one that holds files (`Replaceable`). The
actions of `IngestionLake` are taken over unchanged. Only here is its `locked` ever
non-empty and do its directories disappear, so the two ends of a run that need this are
actions of `Compaction`: `RefuseLocked` (the lock is there when the run looks) and
`PromoteNowhere` (the directory is gone when the run renames into it).

### KafkaMicrobatch

One topic partition, several processes of one group. `Assign` is the coordinator: it may
hand the partition to any polling member, also while its owner is in the middle of a batch
(the owner notices only when its commit fails). `StopPolling` may come at once, for `poll`
returns None before the group has assigned anything. `Parse` writes the quarantine file;
`FailOnTombstone` is the AttributeError of a message without a value. Every hour's file is
a step. `overlapped` is a history variable: whether the partition was ever taken from a
consumer that held messages.

### QueryServing

`content` counts what the marts have held, so a value *is* the content it was read from.
`stamp` is what `stat` says of the database and of the build manifests; a build changes it
with its first write and perhaps once more, and no query can read while dbt holds the file.
A thread takes the version (`Begin`), looks up (`Hit` or `Miss`; an entry may always have
expired, so `Miss` needs no condition), queries outside the lock (`Compute`,
`FailCompute`) and stores (`Store`, with eviction). It is assumed that DuckDB's file
changes with a build, that is, that the write-ahead log is checkpointed when dbt closes
it; `stat` of the log is not part of the version in the code.

### ShardUpdates

The shards take turns (the schedule leaves an hour between them), so one run is in progress
at a time. `Start` fixes window and id; `Receive` is one symbol's request including the
retries that end well, `GiveUp` a `TiingoError`, which discards the rows of all symbols. Any
row of the symbols in `Faulty` may break its contract in a response (`Broken`).
`Stage`, `RefuseQuarantine` and `Refuse` are validation, the quarantine file (which is created
exclusively), deduplication and staging of `run_backfill`; its steps in between, which
`IngestionLake` has one by one, add nothing with a single run in progress. `Promote` renames the
file of one month, and a kill may come after each. `WriteManifest` says degraded when rows were
rejected, and the run has then ended well without them. A row is a symbol, a day and whether it
carries the correction. The provider's side is `Publish` (a row of a day may come the day after)
and `Correct`. The ids of past days are forgotten at `Tick`, for no command uses them again.
Windows end on the day of the run, which is what the schedule asks for (`--through`).

### Publication

Rows are counted, not stored: `lake[d]` is the number of batches of a dataset, a mart is the
vector of counts it was built from, so "is based on" is a comparison of numbers.

| code | action |
| --- | --- |
| schedule functions with `RunRequest(run_key)` or `SkipReason` (definitions.py:248-306) | `Evaluate`, `Tick` |
| `QueuedRunCoordinator`, one run at a time | `Launch`, `Request` |
| `_raw_asset`, `_ingest`, `_dataset_observation` with its `RetryPolicy` | `Materialize`, `FailRaw` |
| `staging_models`, `intermediate_models` | `BuildViews`, `FailDbt` |
| `mart_models`: dbt replaces table by table | `BeginMarts`, `BuildMart`, `FailDbt` |
| `quality_gate`: `dbt test`, then source freshness | `TestMarts`, `CheckSources`, `FailDbt` |
| `api_ready` | `MarkReady` |
| end or death of a run's process | `EndRun`, `KillRun` |
| ingestion CLI; `scripts/backfill.py` with `rebuild_downstream` | `Ingest`; `BackfillAndRebuild`, `RebuildMart`, `AbandonRebuild` |

`Selection` and `Edges` are the jobs' selections and the assets' `deps`. `writer` is DuckDB's
file lock. `Healthy` is the readiness probe: the database opens, its marts exist, and so does the
audit store (`indexed`), which only `build_audit_store.py` creates and no job runs
(`BuildAuditStore`). The makefile's `daily` and `dagster job execute` run a job outside the queue
(Makefile:3-10); of the processes without the queue only ingestion, `rebuild_downstream`
and the audit store are modelled. The lake only grows here: that a compaction's swap may hide a
row of a batch that an asset has reported (section 6) is `Compaction`'s subject. `floor`, `tested` and `disturbed` in a run are
history: what its raw assets reported, what its gate tested, and whether a rebuild from the command
line replaced a table since.

### DatasetBuilds

The lake is modelled again, with the steps that a build can tell apart.

| code | action |
| --- | --- |
| `_promote_partition`: mkdir, look at the lock; `os.replace` | `Look`, `SeeLock`; `Promote`, `GiveUp` |
| `compact_partition`: lock, list, count, copy | `Copy`, `Refuse` |
| first rename; second rename; their handlers | `MoveToArchive`; `SwapIn`, `PutBack`, `Strand` |
| metadata and unlock; SIGKILL | `Record`; `KillCompactor` |
| `create_build_manifest`: the glob, lazily: years, months of a year, files of a month | `StartBuild`, `ScanYear`, `ScanMonth` |
| hash and count per file, in the order of the paths | `ReadFile` |
| identity, manifest; any error | `WriteManifest`; `AbandonBuild` |
| `_resolve_artifact`; hash check | `Resolved`; `Ready` |
| `reproduction_plan`; `create_catalog` | `Plan`; `CreateCatalog` |

A run may look at the lock before a compaction takes it and promote after the copy: its file
goes to the archive but not into the compact file, and its rows are `Hidden`. Listing, counting
and copying are one step, `Copy`; a file that lands in between makes the counts differ, which is
an error before the swap (`Refuse`). A directory that is gone when the glob comes to
it is passed over without an error on Python 3.13 (which CI and the Dockerfile use), so that the
month is missing from the build (`builder.missing`). `plan.fresh`, `builder.start`, `missing` and
`hidden` are history. A name denotes different contents over time only when a run id is used
again after a compaction freed it (`Reused`).

### Evidence

Time stops at half-days: before and from 16:15 in Chicago on, when a close is expected; the
instant itself belongs to the second half, as in the code. Runs are single steps that leave rows,
a manifest and perhaps a checkpoint; `Kill` leaves rows only. Compactions are `MoveToArchive`,
`SwapIn`, `PutBack` and `Strand`. Their lock is left out, so that the model has more interleavings
than the code, and the compact file holds the rows of any two or more files that were there.
`CheckFreshness` judges the manifest that completed last, `CheckQuality` the newest day in the
lake, with a finding for missing symbols and one that stands for all other metrics.

`sync_all` is one action per table, each a transaction, and `Die` may come between them. Tables
are inserted into or replaced row by row, never emptied: `SyncVersions` keeps the rows of files
that a compaction has moved away, `FindingsAfter` the findings of a day that a repeated audit no
longer makes, `SyncQuality` every freshness check it has seen, one row per evaluation. Two files
of equal contents in one partition, which would share a row by the primary key, do not occur, for
rows carry the time of their ingestion. `sync.quiet` and `sync.undone` are history: nothing changed since `Begin`; a
compaction has put its files back since.

## 3. The runs and their bounds

| run | instance | shows |
| --- | --- | --- |
| `catch_up` | one worker, two run ids, two keys in two months, one value, overlap 2, with fairness | `TypeOK`, `NoDuplicateKeys`, `RunsReconcile`, `CheckpointBacked`, `CheckpointCovers`, `PublishedRowsArrive`, `CheckpointMonotonic` |
| `two_writers` | two workers, two keys of one month, two revisions of one, undated versions of the other | `AckedRetained`, `AckedConsistent`, `FinalFilesImmutable` |
| `compact_quiet` | one worker, two compactions, never in progress together, undated defects | `CTypeOK`, `DegradedRunsDiagnosed`, `UnlockedPartitionsComplete`, `RecordedArchivesComplete`, `KeptSpec` |
| `compact_race` | two workers and one compaction, any interleaving | `AckedRecoverable` |
| `kafka` | two consumers, log of two messages, batches of two, with fairness | `TypeOK`, `CommittedAccounted`, `OneRowPerEvent`, `WellFormedTopicPassed` |
| `shards` | three symbols in shards of two, three days in two months, overlap 2, one symbol late and with rows that break their contract, one corrected once | `TypeOK`, `DayComplete`, `OneVersion` |
| `publication` | two datasets, two marts, two ticks a day, up to three batches, queue of one, with and without an audit store | `TypeOK`, `OneRunPerTick`, `ReadyMeansHealthy`, `PublishedWasTested`, `PublishedCoversObserved` |
| `serving` | two threads, two endpoints, capacity 2, four versions, five lookups | `TypeOK`, `AnswersCurrent`, `CacheAccounted` |
| `builds` | one month of two rows, three run ids, three files, two compactions, one build | `TypeOK`, `BuildsResolvable`, `CatalogExact`, `BuildCoversStart` |
| `evidence` | two run ids, one compaction, two symbols, Friday evening to Monday evening, two runs, two audits or compactions | `TypeOK`, `FreshMeansLanded`, `HealthyMeansComplete`, `IndexedRunsFiled`, `SyncedIndexCurrent` |
| `compact_loss`, `corrections` | see section 6 | violations |

Why the bounds are enough:

* Two months are what it takes to be killed between promotions, and two ids to retry under
  another or the same one. A kill may come after every step, any number of times.
* In `catch_up` two ids suffice although runs repeat forever: an id is spent only by a run
  that promoted a file, that is, after one of the two rows has arrived. Overlap 2 begins the
  window a day before the checkpoint, so that a row may be published behind it and still arrive.
* Two writers of one month race on the only thing they share: the rows both read before
  either promotes. `BackfillsOfOneRevision` (a state constraint) keeps the checkpoint out of this run,
  lets one key have two revisions and the other be defective, and has runs take turns once a
  row was rejected.
* The compaction instances begin with two files in a month (`SeededInit`, the smallest month that may be
  compacted, in the state two completed runs leave) and a third row to ingest;
  `BackfillsOnly` again leaves the checkpoint out, which compaction never touches. A second
  compaction sees the leftovers of the first, its lock included. In `compact_quiet` the third
  row may be a defect without a date, so that runs degrade.
* Two messages in different hours give a batch two files, with a kill between them; a
  repeated event id, a malformed message and a tombstone each fit with an ordinary event.
* In `shards` the last shard is shorter than the others; the first and the last day of a window
  of three lie in different months, so that a run can be killed between its promotions; the
  fourth day of `corrections` is the first whose window has lost a day. One symbol is late and shares
  its shard with the one that is corrected; one broken row is enough for a degraded run, for a
  retry that its quarantine file refuses and for a retry without it.
* In `publication` one mart reads one dataset and is reconciled, the other reads both; one
  schedule ticks twice a day, one publishes, one has no input. The audit store may be
  created at any time or never. Three batches let the lake move under
  every layer of a run. A second slot exists for the queue to keep empty.
* `builds` needs three files that runs promote: two for a compaction to copy and one that
  lands between its copy and its swap, or under a freed name. A third run id lets all three be in
  flight. Two compactions give a file two archives to be looked for in, and one compacted
  file another archive. Rows repeat across files, so two suffice. The run has one month; that
  months are scanned one after the other, and listed before they are scanned, is left to the
  theorems, which hold for any number of months and years.
* `evidence` spans a weekend, the only stretch where the calendar matters, with the clock stopped
  before and after the boundary hour. Two runs suffice for a shard that succeeds last
  while the other is missing, and for one that repeats under its id; two jobs for an audit of
  a day that is repeated or one beside a compaction. The metrics other than missing symbols
  are healthy or degraded (`Outcomes`). With two symbols one missing is
  more than five percent, so that the two thresholds coincide; the theorem has any universe.
* In `serving` two threads can miss the same key, three entries exceed the capacity, and
  three changes of the stamp include a whole build around a query. `MaxStamp` and
  `MaxRequests` cap the counters.

`serving` allows deadlock: clients need not ask for anything more. Every other
specification never stops.
Symmetry is used where the permuted values only name things: run ids, workers, threads.
It is not used in the runs that check liveness.

## 4. Fairness

`IngestionLake!Fairness`: the operating system runs a started process (`WF` of `Step`); the
daily schedule gets its turn (`SF` of `Scheduled`) although runs started by hand may occupy
the executor again and again - Dagster queues runs, one at a time; and processes are not
killed forever. That last conjunct is about `Kill(w) => Step(w)`, because some steps, an
early return for instance, have the same effect as a kill. The schedule names a new id, as
a generated UUID does.

`KafkaMicrobatch!Fairness`: the script is run again and again and proceeds; a consumer
without competitor is assigned the partition; an assigned consumer is handed a message often
enough. The last two are strong: a process that polls too early, gets None and commits
nothing is possible every time, and only the broker decides that it does not happen
forever. In the end processes are neither killed nor robbed of the partition.

The other runs check safety and assume nothing.

## 5. The proofs

TLAPS checks all of the following for every value of the constants. The named `ASSUME`s of the
modules are all that is assumed of them (for instance `WindowAssumption`: dates are days from 1,
an overlap is not negative; `ClientsAssumption`: there are finitely many request threads), and
TLC evaluates them in the runs. Every inductive invariant was checked by TLC on the
instance of its run before it was proved.

**`IngestionLakeProofs`**, any number of concurrent runs, compaction aside.

* `TypeCorrect`: `TypeOK`. It is needed by everything else, for a fresh count must be a number
  and a promoted file a set of rows.
* `RetentionInvariant`: `AckedRetained` is not inductive: a run's later steps rely on what its
  earlier ones left. `RetentionInv` adds that two runs in progress have different ids
  (so that no other run can touch the files of this one), that
  what is staged for the months still to be promoted is exactly the run's new rows, and that
  whatever the run will acknowledge - its new rows of the promoted months and the replays
  it recognised - is in the lake. It holds with concurrent writers because a
  step of another run only adds files under another name (lemma `OthersKept`).
* `AcknowledgedRowsRetained`, `PromotedFilesImmutable` follow. A promotion never replaces a
  file because its target was absent at the check and only this run writes that name.
* `AcknowledgedRowsConsistent`: the count after promotion reads all files and refuses
  conflicts, so what has passed it never conflicts.
* `CheckpointNeverAhead`: with `AdvanceInv`, that a run in `advance` has acknowledged the rows
  its date comes from, and that the date it read came from an acknowledged row too.
* `DegradedRunsHaveDiagnostics`: a run that is past its quarantine with rejected rows has the
  quarantine file, which no other step removes, until its manifest says so (`DiagnosedInv`). It
  is about that file alone, not about the audit, and up to the day `scripts/cleanup.py` removes it.

The second half of the module is under `Serialized` (one worker), which is what
`config/dagster/dagster.yaml` configures. The assumption is needed: two concurrent advances
move the checkpoint back (section 6), and concurrent writers duplicate keys.

* `SerialInvariant`: the keys of the rows a run is adding are in no file until it promotes
  them, the other keys are as many as it counted at first, and between its two statements the
  checkpoint is the run's own.
* `KeysUnique`, `ReconciliationNeverFails`, `CheckpointNeverBack` follow; the second by
  counting (`RowCount`, `SplitCount`, `ReconcileBalances`) with the library's theorems on
  finite sets.
* `LakeImplementsStore`: every step of the pipeline is an `Add`, an `Acknowledge` or a stutter
  of `WriteOnceStore`, with `contents` the rows of all final files and `acknowledged` those
  accounted for by manifests. This is the contract the rest of the platform reads under.

* `CheckpointGapFree`: no valid row dated up to the
  checkpoint is missing, unless it was published late. `CoverInv` carries the argument
  through a run: when it fetches, it holds every row from the checkpoint to its newest date
  (`WindowStart`: the window begins no later than the day after the checkpoint); rows
  published afterwards behind that date are `late`; and the checkpoint moves to that date
  only once the rows are retained.

**`CompactionProofs`** has three layers, each with less freedom than the one before.

* *Any number of runs and compactions, in any interleaving* (`CSpec`). `AckedRecoverable` says
  that acknowledged rows are in files or in archives. `RaceInv` makes it inductive: what a run will
  acknowledge is in `KeptRows`, files and archives together (`RunsKept`); a compaction's file, in the lake or
  moved on by a later compaction, has only rows that its own archive has as well
  (`ArchivesHold`), which holds because what was copied under the lock is still in the
  directory, or in the archive between the renames (`CopyInv`, `Swapping`). `KeptRowsGrow`
  is why it works: no step of either kind takes a row out of `KeptRows`, although the
  swap takes some out of the lake. `AcknowledgedRowsRecoverable`,
  `RecordedCompactionsArchived` and `CompactionTypeCorrect` follow.
* *Runs and compactions apart* (`QuietSpec`, the discipline of an operator). `QuietInv` adds that while
  a compaction is in progress no run is (`Apart`), so that what it counted and copied is the
  month (`QuietCopy`, `QuietSwap`), that runs find their rows in the lake itself (`LakeKept`),
  and that a month that is not locked has the rows of all its archives (`UnlockedReadable`).
  `UnlockedRowsReadable` follows: a compaction that is killed hides rows only behind its lock.
* *One worker as well* (`Serialized`). `StoreInv` takes over `SerialInv` and adds that no two of the
  `KeptRows` have one key and different values, and that between the renames the archive has
  each key once. `CompactionKeepsKeysUnique` and `KeptRowsImplementStore`: the
  pipeline with its compactions is still a write-once store, of which `KeptRows` are the contents;
  a swap is a stutter.

**`QueryServingProofs`**, for any number of threads and any capacity. `AnswersNeverStale`: inductive is `ServingInv`: a value read under version v is at least as new as
the content every request of version v found when it came in, and a value of the *current*
version is the current content. It rests on the order in the code: the version is taken before
the query runs. `EntriesAccounted`: the counters account for the entries because a key has one
place in the order (`CacheInv`; `WithoutKey`, `MovedToEnd` and `Evicted` say what the steps do
to such a sequence) and each query in progress had a miss (`ComputingCount`, by the library's
theorems on finite sets). A store that overwrites the entry of an overlapping miss makes the
sum smaller, never larger.

**`DatasetBuildsProofs`**, for any number of ids, compactions and builds, from the assumptions that
months and compactions are finitely many and that a row belongs to one month. `Inv` has four
parts. `LakeInv`: the versions of files a month has had - in the lake or in an archive - only
grow (`Grows`); every row of theirs is in the lake or `Hidden`, moved away by a compaction that
had not copied it (`NothingLost`), which is all that can be said, since `compact_loss` shows that
such rows exist; a month that is renamed away is locked (`AwayLocked`), and a compaction's name is
on a file only after its swap (`NamesFresh`). `BuildsInv`: a recorded part is a version.
`BuilderInv`: while a build is scanned and read, each row that was there when it began is in a part
already read, in a file still to read, in a month still to be scanned, or excused: its month was
missing when it was scanned, or it was hidden then. `CatalogInv`: the paths of a plan denote the
files of its build (`Denotes`, `Shows`), by the archives that were recorded when it was made, and
recorded archives do not change. `BuildsStayResolvable`, `BuildsCoverStart` and `CatalogsExact`
follow. All three are stated with the exceptions the code makes true: names used again, moves
whose metadata is not written yet, and for `BuildsCoverStart` missing months and hidden rows.

**`EvidenceProofs`**, for every calendar, universe, set of run and compaction ids and number of
runs. Compactions take rows out of the lake but not out of `Kept`, lake and archives together
(`LakeStep`), for a swap has only rows its archive has (`LakeShape`). `LandInv`: rows are of closed
days, and a watermark is the day of a row in `Kept`. `FreshPricesLanded`
then needs `ExpectedIsLastClosed`: on weekends, before and after 16:15, the day
`expected_price_event_time` arrives at is the last market day that had closed; a watermark of
a closed day that is not older is that day (`FreshDay`). `CompleteInv` keeps what a healthy
audit found, since `Kept` only grows; `HealthyDaysComplete` says what that is worth for
the thresholds in the code: less than one percent missing, which means complete for up to 100
symbols, the size of `config/price_universe.txt`, and no longer beyond. `IndexInv`: a
synchronization that nothing disturbed has put what there is into the tables it is done with, and
a metric has one finding per audit (so that `INSERT OR REPLACE` by metric and date lists them
all); nothing is said of what else is in the tables. `UndisturbedSyncCurrent` follows. `FiledInv`:
the last day of an indexed run is in `Kept`, and from the second table on in an indexed file or an
archive, because runs are read before files; `IndexedRunsCovered` follows. Greatest and least
days exist (`MaxMin`) by the same theorem on finite sets as below.

**`ShardUpdatesProofs`**, for every universe, shard size, overlap and calendar. Inductive is
`ShardInv`, four parts next to the types: the provider is at most two days behind
(`Published`); a run that fetches holds, for every symbol of its shard that it is done with, the
certain rows of its window, accepted or rejected, one version each (`Fetching`); what a run has
still to promote has keys the lake lacks, and with the lake and what its quarantine file has
makes up its window (`Promoting`); a manifest stands for the certain rows of its shard's window, in
the lake or, when it says degraded, in the quarantine file of its id (`Manifested`). `CompleteDays` then needs that the
shards cover the universe: symbol *i* is in shard (*i*-1) div *size* (`ShardsCover`).
`NeverTwoVersions` and `ShardTypesCorrect` follow from the same invariant.

**`PublicationProofs`**, for every asset graph, number of executors and set of schedules, from the
assumptions that marts read something, that the publication ticks at most once a day, and
that the names of assets, jobs and slots differ. Inductive is `PublicationInv`: one run executes
and one process has the database (`Exclusive`); a run has done an op only after its upstream
(`Ordered`); what a run's raw assets reported (`floor`) is in the lake and in each mart it has
built since (`CoveredIn`); and the tables are those its gate tested, or a rebuild from the
command line has replaced one (`TestedIn`). `ReadyCoversObserved`, `ReadyWasTested` and
`ReadyIsHealthy` follow, because `api_ready` has the gate, and the gate the marts, upstream.
That a run has marked ready does not make the probe agree at every moment: `ReadyIsHealthy`
says that it does exactly while no dbt process has the database and the audit store exists,
which no asset sees to.
`Scheduled` relates launches to run keys and to the ticks that are past; `TicksLaunchOnce`
follows.

**`KafkaMicrobatchProofs`**, for any number of consumers and any batch size. Inductive is
`KafkaInv`, with `ConsumerInv` for each process: the owner's batch has every offset a commit
would cover; from `read` on the rejected messages are diagnosed; from `write` on each accepted
event is stored or has a copy among the fresh ones. `CommittedHasLanded` needs no more: at the
commit nothing is fresh. As long as no unfinished batch lost its partition (`~overlapped`) only
the owner holds a batch, and its fresh events have ids that are not stored and differ from each
other, so `EventsUnique`. That the first message with an id is kept (`FirstIsNew`) takes the
least element of a finite set of offsets (`FirstOf`, from the library's theorem that finite sets
are well-founded).

Model-checked only: the properties with fairness (`PublishedRowsArrive`,
`WellFormedTopicPassed`), which are beyond the prover. Every invariant, action property and
refinement of a passing run is a theorem. No module has a recursive operator and nothing is
proved by induction over data.

## 6. Disagreements found

Two are runs in which TLC violates what the docs say, by steps the code allows:

* `compact_loss`: a run looks at the lock, compaction takes it and copies, the run promotes, and
  the swap moves its file to the archive (docs/compaction.md:10 says locked).
* `corrections`: one corrected row inside the window makes `deduplicate_rows` refuse the whole
  shard day after day, and a row that another of its symbols got late leaves the
  seven-day window unseen (docs/scheduling.md:65 says corrections are replay-safe).

`AckedRecoverable` and `KeptSpec` say what is left in the compaction cases: nothing is
destroyed, and with runs and compactions kept apart the lake and its archives are a
write-once store.

Others were met while modelling. The models contain the behaviour, and the properties claim no
more than the code keeps:

* A run that rejected a row and was killed during promotion cannot be retried under its id,
  for its quarantine file exists (contracts/base.py:217; docs/atomic_writes.md:18 says it can).
* `advance` reads and writes the checkpoint in two transactions (sqlite.py:60); two processes move
  it backwards (the docstring at sqlite.py:57 says never).
* A run that reads the lake while compaction has renamed the month away writes every key of
  it again (backfill.py:294; docs/compaction.md:10).
* A Kafka message without a value raises an exception that is not caught (kafka.py:48;
  docs/streamalpha_kafka.md:64-66 says no message blocks).
* An audit without an event date is indexed under the time of the synchronization
  (audit_store.py:111), so repeating it adds rows (docs/metadata_audit_store.md:18 says
  idempotent).
* The retries of `fetch_prices` come on top of one request per symbol, so that a shard can exceed the
  hourly allowance that docs/scheduling.md:65 computes with.
* A dataset build is recorded without complaint although a month was renamed away while the
  directories were scanned (builds.py:86), or a compaction had hidden a file it had not copied:
  the build lacks rows that had landed.
* A run that quarantines rows ends well and says degraded; a day with all manifests can lack them.
* `api_ready` succeeds without an audit store, and the readiness probe then answers 503
  (health.py:46-55).
* The index keeps rows of files that a compaction replaced and of findings that an audit repeated
  for the same day no longer makes (audit_store.py:100-135 never deletes), and it can show a
  checkpoint whose run it does not list until the next synchronization.
* The manifest that completed last speaks for all prices (check_freshness.py:22): an empty
  incremental run or a historical backfill makes current prices UNKNOWN or FAILED.

## 7. What is not modelled

Within the modelled components: several sources or Kafka partitions at once, which share no
state but the database file of checkpoints, one row each. Power loss that undoes a rename:
the code does not fsync, and the docs promise process kills only. SQLite's and DuckDB's own
recovery. Contents of Parquet, JSON and SQL. Field normalisation and contract rules (only
their verdict). `late_event_cutoff`, latencies and sizes, which are reported and never decided
on. The read endpoints over other files than the marts (`runs`, `quality`, `quarantine`,
lineage, storage). Time to live as a clock: an entry may expire at any moment. Git commit, dbt
version and parameters in a build's identity, which are fixed. The statistics behind a drift
verdict, which may be anything once there is enough history.

Whole components, with the reason for each in `PROJECT.json`:

* *StreamAlpha polling*: a loop over `consume_microbatch`, whose steps `KafkaMicrobatch` has.
* *Other adapters, security master, lineage*: sequential functions of their input
  without state of their own; `IngestionLake` takes what adapters return as its input.
* *Guardrails and cleanup*: comparisons of measured sizes with a budget, and a command that
  unlinks temporary, staged and quarantine files after their retention of at least a day: it can
  meet a run only if that lasts as long, and ends what is said of quarantine files.
* *Recovery evidence, console, benchmarks, demos, readiness checks*: reports, rendering and
  drivers of the components above.

## 8. Plan

Done, in the order of importance: `IngestionLake` with `WriteOnceStore`, `Compaction`,
`KafkaMicrobatch`, `QueryServing`, `Publication`, `DatasetBuilds`, `ShardUpdates`, `Evidence`; proofs
of every safety property the passing runs check.

What is left:

1. `IngestionLake` with several runs and one cleanup; StreamAlpha polling over
   `KafkaMicrobatch`; the read endpoints whose evidence is not in the cache key.
2. Abstract specifications of serving (an answer is some published content since the request)
   and of builds (a set of versions that only grows), with the refinements proved.
3. What the proofs show of the drift verdict and of `late_event_cutoff`, once they are modelled.
