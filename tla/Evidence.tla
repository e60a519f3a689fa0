-------------------------------- MODULE Evidence --------------------------------
(***************************************************************************)
(* What the platform says about its prices: scripts/check_freshness.py and   *)
(* observability/freshness.py judge the newest manifest against the market    *)
(* calendar, quality/anomaly.py judges the newest day in the lake, and         *)
(* observability/audit_store.py copies manifests, files, audits and the       *)
(* checkpoint into SQLite, one transaction after the other, while runs        *)
(* finish, repeat under their id and are killed, and compactions replace      *)
(* their files.  All days are in one month.                                   *)
(***************************************************************************)
EXTENDS Integers, Sequences, FiniteSets, FiniteSetsExt

CONSTANTS
    RunIds,       \* run ids
    Compactions,  \* compaction ids
    Symbols,      \* config/price_universe.txt
    LastDay,      \* bound: days after day 0
    Instants,     \* bound: the half-days the clock stops at
    MaxLoads,     \* bound: runs, the killed ones included
    MaxJobs,      \* bound: audits and compactions
    Outcomes,     \* bound: what the quality metrics but for the missing symbols can give
    Weekend,      \* the days without a market
    MinBaseline   \* minimum_baseline_days

ASSUME CalendarAssumption ==
    /\ LastDay \in Nat \ {0} /\ Weekend \subseteq 1 .. LastDay
    /\ 1 \in Instants /\ Instants \subseteq 1 .. 2 * LastDay + 1
ASSUME UniverseSize == Symbols # {} /\ IsFiniteSet(Symbols)
ASSUME EvidenceBounds ==
    /\ {MinBaseline, MaxLoads, MaxJobs} \subseteq Nat
    /\ Outcomes \subseteq {"HEALTHY", "DEGRADED", "FAILED"} /\ RunIds \cap Compactions = {}

VARIABLES
    now,        \* twice the day, plus one from 16:15 in Chicago on
    files,      \* rows of the final file of each run and of each compaction
    archive,    \* the files that each compaction has moved away
    swap,       \* a compaction between its two renames, with the rows it has copied
    manifests,  \* max_event_date in the manifest of each run
    newest,     \* the run whose manifest has the greatest completed_at
    checkpoint, \* incremental checkpoint of the prices
    pending,    \* an incremental run between its manifest and its checkpoint
    fresh,      \* warehouse/metadata/freshness/prices.json
    quality,    \* warehouse/metadata/quality/prices-<source>.json
    store,      \* warehouse/metadata/operational.sqlite
    loads,      \* runs started
    jobs,       \* audits and compactions started
    sync        \* sync_all: its next step, whether the evidence has held still, and
                \* whether a compaction has put files back meanwhile

lake == <<files, archive, swap>>
ledger == <<manifests, newest, checkpoint, pending, loads>>
audits == <<fresh, quality>>
vars == <<now, lake, ledger, audits, jobs, store, sync>>

Days == 0 .. LastDay
MarketDays == Days \ Weekend
Day(t) == t \div 2

Rows == Symbols \X MarketDays
Paths == RunIds \cup Compactions
NoFiles == [p \in Paths |-> {}]

Lake == UNION {files[p] : p \in Paths}
Archived == UNION {archive[c][p] : c \in Compactions, p \in Paths}
DaysOf(rows) == {row[2] : row \in rows}

\* No day: an absent max_event_date, checkpoint or profile.
Never == -1
Latest(rows) == IF rows = {} THEN Never ELSE Max(DaysOf(rows))

NoManifest == -2
NoRun == "none"
NoCheckpoint == [value |-> Never, run |-> NoRun]
NoSwap == [id |-> NoRun, rows |-> {}]
NoFreshness == [status |-> "none", due |-> Never, at |-> 0]
NoQuality == [status |-> "none", event |-> Never, findings |-> {}]
\* The rows of dated audits by date; those of undated ones, which all say UNKNOWN, as one.
NoChecks == [d \in MarketDays \cup {Never} |-> "none"]

Statuses == {"HEALTHY", "DEGRADED", "FAILED", "UNKNOWN"}

NoSync == [step |-> 0, quiet |-> FALSE, undone |-> FALSE]

Finished == {r \in RunIds : manifests[r] # NoManifest}

Init ==
    /\ now = 1
    /\ files = NoFiles /\ archive = [c \in Compactions |-> NoFiles] /\ swap = NoSwap
    /\ manifests = [r \in RunIds |-> NoManifest]
    /\ newest = NoRun /\ checkpoint = NoCheckpoint /\ pending = NoCheckpoint
    /\ fresh = NoFreshness /\ quality = NoQuality
    /\ loads = 0 /\ jobs = 0
    /\ store = [runs |-> manifests, versions |-> files, checks |-> NoChecks, findings |-> {},
                freshness |-> {}, checkpoint |-> NoCheckpoint]
    /\ sync = NoSync

Tick ==
    /\ now < Max(Instants)
    /\ now' = Min({t \in Instants : t > now})
    /\ UNCHANGED <<lake, ledger, audits, jobs, store, sync>>

-----------------------------------------------------------------------------
(* Ingestion, as far as it leaves evidence. *)

Disturb == sync' = [sync EXCEPT !.quiet = FALSE]

\* What providers can deliver: some symbols of one day whose market has closed.
Batches == {S \X {d} : S \in SUBSET Symbols, d \in {e \in MarketDays : 2 * e + 1 <= now}}

RunStarts == loads < MaxLoads /\ loads' = loads + 1
JobStarts == jobs < MaxJobs /\ jobs' = jobs + 1

\* The new rows of a batch land in the file of the run, which must not exist.  The
\* compaction lock is left out: runs also land while a compaction is under way.
Landed(r, batch) ==
    /\ batch \subseteq Lake \/ files[r] = {}
    /\ files' = [files EXCEPT ![r] = @ \cup (batch \ Lake)]
    /\ UNCHANGED <<archive, swap>>

\* Variant: the watermark is the day of arrival.
ArrivalManifest(r, batch) ==
    /\ manifests' = [manifests EXCEPT ![r] = IF batch = {} THEN Never ELSE Day(now)]
    /\ newest' = r

\* max_event_date is taken over all accepted rows, the duplicates included.
WriteManifest(r, batch) ==
    /\ manifests' = [manifests EXCEPT ![r] = Latest(batch)]
    /\ newest' = r

\* run_backfill.
Backfill(r) ==
    /\ RunStarts
    /\ \E batch \in Batches : Landed(r, batch) /\ WriteManifest(r, batch)
    /\ Disturb
    /\ UNCHANGED <<now, checkpoint, pending, audits, jobs, store>>

\* A run is killed before its manifest.
Kill(r) ==
    /\ RunStarts
    /\ \E batch \in Batches : Landed(r, batch)
    /\ Disturb
    /\ UNCHANGED <<now, manifests, newest, checkpoint, pending, audits, jobs, store>>

\* run_incremental without overlap: the rows after the checkpoint; a run that finds
\* none still writes its manifest.
Incremental(r) ==
    /\ pending = NoCheckpoint
    /\ RunStarts
    /\ \E batch \in Batches :
          LET selected == {row \in batch : row[2] > checkpoint.value} IN
          /\ Landed(r, selected) /\ WriteManifest(r, selected)
          /\ pending' = IF selected = {} THEN NoCheckpoint ELSE [value |-> Latest(selected), run |-> r]
    /\ Disturb
    /\ UNCHANGED <<now, checkpoint, audits, jobs, store>>

\* advance, or a kill before it; the checkpoint does not go back.
Advance ==
    /\ pending # NoCheckpoint
    /\ checkpoint' \in {checkpoint, [pending EXCEPT !.value = Max({@, checkpoint.value})]}
    /\ pending' = NoCheckpoint
    /\ Disturb
    /\ UNCHANGED <<now, lake, manifests, newest, loads, audits, jobs, store>>

-----------------------------------------------------------------------------
(* Compaction, as far as it moves evidence. *)

\* The first rename: the copy has the rows of the files that were there when it was
\* made, the archive those that have landed since as well.
MoveToArchive(c) ==
    /\ JobStarts
    /\ swap = NoSwap /\ archive[c] = NoFiles
    /\ \E copied \in SUBSET {p \in Paths : files[p] # {}} :
          /\ Cardinality(copied) >= 2
          /\ swap' = [id |-> c, rows |-> UNION {files[p] : p \in copied}]
    /\ archive' = [archive EXCEPT ![c] = files] /\ files' = NoFiles
    /\ Disturb
    /\ UNCHANGED <<now, ledger, audits, store>>

\* The second rename, or the first one undone: neither replaces a directory with files.
SwapIn ==
    /\ swap # NoSwap /\ Lake = {}
    /\ files' = [files EXCEPT ![swap.id] = swap.rows] /\ swap' = NoSwap
    /\ Disturb
    /\ UNCHANGED <<now, archive, ledger, audits, jobs, store>>

PutBack ==
    /\ swap # NoSwap /\ Lake = {}
    /\ files' = archive[swap.id] /\ archive' = [archive EXCEPT ![swap.id] = NoFiles]
    /\ swap' = NoSwap
    /\ sync' = [sync EXCEPT !.quiet = FALSE, !.undone = sync.step # 0]
    /\ UNCHANGED <<now, ledger, audits, jobs, store>>

\* The compaction is killed, or finds new files where it puts back the old ones.
Strand ==
    /\ swap # NoSwap /\ swap' = NoSwap
    /\ Disturb
    /\ UNCHANGED <<now, files, archive, ledger, audits, jobs, store>>

-----------------------------------------------------------------------------
(* Freshness. *)

PreviousWeekday(d) == Max({e \in MarketDays : e <= d})

\* Variant: the market of the day before is expected all day long.
YesterdaysClose(t) == PreviousWeekday(Max({0, Day(t) - 1}))

\* expected_price_event_time: the local date, or the day before on weekends and
\* until 16:15, then back to a weekday.
ExpectedClose(t) ==
    PreviousWeekday(IF Day(t) \in Weekend \/ t % 2 = 0 THEN Day(t) - 1 ELSE Day(t))

\* Ages are those of closes, in days of 24 hours; the weekend's count.
Freshness(event, t) ==
    IF event = Never THEN "UNKNOWN"
    ELSE LET age == Max({0, ExpectedClose(t) - event}) IN
         IF age >= 2 THEN "FAILED" ELSE IF age >= 1 THEN "DEGRADED" ELSE "HEALTHY"

\* History for the properties: the last market day that had closed.
LastClosed(t) == Max({d \in MarketDays : 2 * d + 1 <= t})

\* check_freshness: whatever run completed last is the evidence.
CheckFreshness ==
    /\ JobStarts
    /\ LET event == IF newest = NoRun THEN Never ELSE manifests[newest] IN
       fresh' = [status |-> Freshness(event, now), due |-> LastClosed(now), at |-> jobs']
    /\ Disturb
    /\ UNCHANGED <<now, lake, ledger, quality, store>>

-----------------------------------------------------------------------------
(* Statistical quality. *)

\* Variant: the symbols of any day.
ObservedEver(d) == {row[1] : row \in Lake}

\* _observed_symbols.
Observed(d) == {row[1] : row \in {x \in Lake : x[2] = d}}

\* missing_symbol_warn = 1 %, missing_symbol_fail = 5 %.
Missing(d) ==
    LET missing == 100 * Cardinality(Symbols \ Observed(d)) n == Cardinality(Symbols) IN
    IF missing >= 5 * n THEN "FAILED" ELSE IF missing >= n THEN "DEGRADED" ELSE "HEALTHY"

EnoughHistory == Cardinality(DaysOf(Lake)) - 1 >= MinBaseline

\* evaluate_price_quality judges the newest day.  Its other metrics, among them those
\* that need enough days before it, are one with any outcome.
Findings(d, other) ==
    {f \in {[metric |-> "missing_symbol_fraction", severity |-> Missing(d)],
            [metric |-> "other", severity |-> other]} : f.severity # "HEALTHY"}

Judged(findings) ==
    LET severities == {f.severity : f \in findings} IN
    CASE "FAILED" \in severities -> "FAILED"
      [] "FAILED" \notin severities /\ severities # {} -> "DEGRADED"
      [] OTHER -> IF EnoughHistory THEN "HEALTHY" ELSE "UNKNOWN"

CheckQuality ==
    /\ JobStarts
    /\ LET d == Latest(Lake) IN
       IF d = Never THEN quality' = [status |-> "UNKNOWN", event |-> Never, findings |-> {}]
       ELSE \E other \in Outcomes :
               quality' = [status |-> Judged(Findings(d, other)), event |-> d,
                           findings |-> Findings(d, other)]
    /\ Disturb
    /\ UNCHANGED <<now, lake, ledger, fresh, store>>

-----------------------------------------------------------------------------
(* sync_all. *)

\* INSERT OR IGNORE instead of INSERT OR REPLACE.
KeepIndexed(old, new) == IF old = NoManifest THEN new ELSE old

\* INSERT OR REPLACE.
Replace(old, new) == IF new = NoManifest THEN old ELSE new

\* Variant: the files are read before the manifests.
VersionsFirst == <<"versions", "runs", "quality", "checkpoints">>

\* The tables in the order of sync_all.
Order == <<"runs", "versions", "quality", "checkpoints">>

Syncing(table) == sync.step # 0 /\ Order[sync.step] = table

StepDone == sync' = IF sync.step = Len(Order) THEN NoSync ELSE [sync EXCEPT !.step = @ + 1]

Begin ==
    /\ sync.step = 0
    /\ sync' = [step |-> 1, quiet |-> TRUE, undone |-> FALSE]
    /\ UNCHANGED <<now, lake, ledger, audits, jobs, store>>

SyncRuns ==
    /\ Syncing("runs")
    /\ store' = [store EXCEPT !.runs = [r \in RunIds |-> Replace(@[r], manifests[r])]]
    /\ StepDone
    /\ UNCHANGED <<now, lake, ledger, audits, jobs>>

\* One row per path; the rows of files that are gone stay.
SyncVersions ==
    /\ Syncing("versions")
    /\ store' = [store EXCEPT !.versions =
          [p \in Paths |-> IF files[p] = {} THEN @[p] ELSE files[p]]]
    /\ StepDone
    /\ UNCHANGED <<now, lake, ledger, audits, jobs>>

\* The findings rows of a date: those of the same metric are replaced, the others stay.
FindingsAfter(rows) ==
    {row \in rows : row.event # quality.event \/ \A f \in quality.findings : row.metric # f.metric}
        \cup {[event |-> quality.event, metric |-> f.metric, severity |-> f.severity] :
                 f \in quality.findings}

\* The overall row of the statistical checks and those of its findings, under the event
\* date of the audit or, without one, under the time of the synchronization; the row of
\* the freshness check under its evaluation time.
SyncQuality ==
    /\ Syncing("quality")
    /\ store' = [store EXCEPT
          !.checks = IF quality = NoQuality THEN @ ELSE [@ EXCEPT ![quality.event] = quality.status],
          !.findings = FindingsAfter(@),
          !.freshness = IF fresh = NoFreshness THEN @ ELSE @ \cup {fresh}]
    /\ StepDone
    /\ UNCHANGED <<now, lake, ledger, audits, jobs>>

SyncCheckpoints ==
    /\ Syncing("checkpoints")
    /\ store' = [store EXCEPT !.checkpoint = checkpoint]
    /\ StepDone
    /\ UNCHANGED <<now, lake, ledger, audits, jobs>>

\* The command dies between two transactions, or a file that it reads is moved away.
Die ==
    /\ sync.step # 0
    /\ sync' = NoSync
    /\ UNCHANGED <<now, lake, ledger, audits, jobs, store>>

Next ==
    \/ Tick \/ Advance \/ \E r \in RunIds : Backfill(r) \/ Kill(r) \/ Incremental(r)
    \/ \E c \in Compactions : MoveToArchive(c)
    \/ SwapIn \/ PutBack \/ Strand
    \/ CheckFreshness \/ CheckQuality
    \/ Begin \/ SyncRuns \/ SyncVersions \/ SyncQuality \/ SyncCheckpoints \/ Die

Spec == Init /\ [][Next]_vars

-----------------------------------------------------------------------------
(* Properties. *)

CheckpointTypeOK(c) == c = NoCheckpoint \/ (c.run \in RunIds /\ c.value \in MarketDays \cup {Never})

TypeOK ==
    /\ now \in Instants
    /\ {files, store.versions} \subseteq [Paths -> SUBSET Rows]
    /\ archive \in [Compactions -> [Paths -> SUBSET Rows]]
    /\ swap = NoSwap \/ (swap.id \in Compactions /\ swap.rows \subseteq Rows)
    /\ newest \in Finished \cup {NoRun}
    /\ \A r \in RunIds : {manifests[r], store.runs[r]} \subseteq MarketDays \cup {Never, NoManifest}
    /\ CheckpointTypeOK(checkpoint) /\ CheckpointTypeOK(pending) /\ CheckpointTypeOK(store.checkpoint)
    /\ {fresh.status, quality.status} \subseteq Statuses \cup {"none"}
    /\ sync.step \in 0 .. Len(Order)

\* Rows that a reader of the lake can find, or that a compaction has put aside.
Kept == Lake \cup Archived

\* Prices are called fresh only if rows of the last market day that had closed by then
\* have landed, over weekends, whatever runs were killed, repeated or found nothing.
FreshMeansLanded ==
    fresh.status = "HEALTHY" => fresh.due \in DaysOf(Kept)

Absent(d) == {s \in Symbols : <<s, d>> \notin Kept}

\* A day that quality calls healthy lacks less than one percent of the universe, which is
\* no symbol of a universe of up to 100, as config/price_universe.txt has; it stays so.
HealthyMeansComplete ==
    quality.status = "HEALTHY"
        => /\ 100 * Cardinality(Absent(quality.event)) < Cardinality(Symbols)
           /\ Cardinality(Symbols) <= 100 => Absent(quality.event) = {}

IndexedRows == UNION {store.versions[p] : p \in Paths}

\* A synchronization, also one that runs and compactions overlap, lists no run without
\* its data: the last day of an indexed run is in an indexed file, or in one that a
\* compaction has put aside, unless one has put its files back meanwhile.
IndexedRunsFiled ==
    [][SyncCheckpoints /\ ~sync.undone =>
          \A r \in RunIds : store.runs[r] \in MarketDays =>
              store.runs[r] \in DaysOf(IndexedRows \cup Archived)]_vars

\* Everything there is, as it is, is in the index s.  It may hold more: files that were
\* compacted away, findings that a repeated audit of the same day no longer makes, the
\* freshness checks of the past.
Lists(s) ==
    /\ s.runs = manifests /\ s.checkpoint = checkpoint
    /\ \A p \in Paths : files[p] # {} => s.versions[p] = files[p]
    /\ quality # NoQuality => s.checks[quality.event] = quality.status
    /\ \A f \in quality.findings :
          {row.severity : row \in {x \in s.findings : x.event = quality.event /\ x.metric = f.metric}}
              = {f.severity}
    /\ fresh # NoFreshness => fresh \in s.freshness

\* A synchronization during which nothing changed leaves all of the evidence in the index
\* as it is, also after runs repeated under their id, after audits of a day repeated, and
\* after earlier synchronizations died half way or overlapped with runs or compactions.
SyncedIndexCurrent == [][SyncCheckpoints /\ sync.quiet => Lists(store')]_vars
=================================================================================
