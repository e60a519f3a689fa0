------------------------------ MODULE ShardUpdates ------------------------------
(***************************************************************************)
(* The daily price update: scripts/update_tiingo.py takes one shard of the   *)
(* universe, fetches the last days of its symbols (fetch_prices of            *)
(* ingestion/sources/tiingo.py) and hands them to run_backfill under a run id *)
(* made of the day and the shard.  The provider publishes late and corrects   *)
(* what it has published; rows break their contract and are quarantined;     *)
(* requests fail; processes are killed; the laptop sleeps; the same command  *)
(* is given again.                                                           *)
(***************************************************************************)
EXTENDS Integers, Sequences, FiniteSets, FiniteSetsExt, SequencesExt

CONSTANTS
    Universe,       \* the symbols of config/price_universe.txt, in order
    ShardSize,      \* --shard-size
    Overlap,        \* --overlap-days
    LastDay,        \* bound: days
    MonthOf,        \* the month of a day
    Late,           \* bound: symbols whose row of a day may be published the day after
    Revised,        \* bound: symbols whose rows may be corrected
    MaxCorrections, \* bound: corrections
    Faulty,         \* bound: symbols whose rows may break the contract
    MaxBroken,      \* bound: rows of one response that do
    Daily           \* no shard misses a day

ASSUME UniverseAssumption ==
    /\ Universe \in Seq(Range(Universe)) /\ IsInjective(Universe) /\ Universe # <<>>
    /\ ShardSize \in Nat \ {0}
ASSUME WindowAssumption == Overlap \in Nat /\ LastDay \in Nat \ {0} /\ DOMAIN MonthOf = 1 .. LastDay
ASSUME ProviderBounds == MaxCorrections \in Nat /\ MaxBroken \in Nat /\ Daily \in BOOLEAN

VARIABLES
    today,      \* the date
    upto,       \* the latest day that the provider has published, per symbol
    corrected,  \* rows that the provider has corrected
    lake,       \* canonical price rows
    files,      \* run id and month of final files
    manifests,  \* run ids with a manifest
    degraded,   \* those whose manifest says that rows were rejected
    quarantine, \* per run id, the keys in its quarantine file
    conflicted, \* run ids that were refused for a corrected row
    run         \* the update in progress; the shards take turns, an hour apart

provider == <<today, upto, corrected>>
runs == <<files, manifests, degraded, quarantine, conflicted>>
vars == <<provider, lake, runs, run>>

Symbols == Range(Universe)
Days == 1 .. LastDay
Rows == [symbol : Symbols, day : Days, corrected : BOOLEAN]

\* Variant: the last symbol of a full shard belongs to none.
ShortShard(k) == SubSeq(Universe, k * ShardSize + 1, (k + 1) * ShardSize - 1)

\* symbols[index * size:(index + 1) * size]
Shard(k) == SubSeq(Universe, k * ShardSize + 1,
                   Min({(k + 1) * ShardSize, Len(Universe)}))

\* The shards that are not empty.
Shards == {k \in 0 .. Len(Universe) - 1 : k * ShardSize < Len(Universe)}

\* The days a run asks for.
Window(d) == {e \in Days : d - Overlap <= e /\ e <= d}

Key(row) == <<row.symbol, row.day>>
Keys(rows) == {Key(row) : row \in rows}
Months(rows) == {MonthOf[row.day] : row \in rows}

Idle == [pc |-> "idle", shard |-> 0, through |-> 0, todo |-> <<>>, rows |-> {}, rejected |-> {}]

\* What is published when day d begins to be asked for.
Available(u, d) == [s \in Symbols |-> IF s \in Late THEN u[s] ELSE d]

Init ==
    /\ today = 1 /\ upto = Available([s \in Symbols |-> 0], 1) /\ corrected = {}
    /\ lake = {} /\ files = {} /\ manifests = {} /\ degraded = {} /\ quarantine = {}
    /\ conflicted = {}
    /\ run = Idle

-----------------------------------------------------------------------------
(* The provider. *)

\* The next day.  A day's row is there on that day or on the next; the run ids of a
\* day are not used on later days, but for those of a run that goes on.
Tick ==
    /\ today < LastDay /\ \A s \in Symbols : upto[s] >= today - 1
    /\ Daily => \A k \in Shards : <<today, k>> \in manifests \cup conflicted
    /\ today' = today + 1 /\ upto' = Available(upto, today + 1)
    /\ files' = {f \in files : f[1] = run.through}
    /\ manifests' = {f \in manifests : f[1] = run.through}
    /\ degraded' = {f \in degraded : f[1] = run.through}
    /\ quarantine' = {q \in quarantine : q.run[1] = run.through}
    /\ conflicted' = {f \in conflicted : f[1] = run.through}
    /\ UNCHANGED <<corrected, lake, run>>

Publish(s) ==
    /\ upto[s] < today
    /\ upto' = [upto EXCEPT ![s] = @ + 1]
    /\ UNCHANGED <<today, corrected, lake, runs, run>>

Correct(s, d) ==
    /\ s \in Revised /\ d <= upto[s] /\ <<s, d>> \notin corrected
    /\ Cardinality(corrected) < MaxCorrections
    /\ corrected' = corrected \cup {<<s, d>>}
    /\ UNCHANGED <<today, upto, lake, runs, run>>

\* What a request for symbol s returns.
Served(s, window) ==
    {[symbol |-> s, day |-> d, corrected |-> <<s, d>> \in corrected] :
        d \in {e \in window : e <= upto[s]}}

-----------------------------------------------------------------------------
(* fetch_prices. *)

\* main: the window and the run id are fixed by the date and the shard.
Start(k) ==
    /\ run = Idle
    /\ run' = [pc |-> "fetch", shard |-> k, through |-> today, todo |-> Shard(k), rows |-> {},
               rejected |-> {}]
    /\ UNCHANGED <<provider, lake, runs>>

\* Rows of a response that the contract will reject.
Broken(s, rows) == {bad \in SUBSET rows : (bad = {} \/ s \in Faulty) /\ Cardinality(bad) <= MaxBroken}

\* A response with rows, at once or after retries of 429, 5xx and network errors.
Receive ==
    /\ run.pc = "fetch" /\ run.todo # <<>>
    /\ LET got == Served(Head(run.todo), Window(run.through)) IN
       \E bad \in Broken(Head(run.todo), got) :
          run' = [run EXCEPT !.rows = @ \cup (got \ bad), !.rejected = @ \cup Keys(bad),
                             !.todo = Tail(@)]
    /\ UNCHANGED <<provider, lake, runs>>

\* Variant: a symbol that cannot be fetched is left out.
SkipSymbol == [run EXCEPT !.todo = Tail(@)]

\* TiingoError: the rows of the other symbols are dropped with it.
Discard == Idle

\* Retries are exhausted, the error is permanent, or the payload is malformed.
GiveUp ==
    /\ run.pc = "fetch" /\ run.todo # <<>>
    /\ run' = Discard
    /\ UNCHANGED <<provider, lake, runs>>

-----------------------------------------------------------------------------
(* run_backfill. *)

\* Variant: a row is new unless the lake has exactly this row.
AnyVersion(rows) == {}

\* Rows whose key the lake has with other values: IdempotencyConflictError.
Conflicts(rows) == {row \in rows : Key(row) \in Keys(lake) /\ row \notin lake}

RunId == <<run.through, run.shard>>
FileOf(m) == <<run.through, run.shard, m>>
NewRows == run.rows \ lake

\* Variant: a file of the run is replaced.
Overwritable == FALSE

\* A retry with new rows for a month in which the run has a file: FileExistsError.
Occupied == \E m \in Months(NewRows) : FileOf(m) \in files

\* The quarantine file is opened for a new file, when there is a row to write.
QuarantineFree == run.rejected = {} \/ \A q \in quarantine : q.run # RunId

\* Variant: quarantined rows are only logged.
Unquarantined == {}

Quarantined == {[run |-> RunId, key |-> key] : key \in run.rejected}

\* write_quarantine; then the accepted rows are deduplicated and staged.
Stage ==
    /\ run.pc = "fetch" /\ run.todo = <<>>
    /\ QuarantineFree /\ Conflicts(run.rows) = {} /\ ~Occupied
    /\ quarantine' = quarantine \cup Quarantined
    /\ run' = [run EXCEPT !.pc = "promote", !.rows = NewRows]
    /\ UNCHANGED <<provider, lake, files, manifests, degraded, conflicted>>

\* FileExistsError: an earlier run with this id had rows to quarantine.
RefuseQuarantine ==
    /\ run.pc = "fetch" /\ run.todo = <<>> /\ ~QuarantineFree
    /\ run' = Idle
    /\ UNCHANGED <<provider, lake, runs>>

\* A conflict, or a file of the id; the quarantine file is written by then.
Refuse ==
    /\ run.pc = "fetch" /\ run.todo = <<>> /\ QuarantineFree
    /\ Conflicts(run.rows) # {} \/ Occupied
    /\ quarantine' = quarantine \cup Quarantined
    /\ conflicted' = IF Conflicts(run.rows) = {} THEN conflicted ELSE conflicted \cup {RunId}
    /\ run' = Idle
    /\ UNCHANGED <<provider, lake, files, manifests, degraded>>

\* The months are promoted one by one, in order.
Promote ==
    /\ run.pc = "promote" /\ run.rows # {}
    /\ LET m == Min(Months(run.rows))
           now == {row \in run.rows : MonthOf[row.day] = m}
       IN /\ lake' = lake \cup now
          /\ files' = files \cup {FileOf(m)}
          /\ run' = [run EXCEPT !.rows = @ \ now]
    /\ UNCHANGED <<provider, manifests, degraded, quarantine, conflicted>>

\* It replaces the manifest of an earlier run with the id.
WriteManifest ==
    /\ run.pc = "promote" /\ run.rows = {}
    /\ manifests' = manifests \cup {RunId}
    /\ degraded' = IF run.rejected = {} THEN degraded \ {RunId} ELSE degraded \cup {RunId}
    /\ run' = Idle
    /\ UNCHANGED <<provider, lake, files, quarantine, conflicted>>

Kill ==
    /\ run.pc = "promote"
    /\ run' = Idle
    /\ UNCHANGED <<provider, lake, runs>>

Provider == Tick \/ \E s \in Symbols : Publish(s) \/ \E d \in Days : Correct(s, d)

Update ==
    \/ \E k \in Shards : Start(k)
    \/ Receive \/ GiveUp \/ Stage \/ RefuseQuarantine \/ Refuse \/ Promote \/ WriteManifest \/ Kill

Next == Provider \/ Update

Spec == Init /\ [][Next]_vars

-----------------------------------------------------------------------------
(* Properties. *)

\* Types; and what a run has still to promote never replaces a file of the same id.
TypeOK ==
    /\ today \in Days /\ upto \in [Symbols -> 0 .. LastDay] /\ corrected \subseteq Symbols \X Days
    /\ \A s \in Symbols : upto[s] <= today
    /\ lake \subseteq Rows
    /\ manifests \cup conflicted \subseteq Days \X Shards /\ degraded \subseteq manifests
    /\ quarantine \subseteq [run : Days \X Shards, key : Symbols \X Days]
    /\ run \in [pc : {"idle", "fetch", "promote"}, shard : Shards, through : 0 .. LastDay,
               todo : Seq(Symbols), rows : SUBSET Rows, rejected : SUBSET (Symbols \X Days)]
    /\ run.pc = "promote" => \A m \in Months(run.rows) : FileOf(m) \notin files

\* The rows of a symbol that were certainly there for a run of day d.
Certain(s, d) == {s} \X {e \in Window(d) : e < d - 1}

\* Keys that a run of day d, by its manifest degraded, has in its quarantine file.
SetAside(d) == {q.key : q \in {p \in quarantine : p.run[1] = d /\ p.run \in degraded}}

\* When every shard has a manifest for a day, each row of that day's window but the latest
\* two days' is in the lake, or in the quarantine file of a run whose manifest says that
\* it is degraded, whatever failed, was killed and was repeated on the way: no partial
\* fetch is ever ingested as a whole one.
DayComplete ==
    \A d \in Days : (\A k \in Shards : <<d, k>> \in manifests) =>
        \A s \in Symbols : Certain(s, d) \subseteq Keys(lake) \cup SetAside(d)

\* The lake never has two versions of a row, although the window is read again
\* every day and what it returns changes.
OneVersion == \A row, other \in lake : Key(row) = Key(other) => row = other

\* "a seven-day overlap ..., making weekends, holidays, a sleeping laptop, and recent
\* provider corrections replay-safe" (docs/scheduling.md:65): when a run of each shard
\* has had the provider's rows every day and was not killed, no row leaves the window
\* without having reached the lake.
ReplaySafe == Daily => Symbols \X (1 .. today - Overlap - 1) \subseteq Keys(lake)
=================================================================================
