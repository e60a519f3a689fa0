------------------------------ MODULE DatasetBuilds ------------------------------
(***************************************************************************)
(* Dataset builds and time travel over a lake that keeps changing:           *)
(* create_build_manifest (observability/builds.py) reads the lake file by    *)
(* file, reproduction_plan and create_catalog (warehouse/time_travel.py) find *)
(* the recorded files again.  Meanwhile runs land files and a compaction      *)
(* swaps directories, each in the steps of its code, so that a file may be    *)
(* promoted between the compaction's copy and its swap.                      *)
(***************************************************************************)
EXTENDS Integers, Sequences, FiniteSets, FiniteSetsExt

CONSTANTS
    Months,          \* partitions of one dataset, in the order of their paths
    YearOf,          \* the year directory of a month
    RowsOf,          \* the rows of a month
    RunIds,          \* run ids; part-<run id>.parquet
    CompactionIds,   \* compaction ids in the order of their names; compact-<id>.parquet
    MaxFiles,        \* bound: files that runs promote
    MaxBuilds        \* bound: recorded builds

ASSUME NamesAssumption ==
    /\ Months \subseteq Nat \ {0} /\ CompactionIds \subseteq Nat \ {0}
    /\ RunIds \cap CompactionIds = {} /\ IsFiniteSet(Months) /\ IsFiniteSet(CompactionIds)
ASSUME RowsAssumption ==
    /\ DOMAIN RowsOf = Months
    /\ \A p, q \in Months : p # q => RowsOf[p] \cap RowsOf[q] = {}
ASSUME YearsAssumption == YearOf \in [Months -> Nat]
ASSUME BuildBounds == MaxBuilds \in Nat /\ MaxFiles \in Nat

VARIABLES
    live,      \* final files of a month
    away,      \* months whose directory is renamed away
    landing,   \* per run, the partition it is about to promote
    archive,   \* archive[i]: the month and files that compaction i moved, and what replaced them
    recorded,  \* compactions whose metadata file exists
    locked,    \* months with a compaction lock
    swap,      \* the compaction in progress
    builds,    \* recorded manifests in the order of their mtime: sets of partitions
    builder,   \* create_build_manifest's local variables
    catalog,   \* historical catalogs: the paths behind the views, per build
    plan       \* the reproduction plan of a process that goes on to the catalog

partitions == <<live, away>>
archives == <<archive, recorded, locked, swap>>
lake == <<partitions, landing, archives>>
vars == <<lake, builds, builder, catalog, plan>>

Names == RunIds \cup CompactionIds

\* The version stands for the ingestion times in the file, which tell it from an
\* earlier file of the same name and rows.
File(n, rows, v) == [name |-> n, rows |-> rows, version |-> v]
Named(files, n) == {f \in files : f.name = n}
RowsIn(files) == UNION {f.rows : f \in files}

NoArchive == [month |-> 0, files |-> {}, put |-> {}]
ArchivesOf(p) == {i \in CompactionIds : archive[i].month = p /\ archive[i].files # {}}

\* Every file that ever had a path in month p.
Versions(p) == live[p] \cup UNION {archive[i].files : i \in ArchivesOf(p)}

\* A run id was used again after a compaction had freed its name.
Reused(p, n) == \E f, g \in Named(Versions(p), n) : f # g

\* Rows that a compaction has moved away without having them in its new file.
Hidden(p) == UNION {RowsIn(archive[i].files) \ archive[i].put : i \in ArchivesOf(p)}

\* The files that runs have promoted, here or in an archive.
RunFiles == {f \in UNION {Versions(p) : p \in Months} : f.name \in RunIds}

Partition(p, f) == [month |-> p, file |-> f]

NoLanding == [month |-> 0, rows |-> {}]
NoSwap == [month |-> 0, id |-> 0, rows |-> {}, stage |-> "none"]
NoBuild == [years |-> {}, todo |-> {}, unread |-> {}, parts |-> {}, start |-> {},
            missing |-> {}, hidden |-> {}, on |-> FALSE]
NoPlan == [build |-> {}, paths |-> {}, fresh |-> FALSE]

Init ==
    /\ live = [p \in Months |-> {}] /\ away = {}
    /\ landing = [r \in RunIds |-> NoLanding]
    /\ archive = [i \in CompactionIds |-> NoArchive]
    /\ recorded = {} /\ locked = {} /\ swap = NoSwap
    /\ builds = <<>> /\ builder = NoBuild
    /\ catalog = <<>> /\ plan = NoPlan

-----------------------------------------------------------------------------
(* Runs. *)

\* Files appear under names that a plan in hand may have seen to be free.
Overtaken(p, names) ==
    [plan EXCEPT !.fresh = @ /\ \A item \in plan.build : item.month = p => item.file.name \notin names]

\* _promote_partition makes the directory and sees no lock; the rows are not in the month.
Look(r, p) ==
    /\ landing[r] = NoLanding /\ p \notin locked
    /\ \E x \in RowsOf[p] \ RowsIn(live[p]) :
          landing' = [landing EXCEPT ![r] = [month |-> p, rows |-> {x}]]
    /\ away' = away \ {p}
    /\ UNCHANGED <<live, archives, builds, builder, catalog, plan>>

\* RuntimeError: the month is locked; its directory has been made all the same.
SeeLock(r, p) ==
    /\ landing[r] = NoLanding /\ p \in locked
    /\ away' = away \ {p}
    /\ UNCHANGED <<live, landing, archives, builds, builder, catalog, plan>>

\* The month has no file of the run, and os.replace finds the directory.
Promote(r) ==
    LET p == landing[r].month IN
    /\ p # 0 /\ p \notin away /\ Named(live[p], r) = {} /\ Cardinality(RunFiles) < MaxFiles
    /\ \E v \in 1 .. MaxFiles :
          /\ \A u \in 1 .. v : u < v <=> \E f \in Named(Versions(p), r) : f.version = u
          /\ live' = [live EXCEPT ![p] = @ \cup {File(r, landing[r].rows, v)}]
    /\ landing' = [landing EXCEPT ![r] = NoLanding]
    /\ plan' = Overtaken(p, {r})
    /\ UNCHANGED <<away, archives, builds, builder, catalog>>

\* FileExistsError, FileNotFoundError or a kill.
GiveUp(r) ==
    /\ landing[r] # NoLanding
    /\ landing' = [landing EXCEPT ![r] = NoLanding]
    /\ UNCHANGED <<partitions, archives, builds, builder, catalog, plan>>

-----------------------------------------------------------------------------
(* compact_partition. *)

\* Variant: the lock file is not created.
LockedNow(p) == locked

LockedWith(p) == locked \cup {p}

\* The lock is created and the rows of the month are copied.
Copy(p, i) ==
    /\ swap = NoSwap /\ p \notin locked
    /\ Cardinality(live[p]) >= 2 /\ archive[i] = NoArchive
    /\ locked' = LockedWith(p)
    /\ swap' = [month |-> p, id |-> i, rows |-> RowsIn(live[p]), stage |-> "copied"]
    /\ UNCHANGED <<partitions, landing, archive, recorded, builds, builder, catalog, plan>>

\* An error before the first rename.
Refuse ==
    /\ swap.stage = "copied"
    /\ swap' = NoSwap /\ locked' = locked \ {swap.month}
    /\ UNCHANGED <<partitions, landing, archive, recorded, builds, builder, catalog, plan>>

\* os.replace(partition, archive): whatever the directory holds by now.
MoveToArchive ==
    /\ swap.stage = "copied"
    /\ archive' = [archive EXCEPT ![swap.id] =
                      [month |-> swap.month, files |-> live[swap.month], put |-> {}]]
    /\ live' = [live EXCEPT ![swap.month] = {}]
    /\ away' = away \cup {swap.month}
    /\ swap' = [swap EXCEPT !.stage = "promote"]
    /\ UNCHANGED <<landing, recorded, locked, builds, builder, catalog, plan>>

\* os.replace(staged_partition, partition): to no directory or an empty one.
SwapIn ==
    /\ swap.stage = "promote" /\ live[swap.month] = {}
    /\ live' = [live EXCEPT ![swap.month] = {File(swap.id, swap.rows, 1)}]
    /\ away' = away \ {swap.month}
    /\ archive' = [archive EXCEPT ![swap.id].put = swap.rows]
    /\ swap' = [swap EXCEPT !.stage = "record"]
    /\ UNCHANGED <<landing, recorded, locked, builds, builder, catalog, plan>>

\* It failed, and the originals are renamed back.
PutBack ==
    /\ swap.stage = "promote" /\ live[swap.month] = {}
    /\ live' = [live EXCEPT ![swap.month] = archive[swap.id].files]
    /\ away' = away \ {swap.month}
    /\ archive' = [archive EXCEPT ![swap.id] = NoArchive]
    /\ swap' = NoSwap /\ locked' = locked \ {swap.month}
    /\ plan' = Overtaken(swap.month, Names)
    /\ UNCHANGED <<landing, recorded, builds, builder, catalog>>

\* A run has made the directory again: neither rename succeeds over a file in it, and
\* the outer handler leaves the originals where they are.
Strand ==
    /\ swap.stage = "promote" /\ swap.month \notin away
    /\ swap' = NoSwap /\ locked' = locked \ {swap.month}
    /\ UNCHANGED <<partitions, landing, archive, recorded, builds, builder, catalog, plan>>

\* The metadata file is written, or the write fails; the lock goes either way.
Record ==
    /\ swap.stage = "record"
    /\ recorded' \in {recorded, recorded \cup {swap.id}}
    /\ swap' = NoSwap /\ locked' = locked \ {swap.month}
    /\ UNCHANGED <<partitions, landing, archive, builds, builder, catalog, plan>>

\* SIGKILL: the lock stays, the month may be missing, the archive unrecorded.
KillCompactor ==
    /\ swap # NoSwap
    /\ swap' = NoSwap
    /\ UNCHANGED <<partitions, landing, archive, recorded, locked, builds, builder, catalog, plan>>

-----------------------------------------------------------------------------
(* create_build_manifest. *)

StartBuild ==
    /\ ~builder.on
    /\ builder' = [NoBuild EXCEPT !.on = TRUE, !.years = {YearOf[p] : p \in Months},
                                  !.start = UNION {RowsIn(Versions(p)) : p \in Months}]
    /\ UNCHANGED <<lake, builds, catalog, plan>>

\* The glob scans a year's directory for the months that are there now.
ScanYear ==
    /\ builder.todo = {} /\ builder.years # {}
    /\ LET y == Min(builder.years)
           months == {p \in Months : YearOf[p] = y}
           absent == {p \in months : live[p] = {}}
       IN builder' = [builder EXCEPT !.years = @ \ {y}, !.todo = months \ absent,
                                     !.missing = @ \cup absent]
    /\ UNCHANGED <<lake, builds, catalog, plan>>

\* Then each of these; a directory that has gone in between is passed over (the glob
\* of Python 3.13 suppresses the error).
ScanMonth ==
    /\ builder.todo # {}
    /\ LET p == Min(builder.todo) IN
       builder' = [builder EXCEPT
           !.todo = @ \ {p},
           !.unread = @ \cup {<<p, f.name>> : f \in live[p]},
           !.missing = IF live[p] = {} THEN @ \cup {p} ELSE @,
           !.hidden = @ \cup Hidden(p)]
    /\ UNCHANGED <<lake, builds, catalog, plan>>

Scanned == builder.on /\ builder.years = {} /\ builder.todo = {}

\* Variant: a file that has gone since it was listed is passed over.
ReadOrSkip(f, p, n) == IF f = {} THEN [builder EXCEPT !.unread = @ \ {<<p, n>>}]
                       ELSE [builder EXCEPT !.unread = @ \ {<<p, n>>},
                                            !.parts = @ \cup {Partition(p, CHOOSE g \in f : TRUE)}]

\* Row count and hash of a file; the read raises when the file is gone.
ReadOrRaise(f, p, n) == IF f = {} THEN NoBuild
                        ELSE [builder EXCEPT !.unread = @ \ {<<p, n>>},
                                             !.parts = @ \cup {Partition(p, CHOOSE g \in f : TRUE)}]

\* Month by month; run ids are arbitrary, and so is the order of their names.
ReadFile ==
    /\ Scanned
    /\ \E u \in builder.unread :
          /\ \A v \in builder.unread : u[1] <= v[1]
          /\ builder' = ReadOrRaise(Named(live[u[1]], u[2]), u[1], u[2])
    /\ UNCHANGED <<lake, builds, catalog, plan>>

Complete == Scanned /\ builder.unread = {}

Recorded == {builds[k] : k \in DOMAIN builds}

\* The manifest replaces nothing: an existing one is returned as it is.
WriteManifest ==
    /\ Complete /\ builder.parts # {}
    /\ IF builder.parts \in Recorded THEN UNCHANGED builds
       ELSE Len(builds) < MaxBuilds /\ builds' = Append(builds, builder.parts)
    /\ builder' = NoBuild
    /\ UNCHANGED <<lake, catalog, plan>>

\* Any error or kill before the rename of the manifest.
AbandonBuild ==
    /\ builder.on
    /\ builder' = NoBuild
    /\ UNCHANGED <<lake, builds, catalog, plan>>

-----------------------------------------------------------------------------
(* Time travel. *)

At(path) == LET p == path[1] n == path[2] i == path[3] IN
            IF i = 0 THEN Named(live[p], n) ELSE Named(archive[i].files, n)

\* Variant: the latest compaction of the partition is taken to have the file.
InLatestArchive(p, n) == recorded \cap ArchivesOf(p)

\* Recorded compactions of the partition whose archive holds the file.
Holders(p, n) == {i \in recorded \cap ArchivesOf(p) : Named(archive[i].files, n) # {}}

\* _resolve_artifact: the declared path if it exists, else the archive whose
\* metadata comes last by name, else the declared path.
Resolved(item) ==
    LET p == item.month n == item.file.name IN
    IF Named(live[p], n) # {} \/ Holders(p, n) = {} THEN <<p, n, 0>>
    ELSE <<p, n, Max(Holders(p, n))>>

\* inputs_ready: every artifact is available and its hash valid.
Ready(b) == \A item \in b : At(Resolved(item)) = {item.file}

\* verify_build_manifest reports no error about the files of an unchanged manifest.
Verified(b) == Ready(b)

\* scripts/reproduce.py --catalog: the plan, before create_catalog opens anything.
Plan(b) ==
    /\ plan = NoPlan /\ Ready(b)
    /\ plan' = [build |-> b, paths |-> {Resolved(item) : item \in b}, fresh |-> TRUE]
    /\ UNCHANGED <<lake, builds, builder, catalog>>

\* count(*) over a catalog's view raises when a file is gone.
Readable(paths) == \A path \in paths : At(path) # {}
Shown(paths) == UNION {RowsIn(At(path)) : path \in paths}
RowCount(paths) == MapThenSumSet(LAMBDA path : Cardinality(RowsIn(At(path))), paths)
Expected(b) == MapThenSumSet(LAMBDA item : Cardinality(item.file.rows), b)

\* Variant: an existing catalog is trusted for its build id.
TrustedViews(paths, b) == TRUE

\* The counts of an existing or a new catalog are those of the manifest.
Matching(paths, b) == Readable(paths) /\ RowCount(paths) = Expected(b)

\* The views of the catalog of the plan's build: those it has, or new ones.
Views == IF plan.build \in DOMAIN catalog THEN catalog[plan.build] ELSE plan.paths

\* create_catalog: it reuses the catalog of the build, or creates one, or raises.
CreateCatalog ==
    /\ plan # NoPlan
    /\ catalog' = IF Matching(Views, plan.build)
                  THEN [b \in DOMAIN catalog \cup {plan.build} |->
                           IF b = plan.build THEN Views ELSE catalog[b]]
                  ELSE catalog
    /\ plan' = NoPlan
    /\ UNCHANGED <<lake, builds, builder>>

-----------------------------------------------------------------------------
Run(r) == Promote(r) \/ GiveUp(r) \/ \E p \in Months : Look(r, p) \/ SeeLock(r, p)

Compactor ==
    \/ \E p \in Months, i \in CompactionIds : Copy(p, i)
    \/ Refuse \/ MoveToArchive \/ SwapIn \/ PutBack \/ Strand \/ Record \/ KillCompactor

Builder == StartBuild \/ ScanYear \/ ScanMonth \/ ReadFile \/ WriteManifest \/ AbandonBuild

Reproducer == CreateCatalog \/ \E b \in Recorded : Plan(b)

Next == (\E r \in RunIds : Run(r)) \/ Compactor \/ Builder \/ Reproducer

Spec == Init /\ [][Next]_vars

-----------------------------------------------------------------------------
(* Properties. *)

FileTypeOK(p, f) == f.name \in Names /\ f.rows \subseteq RowsOf[p] /\ f.version \in 1 .. MaxFiles

PartsTypeOK(b) == \A item \in b : item.month \in Months /\ FileTypeOK(item.month, item.file)

TypeOK ==
    /\ \A p \in Months : \A f \in live[p] : FileTypeOK(p, f)
    /\ \A p \in away : live[p] = {} /\ p \in locked
    /\ \A i \in CompactionIds : archive[i].files # {} => archive[i].month \in Months
    /\ recorded \subseteq CompactionIds /\ locked \subseteq Months
    /\ swap # NoSwap => swap.month \in locked /\ swap.id \notin recorded
    /\ \A b \in Recorded : b # {} /\ PartsTypeOK(b)
    /\ PartsTypeOK(builder.parts) /\ builder.todo \subseteq Months
    /\ DOMAIN catalog \subseteq Recorded /\ plan.build \in Recorded \cup {{}}

\* "It resolves originals retained by compaction" (docs/time_travel.md:12): a build
\* whose files' names were not reused is reproducible, after any number of
\* compactions, as soon as the metadata of those that moved its files is written.
BuildsResolvable ==
    \A b \in Recorded :
        (\A item \in b : /\ ~Reused(item.month, item.file.name)
                         /\ \A i \in ArchivesOf(item.month) :
                               Named(archive[i].files, item.file.name) # {} => i \in recorded)
        => Verified(b)

\* A catalog that create_catalog returns, new or reused, shows the rows of its
\* build, unless files appeared under the same names between the plan and the catalog.
CatalogExact ==
    [][CreateCatalog /\ Matching(Views, plan.build) /\ plan.fresh =>
          Shown(Views) = UNION {item.file.rows : item \in plan.build}]_vars

\* A recorded build has every row that had landed when it was started, although runs
\* and compactions go on between its scan and its reads.  What it can miss is named: a
\* month whose directory was renamed away when it was scanned, a row that a compaction
\* had moved away without copying it, and a path that changed its content.
BuildCoversStart ==
    [][WriteManifest =>
          \A p \in Months : \A x \in RowsOf[p] \cap builder.start :
              \/ \E item \in builder.parts : x \in item.file.rows
              \/ p \in builder.missing \/ x \in builder.hidden
              \/ \E item \in builder.parts : item.month = p /\ Reused(p, item.file.name)]_vars
==================================================================================
