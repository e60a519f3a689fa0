----------------------------- MODULE EvidenceProofs -----------------------------
(***************************************************************************)
(* Theorems about Evidence, for any universe, any calendar, any set of run   *)
(* and compaction ids and any number of runs.                               *)
(***************************************************************************)
EXTENDS Evidence, FiniteSetTheorems, WellFoundedInduction, TLAPS

Watermarks == MarketDays \cup {Never}
StatusesNow == Statuses \cup {"none"}
Trees == [Paths -> SUBSET Rows]
FindingRows ==
    [event : Watermarks, metric : {"missing_symbol_fraction", "other"},
     severity : {"DEGRADED", "FAILED"}]
FreshnessRows == [status : StatusesNow, due : Watermarks, at : Nat]
QualityFiles ==
    [status : StatusesNow, event : Watermarks,
     findings : SUBSET [metric : {"missing_symbol_fraction", "other"},
                        severity : {"DEGRADED", "FAILED"}]]
Stores ==
    [runs : [RunIds -> Watermarks \cup {NoManifest}], versions : Trees,
     checks : [Watermarks -> StatusesNow], findings : SUBSET FindingRows,
     freshness : SUBSET FreshnessRows,
     checkpoint : [value : Watermarks, run : RunIds \cup {NoRun}]]
Syncs == [step : 0 .. 4, quiet : BOOLEAN, undone : BOOLEAN]

\* A checkpoint names a run with a manifest.
Known(c) == c = NoCheckpoint \/ c \in [value : Watermarks, run : Finished]

\* Files, archives, and a swap of which the archive has every row that was copied.
LakeShape ==
    /\ files \in Trees /\ archive \in [Compactions -> Trees]
    /\ swap \in [id : Compactions \cup {NoRun}, rows : SUBSET Rows]
    /\ swap # NoSwap => swap.id \in Compactions
    /\ swap.rows \subseteq Archived

ShapeInv ==
    /\ now \in Instants /\ jobs \in Nat
    /\ LakeShape
    /\ manifests \in [RunIds -> Watermarks \cup {NoManifest}]
    /\ newest \in Finished \cup {NoRun}
    /\ Known(checkpoint) /\ Known(pending)
    /\ fresh \in FreshnessRows /\ quality \in QualityFiles
    /\ store \in Stores /\ Known(store.checkpoint)
    /\ sync \in Syncs

\* Rows are of closed market days, and a watermark is the day of a landed row.
LandInv ==
    /\ \A row \in Kept : 2 * row[2] + 1 <= now
    /\ \A r \in RunIds : manifests[r] \in MarketDays => manifests[r] \in DaysOf(Kept)
    /\ FreshMeansLanded

\* What a healthy quality audit says stays true.
CompleteInv ==
    quality.status = "HEALTHY" => 100 * Cardinality(Absent(quality.event)) < Cardinality(Symbols)

\* The overall row, the findings and the freshness check of now are in the index s.
ListsAudits(s) ==
    /\ quality # NoQuality => s.checks[quality.event] = quality.status
    /\ \A f \in quality.findings :
          {row.severity : row \in {x \in s.findings : x.event = quality.event /\ x.metric = f.metric}}
              = {f.severity}
    /\ fresh # NoFreshness => fresh \in s.freshness

\* A finding is made once per metric.
OneFinding ==
    \A f, g \in quality.findings : f.metric = g.metric => f = g

\* A synchronization that nothing disturbed has copied the tables it is done with.
IndexInv ==
    /\ OneFinding
    /\ \A r \in RunIds : store.runs[r] # NoManifest => manifests[r] # NoManifest
    /\ sync.quiet =>
          /\ sync.step > 1 => store.runs = manifests
          /\ sync.step > 2 => \A p \in Paths : files[p] # {} => store.versions[p] = files[p]
          /\ sync.step > 3 => ListsAudits(store)

Filed(rows) == \A r \in RunIds : store.runs[r] \in MarketDays => store.runs[r] \in DaysOf(rows)

\* The data of indexed runs has landed, and is indexed from the second table on.
FiledInv ==
    /\ Filed(Kept)
    /\ sync.step > 2 /\ ~sync.undone => Filed(IndexedRows \cup Archived)

EvidenceInv == ShapeInv /\ LandInv /\ CompleteInv /\ IndexInv /\ FiledInv

-----------------------------------------------------------------------------
(* Greatest and least days. *)

\* A set of numbers up to a bound has a greatest one.
LEMMA Greatest ==
  ASSUME NEW N \in Nat, NEW S \in SUBSET (0 .. N), S # {}
  PROVE  \E m \in S : \A p \in S : p <= m
<1> DEFINE From(o) == {p \in S : p >= o}
           T == {From(o) : o \in S}
<1>1. IsFiniteSet(S)
  <2>1. IsFiniteSet(0 .. N)
    BY FS_Interval
  <2> QED
    BY <2>1, FS_Subset
<1>2. T \subseteq FiniteSubsetsOf(S) /\ T # {}
  <2>1. T \subseteq SUBSET S /\ T # {}
    OBVIOUS
  <2> QED
    BY <1>1, <2>1, FS_FiniteSubsetsOfFinite
<1>3. IsWellFoundedOn(StrictSubsetOrdering(S), FiniteSubsetsOf(S))
  BY FS_StrictSubsetOrderingWellFounded
<1> HIDE DEF T
<1>4. PICK least \in T : \A other \in T : <<other, least>> \notin StrictSubsetOrdering(S)
  BY <1>2, <1>3, WFMin
<1>5. PICK m \in S : least = From(m)
  BY <1>4 DEF T
<1>6. ASSUME NEW p \in S, p > m PROVE FALSE
  <2>1. From(p) \subseteq From(m) /\ m \in From(m) /\ m \notin From(p)
    <3>1. p \in Nat /\ m \in Nat /\ \A o \in S : o \in Nat
      OBVIOUS
    <3>2. m >= m /\ ~(m >= p) /\ \A o \in S : o >= p => o >= m
      BY <1>6, <3>1
    <3> QED
      BY <3>2
  <2>2. <<From(p), From(m)>> \in StrictSubsetOrdering(S) /\ From(p) \in T
    BY <2>1 DEF StrictSubsetOrdering, T
  <2> QED
    BY <1>4, <1>5, <2>2
<1> QED
  BY <1>6

LEMMA MaxMin ==
  ASSUME NEW N \in Nat, NEW S \in SUBSET (0 .. N), S # {}
  PROVE  /\ Max(S) \in S /\ \A p \in S : p <= Max(S)
         /\ Min(S) \in S /\ \A p \in S : Min(S) <= p
<1>1. Max(S) \in S /\ \A p \in S : p <= Max(S)
  <2>1. \E m \in S : \A p \in S : m >= p
    BY Greatest
  <2> QED
    BY <2>1 DEF Max
<1>2. \E m \in S : \A p \in S : m =< p
  <2> DEFINE Mirror == {N - p : p \in S}
  <2>1. Mirror \in SUBSET (0 .. N) /\ Mirror # {}
    <3>1. \A p \in S : N - p \in 0 .. N
      OBVIOUS
    <3> QED
      BY <3>1
  <2>2. PICK q \in Mirror : \A o \in Mirror : o <= q
    BY <2>1, Greatest
  <2>3. PICK m \in S : q = N - m
    BY <2>2
  <2>4. \A p \in S : N - p <= N - m
    BY <2>2, <2>3
  <2> QED
    BY <2>4
<1> QED
  BY <1>1, <1>2 DEF Min

LEMMA MaxOfTwo ==
  ASSUME NEW a \in Int, NEW b \in Int
  PROVE  Max({a, b}) \in {a, b} /\ a <= Max({a, b}) /\ b <= Max({a, b})
<1>1. \E m \in {a, b} : \A p \in {a, b} : m >= p
  OBVIOUS
<1> QED
  BY <1>1 DEF Max

LEMMA Calendar ==
  /\ MarketDays \subseteq 0 .. LastDay /\ 0 \in MarketDays /\ LastDay \in Nat
  /\ Never \notin MarketDays /\ NoManifest \notin Watermarks
  /\ Instants \subseteq 0 .. 2 * LastDay + 1 /\ 2 * LastDay + 1 \in Nat
  /\ 1 \in Instants /\ \A t \in Instants : t \in Nat /\ t >= 1
  BY CalendarAssumption DEF MarketDays, Days, Never, NoManifest, Watermarks

\* The watermark of a set of rows is the day of one of them.
LEMMA LatestDay ==
  ASSUME NEW rows \in SUBSET Rows
  PROVE  /\ DaysOf(rows) \subseteq MarketDays
         /\ rows = {} => Latest(rows) = Never
         /\ rows # {} => Latest(rows) \in DaysOf(rows) /\ Latest(rows) \in MarketDays
         /\ Latest(rows) \in Watermarks
<1>1. DaysOf(rows) \subseteq MarketDays
  BY DEF DaysOf, Rows
<1>2. ASSUME rows # {} PROVE Latest(rows) \in DaysOf(rows)
  <2>1. DaysOf(rows) # {} /\ DaysOf(rows) \in SUBSET (0 .. LastDay)
    BY <1>1, <1>2, Calendar DEF DaysOf
  <2>2. Max(DaysOf(rows)) \in DaysOf(rows)
    BY <2>1, Calendar, MaxMin
  <2> QED
    BY <1>2, <2>2 DEF Latest
<1> QED
  BY <1>1, <1>2 DEF Latest, Watermarks

LEMMA LakeRows ==
  /\ \A x : x \in Lake <=> \E p \in Paths : x \in files[p]
  /\ \A x : x \in Archived <=> \E c \in Compactions : \E p \in Paths : x \in archive[c][p]
  /\ ShapeInv => Lake \in SUBSET Rows /\ Archived \in SUBSET Rows /\ Kept \in SUBSET Rows
<1>1. \A x : x \in Lake <=> \E p \in Paths : x \in files[p]
  BY DEF Lake
<1>2. \A x : x \in Archived <=> \E c \in Compactions : \E p \in Paths : x \in archive[c][p]
  BY DEF Archived
<1>3. ASSUME ShapeInv PROVE Lake \in SUBSET Rows /\ Archived \in SUBSET Rows
  <2>1. /\ \A p \in Paths : files[p] \subseteq Rows
        /\ \A c \in Compactions : \A p \in Paths : archive[c][p] \subseteq Rows
    BY <1>3 DEF ShapeInv, LakeShape, Trees
  <2> QED
    BY <1>1, <1>2, <2>1
<1> QED
  BY <1>1, <1>2, <1>3 DEF Kept

LEMMA LakeRowsLater ==
  /\ \A x : x \in Lake' <=> \E p \in Paths : x \in files'[p]
  /\ \A x : x \in Archived' <=> \E c \in Compactions : \E p \in Paths : x \in archive'[c][p]
<1>1. \A x : x \in Lake' <=> \E p \in Paths : x \in files'[p]
  BY DEF Lake
<1> QED
  BY <1>1 DEF Archived

-----------------------------------------------------------------------------
(* Runs: what they land, and the manifest and the checkpoint they leave. *)

\* A run lands rows of days that have closed, and its manifest, if it gets that far,
\* has the watermark of those rows.
LEMMA LoadStep ==
  ASSUME ShapeInv, NEW r \in RunIds, Backfill(r) \/ Kill(r) \/ Incremental(r)
  PROVE  /\ \E rows \in SUBSET Rows :
               /\ \A row \in rows : 2 * row[2] + 1 <= now
               /\ Landed(r, rows)
               /\ \/ UNCHANGED <<manifests, newest, pending>>
                  \/ /\ WriteManifest(r, rows)
                     /\ \/ pending' = pending
                        \/ rows # {} /\ pending' = [value |-> Latest(rows), run |-> r]
         /\ UNCHANGED <<now, archive, swap, checkpoint, audits, jobs, store>> /\ Disturb
<1>1. \A batch \in Batches :
         batch \in SUBSET Rows /\ \A row \in batch : 2 * row[2] + 1 <= now
  BY DEF Batches, Rows
<1>2. CASE Backfill(r)
  BY <1>1, <1>2 DEF Backfill, Landed
<1>3. CASE Kill(r)
  BY <1>1, <1>3 DEF Kill, Landed
<1>4. CASE Incremental(r)
  <2>1. PICK batch \in Batches :
          LET selected == {row \in batch : row[2] > checkpoint.value} IN
          /\ Landed(r, selected) /\ WriteManifest(r, selected)
          /\ pending' = IF selected = {} THEN NoCheckpoint
                        ELSE [value |-> Latest(selected), run |-> r]
    BY <1>4 DEF Incremental
  <2>2. PICK rows : rows = {row \in batch : row[2] > checkpoint.value}
    OBVIOUS
  <2>3. /\ Landed(r, rows) /\ WriteManifest(r, rows)
        /\ pending' = IF rows = {} THEN NoCheckpoint ELSE [value |-> Latest(rows), run |-> r]
        /\ rows \subseteq batch
    BY <2>1, <2>2
  <2>4. rows \in SUBSET Rows /\ \A row \in rows : 2 * row[2] + 1 <= now
    BY <1>1, <2>3
  <2>5. pending' = pending \/ (rows # {} /\ pending' = [value |-> Latest(rows), run |-> r])
    BY <1>4, <2>3 DEF Incremental
  <2>6. UNCHANGED <<now, archive, swap, checkpoint, audits, jobs, store>> /\ Disturb
    BY <1>4, <2>3 DEF Incremental, Landed
  <2> QED
    BY <2>3, <2>4, <2>5, <2>6
<1> QED
  BY <1>2, <1>3, <1>4

LEMMA Landing ==
  ASSUME ShapeInv, NEW r \in RunIds, NEW rows \in SUBSET Rows, Landed(r, rows)
  PROVE  /\ files' \in Trees /\ Archived' = Archived
         /\ rows \subseteq Kept' /\ Kept \subseteq Kept' /\ Kept' \subseteq Kept \cup rows
<1>1. /\ files \in [Paths -> SUBSET Rows] /\ r \in Paths
      /\ files' = [files EXCEPT ![r] = @ \cup (rows \ Lake)]
  BY DEF ShapeInv, LakeShape, Trees, Landed, Paths
<1>2. files' \in Trees
  BY <1>1 DEF Trees
<1>3. \A q \in Paths : files'[q] = IF q = r THEN files[r] \cup (rows \ Lake) ELSE files[q]
  BY <1>1
<1>4. \A x : x \in Lake' <=> x \in Lake \/ x \in rows
  BY <1>1, <1>3, LakeRows, LakeRowsLater
<1>5. Archived' = Archived
  BY DEF Landed, Archived
<1>6. \A x : x \in Kept' <=> x \in Lake' \/ x \in Archived'
  BY DEF Kept
<1>7. \A x : x \in Kept <=> x \in Lake \/ x \in Archived
  BY DEF Kept
<1> QED
  BY <1>2, <1>4, <1>5, <1>6, <1>7

\* Manifests are only added, and a checkpoint names a run that has one.
LEMMA LoadRecords ==
  ASSUME ShapeInv, NEW r \in RunIds, Backfill(r) \/ Kill(r) \/ Incremental(r)
  PROVE  /\ files' \in Trees /\ Archived' = Archived /\ Kept \subseteq Kept'
         /\ manifests' \in [RunIds -> Watermarks \cup {NoManifest}]
         /\ Finished \subseteq Finished' /\ newest' \in Finished' \cup {NoRun}
         /\ Known(pending)'
         /\ \A row \in Kept' : row \in Kept \/ 2 * row[2] + 1 <= now
         /\ \A q \in RunIds : manifests'[q] \in MarketDays =>
               manifests'[q] = manifests[q] \/ manifests'[q] \in DaysOf(Kept')
<1>1. PICK rows \in SUBSET Rows :
        /\ \A row \in rows : 2 * row[2] + 1 <= now
        /\ Landed(r, rows)
        /\ \/ UNCHANGED <<manifests, newest, pending>>
           \/ /\ WriteManifest(r, rows)
              /\ \/ pending' = pending
                 \/ rows # {} /\ pending' = [value |-> Latest(rows), run |-> r]
  BY LoadStep
<1>2. /\ files' \in Trees /\ Archived' = Archived
      /\ rows \subseteq Kept' /\ Kept \subseteq Kept' /\ Kept' \subseteq Kept \cup rows
  BY <1>1, Landing
<1>3. \A row \in Kept' : row \in Kept \/ 2 * row[2] + 1 <= now
  BY <1>1, <1>2
<1>4. /\ manifests \in [RunIds -> Watermarks \cup {NoManifest}]
      /\ newest \in Finished \cup {NoRun} /\ Known(pending)
  BY DEF ShapeInv
<1>5. CASE UNCHANGED <<manifests, newest, pending>>
  <2>1. Finished' = Finished
    BY <1>5 DEF Finished
  <2> QED
    BY <1>2, <1>3, <1>4, <1>5, <2>1 DEF Known
<1>6. CASE /\ WriteManifest(r, rows)
           /\ \/ pending' = pending
              \/ rows # {} /\ pending' = [value |-> Latest(rows), run |-> r]
  <2>1. /\ Latest(rows) \in Watermarks
        /\ rows # {} => Latest(rows) \in DaysOf(rows)
        /\ rows = {} => Latest(rows) = Never
    BY LatestDay
  <2>2. /\ manifests' = [manifests EXCEPT ![r] = Latest(rows)] /\ newest' = r
    BY <1>6 DEF WriteManifest
  <2>3. /\ manifests' \in [RunIds -> Watermarks \cup {NoManifest}]
        /\ \A q \in RunIds : manifests'[q] = IF q = r THEN Latest(rows) ELSE manifests[q]
    BY <1>4, <2>1, <2>2
  <2>4. Finished \subseteq Finished' /\ r \in Finished'
    BY <2>1, <2>3, Calendar DEF Finished
  <2>5. Known(pending)'
    <3>1. CASE pending' = pending
      BY <1>4, <2>4, <3>1 DEF Known
    <3>2. CASE pending' = [value |-> Latest(rows), run |-> r]
      BY <2>1, <2>4, <3>2 DEF Known
    <3> QED
      BY <1>6, <3>1, <3>2
  <2>6. \A d \in DaysOf(rows) : d \in DaysOf(Kept')
    BY <1>2 DEF DaysOf
  <2>7. ASSUME NEW q \in RunIds, manifests'[q] \in MarketDays
        PROVE  manifests'[q] = manifests[q] \/ manifests'[q] \in DaysOf(Kept')
    BY <2>1, <2>3, <2>6, <2>7, Calendar
  <2> QED
    BY <1>2, <1>3, <2>2, <2>3, <2>4, <2>5, <2>7
<1> QED
  BY <1>1, <1>5, <1>6

-----------------------------------------------------------------------------
(* The market calendar. *)

Closed(t) == {d \in MarketDays : 2 * d + 1 <= t}

LEMMA ClosedDays ==
  ASSUME NEW t \in Instants
  PROVE  /\ LastClosed(t) \in Closed(t) /\ LastClosed(t) \in MarketDays
         /\ \A d \in Closed(t) : d <= LastClosed(t)
<1>1. Closed(t) \in SUBSET (0 .. LastDay) /\ Closed(t) # {}
  <2>1. 0 \in MarketDays /\ 2 * 0 + 1 <= t
    BY Calendar
  <2>2. 0 \in Closed(t)
    BY <2>1 DEF Closed
  <2> QED
    BY <2>2, Calendar DEF Closed
<1>2. Max(Closed(t)) \in Closed(t) /\ \A d \in Closed(t) : d <= Max(Closed(t))
  BY <1>1, Calendar, MaxMin
<1> QED
  BY <1>2 DEF LastClosed, Closed

LEMMA ClockAdvances ==
  ASSUME now \in Instants, Tick
  PROVE  now' \in Instants /\ now' >= now
<1> DEFINE Later == {t \in Instants : t > now}
<1>1. Instants \in SUBSET (0 .. 2 * LastDay + 1) /\ 2 * LastDay + 1 \in Nat /\ Instants # {}
  BY Calendar
<1>2. Max(Instants) \in Instants /\ now < Max(Instants)
  BY <1>1, MaxMin DEF Tick
<1>3. Later \in SUBSET (0 .. 2 * LastDay + 1) /\ Later # {}
  BY <1>1, <1>2
<1>4. Min(Later) \in Later
  BY <1>1, <1>3, MaxMin
<1>5. now' \in Instants /\ now' > now
  BY <1>4 DEF Tick
<1> QED
  BY <1>5, Calendar

\* On weekends and until the close, the market day expected is the last that closed.
LEMMA ExpectedIsLastClosed == ASSUME NEW t \in Instants PROVE ExpectedClose(t) = LastClosed(t)
<1>1. t \in Nat /\ MarketDays \subseteq Nat
  BY Calendar
<1>2. PICK b : b = IF Day(t) \in Weekend \/ t % 2 = 0 THEN Day(t) - 1 ELSE Day(t)
  OBVIOUS
<1>3. PICK day, half : day = t \div 2 /\ half = t % 2
  OBVIOUS
<1>4. day \in Nat /\ half \in {0, 1} /\ t = 2 * day + half
  BY <1>1, <1>3
<1>5. b = IF day \in Weekend \/ half = 0 THEN day - 1 ELSE day
  BY <1>2, <1>3 DEF Day
<1>6. ASSUME NEW d \in MarketDays PROVE d <= b <=> 2 * d + 1 <= t
  <2>1. d \in Nat /\ d \notin Weekend
    BY <1>1 DEF MarketDays
  <2> QED
    BY <1>4, <1>5, <2>1
<1>7. {e \in MarketDays : e <= b} = {d \in MarketDays : 2 * d + 1 <= t}
  BY <1>6
<1>8. PreviousWeekday(b) = LastClosed(t)
  BY <1>7 DEF PreviousWeekday, LastClosed
<1> QED
  BY <1>2, <1>8 DEF ExpectedClose

\* Prices as of a closed day are fresh only if that day is the last that closed.
LEMMA FreshDay ==
  ASSUME NEW t \in Instants, NEW event \in Closed(t), Freshness(event, t) = "HEALTHY"
  PROVE  event = LastClosed(t)
<1>1. PICK last : last = LastClosed(t)
  OBVIOUS
<1>2. /\ last \in Nat /\ event \in Nat /\ event <= last /\ event # Never
      /\ last = ExpectedClose(t)
  <2>1. event \in MarketDays /\ last \in MarketDays /\ event <= last
    BY <1>1, ClosedDays DEF Closed
  <2>2. event \in Nat /\ last \in Nat /\ event # Never
    BY <2>1, Calendar
  <2> QED
    BY <1>1, <2>1, <2>2, ExpectedIsLastClosed
<1>3. 0 \in Int /\ last - event \in Int
  BY <1>2
<1>4. PICK age : age = Max({0, last - event})
  OBVIOUS
<1>5. age \in Int /\ last - event <= age
  BY <1>3, <1>4, MaxOfTwo
<1>6. ~(age >= 1)
  BY <1>1, <1>2, <1>4, <1>5 DEF Freshness
<1> QED
  BY <1>1, <1>2, <1>5, <1>6

-----------------------------------------------------------------------------
(* Compactions move rows, they do not remove them. *)

LEMMA MoveStep ==
  ASSUME ShapeInv, NEW c \in Compactions, MoveToArchive(c)
  PROVE  LakeShape' /\ Kept' = Kept /\ Archived \subseteq Archived'
<1>1. /\ files \in Trees /\ archive \in [Compactions -> Trees] /\ archive[c] = NoFiles
  BY DEF ShapeInv, LakeShape, MoveToArchive
<1>2. PICK copied \in SUBSET {p \in Paths : files[p] # {}} :
         swap' = [id |-> c, rows |-> UNION {files[p] : p \in copied}]
  BY DEF MoveToArchive
<1>3. archive' = [archive EXCEPT ![c] = files] /\ files' = NoFiles
  BY DEF MoveToArchive
<1>4. NoFiles \in Trees /\ \A p \in Paths : NoFiles[p] = {}
  BY DEF NoFiles, Trees
<1>5. /\ archive' \in [Compactions -> Trees] /\ files' \in Trees
      /\ \A p \in Paths : files'[p] = {} /\ archive[c][p] = {}
      /\ \A d \in Compactions : archive'[d] = IF d = c THEN files ELSE archive[d]
  BY <1>1, <1>3, <1>4
<1>6. \A x : x \in Archived' <=> x \in Archived \/ x \in Lake
  BY <1>5, LakeRows, LakeRowsLater
<1>7. \A x : x \notin Lake'
  BY <1>5, LakeRowsLater
<1>8. Kept' = Kept
  <2>1. \A x : x \in Kept' <=> x \in Lake' \/ x \in Archived'
    BY DEF Kept
  <2>2. \A x : x \in Kept <=> x \in Lake \/ x \in Archived
    BY DEF Kept
  <2> QED
    BY <1>6, <1>7, <2>1, <2>2
<1>9. PICK rows : rows = UNION {files[p] : p \in copied}
  OBVIOUS
<1>10. rows \subseteq Lake /\ rows \subseteq Rows
  <2>1. \A x \in rows : \E p \in Paths : x \in files[p]
    BY <1>9
  <2> QED
    BY <2>1, LakeRows
<1>11. /\ swap' \in [id : Compactions \cup {NoRun}, rows : SUBSET Rows]
       /\ swap'.id \in Compactions /\ swap'.rows \subseteq Archived'
  BY <1>2, <1>6, <1>9, <1>10
<1> QED
  BY <1>5, <1>6, <1>8, <1>11 DEF LakeShape

LEMMA NoSwapShape ==
  NoSwap \in [id : Compactions \cup {NoRun}, rows : SUBSET Rows] /\ NoSwap.rows = {}
  BY DEF NoSwap

LEMMA SwapInStep ==
  ASSUME ShapeInv, SwapIn
  PROVE  LakeShape' /\ Kept' = Kept /\ Archived' = Archived
<1>1. /\ files \in Trees /\ swap.id \in Compactions /\ swap.rows \subseteq Archived
      /\ swap.rows \subseteq Rows /\ swap.id \in Paths /\ Lake = {}
  BY DEF ShapeInv, LakeShape, SwapIn, Paths
<1>2. files' = [files EXCEPT ![swap.id] = swap.rows] /\ swap' = NoSwap /\ archive' = archive
  BY DEF SwapIn
<1>3. /\ files' \in Trees
      /\ \A p \in Paths : files'[p] = IF p = swap.id THEN swap.rows ELSE files[p]
  BY <1>1, <1>2 DEF Trees
<1>4. Archived' = Archived
  BY <1>2 DEF Archived
<1>5. \A x : x \in Lake' <=> x \in swap.rows
  BY <1>1, <1>3, LakeRows, LakeRowsLater
<1>6. Kept' = Kept
  <2>1. \A x : x \in Kept' <=> x \in Lake' \/ x \in Archived'
    BY DEF Kept
  <2>2. \A x : x \in Kept <=> x \in Lake \/ x \in Archived
    BY DEF Kept
  <2> QED
    BY <1>1, <1>4, <1>5, <2>1, <2>2
<1>7. archive' \in [Compactions -> Trees]
  BY <1>2 DEF ShapeInv, LakeShape
<1> QED
  BY <1>2, <1>3, <1>4, <1>6, <1>7, NoSwapShape DEF LakeShape

LEMMA PutBackStep ==
  ASSUME ShapeInv, PutBack
  PROVE  LakeShape' /\ Kept' = Kept
<1>1. /\ files \in Trees /\ archive \in [Compactions -> Trees] /\ swap.id \in Compactions
      /\ Lake = {}
  BY DEF ShapeInv, LakeShape, PutBack
<1>2. /\ files' = archive[swap.id] /\ archive' = [archive EXCEPT ![swap.id] = NoFiles]
      /\ swap' = NoSwap
  BY DEF PutBack
<1>3. NoFiles \in Trees /\ \A p \in Paths : NoFiles[p] = {}
  BY DEF NoFiles, Trees
<1>4. /\ files' \in Trees /\ archive' \in [Compactions -> Trees]
      /\ \A d \in Compactions : archive'[d] = IF d = swap.id THEN NoFiles ELSE archive[d]
  BY <1>1, <1>2, <1>3
<1>5. \A x : x \in Lake' \/ x \in Archived' <=> x \in Archived
  BY <1>1, <1>2, <1>3, <1>4, LakeRows, LakeRowsLater
<1>6. Kept' = Kept
  <2>1. \A x : x \in Kept' <=> x \in Lake' \/ x \in Archived'
    BY DEF Kept
  <2>2. \A x : x \in Kept <=> x \in Lake \/ x \in Archived
    BY DEF Kept
  <2> QED
    BY <1>1, <1>5, <2>1, <2>2
<1> QED
  BY <1>2, <1>4, <1>6, NoSwapShape DEF LakeShape

\* A step that leaves the files, the archives and their swap alone.
LEMMA LakeSame ==
  ASSUME UNCHANGED lake
  PROVE  Lake' = Lake /\ Archived' = Archived /\ Kept' = Kept /\ (LakeShape => LakeShape')
<1>1. Lake' = Lake /\ Archived' = Archived
  BY DEF lake, Lake, Archived
<1> QED
  BY <1>1 DEF lake, Kept, LakeShape

\* What has landed stays, in the lake or in an archive, and what lands is of closed days.
LEMMA LakeStep ==
  ASSUME ShapeInv, [Next]_vars
  PROVE  /\ LakeShape' /\ Kept \subseteq Kept'
         /\ \A row \in Kept' : row \in Kept \/ 2 * row[2] + 1 <= now
         /\ Archived \subseteq Archived' \/ sync'.undone \/ sync'.step = 0
<1>1. ASSUME NEW r \in RunIds, Backfill(r) \/ Kill(r) \/ Incremental(r)
      PROVE  /\ LakeShape' /\ Kept \subseteq Kept' /\ Archived' = Archived
             /\ \A row \in Kept' : row \in Kept \/ 2 * row[2] + 1 <= now
  <2>1. UNCHANGED <<archive, swap>>
    BY <1>1, LoadStep
  <2>2. /\ files' \in Trees /\ Archived' = Archived /\ Kept \subseteq Kept'
        /\ \A row \in Kept' : row \in Kept \/ 2 * row[2] + 1 <= now
    BY <1>1, LoadRecords
  <2> QED
    BY <2>1, <2>2 DEF ShapeInv, LakeShape
<1>2. CASE \E c \in Compactions : MoveToArchive(c)
  BY <1>2, MoveStep
<1>3. CASE SwapIn
  BY <1>3, SwapInStep
<1>4. CASE PutBack
  <2>1. sync' = [sync EXCEPT !.quiet = FALSE, !.undone = sync.step # 0] /\ sync \in Syncs
    BY <1>4 DEF PutBack, ShapeInv
  <2>2. sync'.undone <=> sync.step # 0
    BY <2>1 DEF Syncs
  <2>3. sync'.step = sync.step
    BY <2>1 DEF Syncs
  <2> QED
    BY <1>4, <2>2, <2>3, PutBackStep
<1>5. CASE Strand
  <2>1. Lake' = Lake /\ Archived' = Archived /\ Kept' = Kept
    BY <1>5 DEF Strand, Lake, Archived, Kept
  <2>2. files' = files /\ archive' = archive /\ swap' = NoSwap
    BY <1>5 DEF Strand
  <2> QED
    BY <2>1, <2>2, NoSwapShape DEF ShapeInv, LakeShape
<1>6. CASE Tick \/ Advance \/ CheckFreshness \/ CheckQuality \/ Begin \/ SyncRuns \/ SyncVersions
           \/ SyncQuality \/ SyncCheckpoints \/ Die \/ UNCHANGED vars
  <2>1. UNCHANGED lake
    BY <1>6 DEF Tick, Advance, CheckFreshness, CheckQuality, Begin, SyncRuns, SyncVersions,
                SyncQuality, SyncCheckpoints, Die, vars
  <2> QED
    BY <2>1, LakeSame DEF ShapeInv
<1> QED
  BY <1>1, <1>2, <1>3, <1>4, <1>5, <1>6 DEF Next

-----------------------------------------------------------------------------
(* Types. *)

LEMMA Steps ==
  ASSUME sync \in Syncs
  PROVE  /\ Len(Order) = 4
         /\ Syncing("runs") => sync.step = 1
         /\ Syncing("versions") => sync.step = 2
         /\ Syncing("quality") => sync.step = 3
         /\ Syncing("checkpoints") => sync.step = 4
<1>1. /\ Len(Order) = 4 /\ Order[1] = "runs" /\ Order[2] = "versions"
      /\ Order[3] = "quality" /\ Order[4] = "checkpoints"
  BY DEF Order
<1>2. sync.step = 0 \/ sync.step = 1 \/ sync.step = 2 \/ sync.step = 3 \/ sync.step = 4
  BY DEF Syncs
<1> QED
  BY <1>1, <1>2 DEF Syncing

\* The synchronization goes on to the next table; a disturbance leaves it where it is.
LEMMA NextStep ==
  ASSUME sync \in Syncs
  PROVE  /\ NoSync \in Syncs /\ NoSync.step = 0
         /\ Disturb => sync' \in Syncs /\ ~sync'.quiet /\ sync'.step = sync.step
                       /\ sync'.undone = sync.undone
         /\ StepDone => /\ sync' \in Syncs
                        /\ sync.step = 4 => sync'.step = 0
                        /\ sync.step # 4 => /\ sync'.step = sync.step + 1
                                            /\ sync'.quiet = sync.quiet
                                            /\ sync'.undone = sync.undone
<1>1. NoSync \in Syncs /\ NoSync.step = 0
  BY DEF NoSync, Syncs
<1>2. ASSUME Disturb
      PROVE  sync' \in Syncs /\ ~sync'.quiet /\ sync'.step = sync.step /\ sync'.undone = sync.undone
  BY <1>2 DEF Disturb, Syncs
<1>3. ASSUME StepDone
      PROVE  /\ sync' \in Syncs
             /\ sync.step = 4 => sync'.step = 0
             /\ sync.step # 4 => /\ sync'.step = sync.step + 1
                                 /\ sync'.quiet = sync.quiet
                                 /\ sync'.undone = sync.undone
  <2>1. CASE sync.step = 4
    BY <1>1, <1>3, <2>1, Steps DEF StepDone
  <2>2. CASE sync.step # 4
    <3>1. sync' = [sync EXCEPT !.step = @ + 1]
      BY <1>3, <2>2, Steps DEF StepDone
    <3>2. sync.step \in 0 .. 3
      BY <2>2 DEF Syncs
    <3>3. sync.step + 1 \in 0 .. 4
      BY <3>2
    <3> QED
      BY <2>2, <3>1, <3>3 DEF Syncs
  <2> QED
    BY <2>1, <2>2
<1> QED
  BY <1>1, <1>2, <1>3

\* What the two audits write.
LEMMA FreshnessFile ==
  ASSUME ShapeInv, CheckFreshness
  PROVE  /\ fresh' \in FreshnessRows /\ jobs' \in Nat
<1>1. now \in Instants /\ jobs \in Nat /\ jobs' = jobs + 1
  BY DEF ShapeInv, CheckFreshness, JobStarts
<1>2. \E event : fresh' = [status |-> Freshness(event, now), due |-> LastClosed(now), at |-> jobs']
  BY DEF CheckFreshness
<1>3. \A event : Freshness(event, now) \in StatusesNow
  BY DEF Freshness, StatusesNow, Statuses
<1>4. LastClosed(now) \in Watermarks
  BY <1>1, ClosedDays DEF Watermarks
<1> QED
  BY <1>1, <1>2, <1>3, <1>4 DEF FreshnessRows

LEMMA FindingsMade ==
  ASSUME NEW d, NEW other \in {"HEALTHY", "DEGRADED", "FAILED"}
  PROVE  /\ Findings(d, other) \in SUBSET [metric : {"missing_symbol_fraction", "other"},
                                           severity : {"DEGRADED", "FAILED"}]
         /\ \A f, g \in Findings(d, other) : f.metric = g.metric => f = g
         /\ Missing(d) # "HEALTHY" =>
               [metric |-> "missing_symbol_fraction", severity |-> Missing(d)] \in Findings(d, other)
<1>1. Missing(d) \in {"FAILED", "DEGRADED", "HEALTHY"}
  BY DEF Missing
<1>2. PICK m : m = Missing(d)
  OBVIOUS
<1>3. Findings(d, other) =
         {f \in {[metric |-> "missing_symbol_fraction", severity |-> m],
                 [metric |-> "other", severity |-> other]} : f.severity # "HEALTHY"}
  BY <1>2 DEF Findings
<1>4. \A f \in Findings(d, other) :
         /\ f.severity # "HEALTHY"
         /\ \/ f = [metric |-> "missing_symbol_fraction", severity |-> m]
            \/ f = [metric |-> "other", severity |-> other]
  BY <1>3
<1>5. \A f \in Findings(d, other) :
         f \in [metric : {"missing_symbol_fraction", "other"}, severity : {"DEGRADED", "FAILED"}]
  BY <1>1, <1>2, <1>4
<1>6. \A f, g \in Findings(d, other) : f.metric = g.metric => f = g
  BY <1>4
<1> QED
  BY <1>2, <1>3, <1>5, <1>6

LEMMA QualityFile ==
  ASSUME ShapeInv, CheckQuality
  PROVE  quality' \in QualityFiles /\ jobs' \in Nat /\ OneFinding'
<1>1. jobs \in Nat /\ jobs' = jobs + 1
  BY DEF ShapeInv, CheckQuality, JobStarts
<1>2. Latest(Lake) \in Watermarks
  BY LakeRows, LatestDay
<1>3. CASE quality' = [status |-> "UNKNOWN", event |-> Never, findings |-> {}]
  BY <1>1, <1>3 DEF QualityFiles, OneFinding, StatusesNow, Statuses, Watermarks
<1>4. CASE \E other \in Outcomes :
             quality' = [status |-> Judged(Findings(Latest(Lake), other)), event |-> Latest(Lake),
                         findings |-> Findings(Latest(Lake), other)]
  <2>1. PICK other \in {"HEALTHY", "DEGRADED", "FAILED"} :
             quality' = [status |-> Judged(Findings(Latest(Lake), other)), event |-> Latest(Lake),
                         findings |-> Findings(Latest(Lake), other)]
    BY <1>4, EvidenceBounds
  <2>2. \A findings : Judged(findings) \in StatusesNow
    BY DEF Judged, StatusesNow, Statuses
  <2>3. PICK made : made = Findings(Latest(Lake), other)
    OBVIOUS
  <2>4. /\ made \in SUBSET [metric : {"missing_symbol_fraction", "other"},
                            severity : {"DEGRADED", "FAILED"}]
        /\ \A f, g \in made : f.metric = g.metric => f = g
    BY <2>3, FindingsMade
  <2>5. quality' = [status |-> Judged(made), event |-> Latest(Lake), findings |-> made]
    BY <2>1, <2>3
  <2>6. quality' \in QualityFiles
    BY <1>2, <2>2, <2>4, <2>5 DEF QualityFiles
  <2>7. OneFinding'
    BY <2>4, <2>5 DEF OneFinding
  <2> QED
    BY <1>1, <2>6, <2>7
<1> QED
  BY <1>3, <1>4 DEF CheckQuality

\* The findings table after a synchronization.
LEMMA FindingsStored ==
  ASSUME quality \in QualityFiles, NEW rows \in SUBSET FindingRows
  PROVE  FindingsAfter(rows) \in SUBSET FindingRows
<1>1. \A f \in quality.findings :
         [event |-> quality.event, metric |-> f.metric, severity |-> f.severity] \in FindingRows
  BY DEF QualityFiles, FindingRows
<1> QED
  BY <1>1 DEF FindingsAfter

\* The tables after a synchronization has dealt with them.
LEMMA Stored ==
  ASSUME ShapeInv
  PROVE  /\ SyncRuns => /\ store' \in Stores /\ store'.checkpoint = store.checkpoint
                        /\ \A r \in RunIds : store'.runs[r] = Replace(store.runs[r], manifests[r])
                        /\ store'.versions = store.versions
         /\ SyncVersions => /\ store' \in Stores /\ store'.checkpoint = store.checkpoint
                            /\ store'.runs = store.runs
                            /\ \A p \in Paths : store'.versions[p] =
                                  IF files[p] = {} THEN store.versions[p] ELSE files[p]
         /\ SyncQuality => /\ store' \in Stores /\ store'.checkpoint = store.checkpoint
                           /\ store'.runs = store.runs /\ store'.versions = store.versions
                           /\ store'.checks = IF quality = NoQuality THEN store.checks
                                 ELSE [store.checks EXCEPT ![quality.event] = quality.status]
                           /\ store'.findings = FindingsAfter(store.findings)
                           /\ store'.freshness = IF fresh = NoFreshness THEN store.freshness
                                 ELSE store.freshness \cup {fresh}
         /\ SyncCheckpoints => /\ store' \in Stores /\ store'.checkpoint = checkpoint
                               /\ store'.runs = store.runs /\ store'.versions = store.versions
                               /\ store'.checks = store.checks /\ store'.findings = store.findings
                               /\ store'.freshness = store.freshness
<1>1. /\ store \in Stores /\ files \in Trees /\ quality \in QualityFiles /\ fresh \in FreshnessRows
      /\ manifests \in [RunIds -> Watermarks \cup {NoManifest}]
      /\ checkpoint \in [value : Watermarks, run : RunIds \cup {NoRun}]
  BY DEF ShapeInv, LakeShape, Known, Finished, NoCheckpoint, Watermarks
<1>2. ASSUME SyncRuns
      PROVE  /\ store' \in Stores /\ store'.checkpoint = store.checkpoint
             /\ \A r \in RunIds : store'.runs[r] = Replace(store.runs[r], manifests[r])
             /\ store'.versions = store.versions
  <2>1. PICK runs : runs = [r \in RunIds |-> Replace(store.runs[r], manifests[r])]
    OBVIOUS
  <2>2. store' = [store EXCEPT !.runs = runs]
    BY <1>1, <1>2, <2>1 DEF SyncRuns, Stores
  <2>3. \A r \in RunIds : Replace(store.runs[r], manifests[r]) \in Watermarks \cup {NoManifest}
    BY <1>1 DEF Replace, Stores
  <2>4. runs \in [RunIds -> Watermarks \cup {NoManifest}]
    BY <2>1, <2>3
  <2> QED
    BY <1>1, <2>1, <2>2, <2>4 DEF Stores
<1>3. ASSUME SyncVersions
      PROVE  /\ store' \in Stores /\ store'.checkpoint = store.checkpoint
             /\ store'.runs = store.runs
             /\ \A p \in Paths : store'.versions[p] =
                   IF files[p] = {} THEN store.versions[p] ELSE files[p]
  <2>1. PICK versions : versions = [p \in Paths |-> IF files[p] = {} THEN store.versions[p] ELSE files[p]]
    OBVIOUS
  <2>2. store' = [store EXCEPT !.versions = versions]
    BY <1>1, <1>3, <2>1 DEF SyncVersions, Stores
  <2>3. versions \in Trees
    BY <1>1, <2>1 DEF Trees, Stores
  <2> QED
    BY <1>1, <2>1, <2>2, <2>3 DEF Stores
<1>4. ASSUME SyncQuality
      PROVE  /\ store' \in Stores /\ store'.checkpoint = store.checkpoint
             /\ store'.runs = store.runs /\ store'.versions = store.versions
             /\ store'.checks = IF quality = NoQuality THEN store.checks
                   ELSE [store.checks EXCEPT ![quality.event] = quality.status]
             /\ store'.findings = FindingsAfter(store.findings)
             /\ store'.freshness = IF fresh = NoFreshness THEN store.freshness
                   ELSE store.freshness \cup {fresh}
  <2>1. PICK checks, findings, freshness :
           /\ checks = IF quality = NoQuality THEN store.checks
                       ELSE [store.checks EXCEPT ![quality.event] = quality.status]
           /\ findings = FindingsAfter(store.findings)
           /\ freshness = IF fresh = NoFreshness THEN store.freshness
                          ELSE store.freshness \cup {fresh}
    OBVIOUS
  <2>2. store' = [store EXCEPT !.checks = checks, !.findings = findings, !.freshness = freshness]
    BY <1>1, <1>4, <2>1 DEF SyncQuality, Stores
  <2>3. checks \in [Watermarks -> StatusesNow]
    BY <1>1, <2>1 DEF Stores, QualityFiles
  <2>4. findings \in SUBSET FindingRows
    BY <1>1, <2>1, FindingsStored DEF Stores
  <2>5. freshness \in SUBSET FreshnessRows
    BY <1>1, <2>1 DEF Stores
  <2>6. /\ store' \in Stores /\ store'.checks = checks /\ store'.findings = findings
        /\ store'.freshness = freshness /\ store'.checkpoint = store.checkpoint
        /\ store'.runs = store.runs /\ store'.versions = store.versions
    BY <1>1, <2>2, <2>3, <2>4, <2>5 DEF Stores
  <2> QED
    BY <2>1, <2>6
<1>5. ASSUME SyncCheckpoints
      PROVE  /\ store' \in Stores /\ store'.checkpoint = checkpoint
             /\ store'.runs = store.runs /\ store'.versions = store.versions
             /\ store'.checks = store.checks /\ store'.findings = store.findings
             /\ store'.freshness = store.freshness
  BY <1>1, <1>5 DEF SyncCheckpoints, Stores
<1> QED
  BY <1>2, <1>3, <1>4, <1>5

\* Disturbances of a synchronization leave the index as it is.
LEMMA ShapeStep == ASSUME ShapeInv, [Next]_vars PROVE ShapeInv' /\ Finished \subseteq Finished'
<1>0. LakeShape'
  BY LakeStep
<1>1. /\ now \in Instants /\ jobs \in Nat
      /\ manifests \in [RunIds -> Watermarks \cup {NoManifest}]
      /\ newest \in Finished \cup {NoRun} /\ Known(checkpoint) /\ Known(pending)
      /\ fresh \in FreshnessRows /\ quality \in QualityFiles
      /\ store \in Stores /\ Known(store.checkpoint) /\ sync \in Syncs
  BY DEF ShapeInv
<1>2. Disturb => sync' \in Syncs
  BY <1>1, NextStep
<1>3. UNCHANGED manifests => Finished' = Finished
  BY DEF Finished
<1>5. CASE UNCHANGED vars
  BY <1>0, <1>1, <1>3, <1>5 DEF vars, ledger, audits, ShapeInv, Known
<1>6. CASE Tick
  <2>1. now' \in Instants
    BY <1>1, <1>6, ClockAdvances
  <2> QED
    BY <1>0, <1>1, <1>3, <1>6, <2>1 DEF Tick, ledger, audits, ShapeInv, Known
<1>7. ASSUME NEW r \in RunIds, Backfill(r) \/ Kill(r) \/ Incremental(r)
      PROVE  ShapeInv' /\ Finished \subseteq Finished'
  <2>1. UNCHANGED <<now, checkpoint, fresh, quality, jobs, store>> /\ Disturb
    BY <1>7, LoadStep DEF audits
  <2>2. /\ manifests' \in [RunIds -> Watermarks \cup {NoManifest}]
        /\ Finished \subseteq Finished' /\ newest' \in Finished' \cup {NoRun} /\ Known(pending)'
    BY <1>7, LoadRecords
  <2>3. Known(checkpoint)' /\ Known(store.checkpoint)'
    BY <1>1, <2>1, <2>2 DEF Known
  <2> QED
    BY <1>0, <1>1, <1>2, <2>1, <2>2, <2>3 DEF ShapeInv
<1>8. CASE Advance
  <2>1. /\ UNCHANGED <<now, manifests, newest, fresh, quality, jobs, store>> /\ Disturb
        /\ pending' = NoCheckpoint
    BY <1>8 DEF Advance, audits
  <2>2. Known(checkpoint')
    <3>1. CASE checkpoint' = checkpoint
      BY <1>1, <3>1
    <3>2. CASE checkpoint' = [pending EXCEPT !.value = Max({@, checkpoint.value})]
      <4>1. pending \in [value : Watermarks, run : Finished] /\ checkpoint.value \in Watermarks
        BY <1>1, <1>8 DEF Advance, Known, NoCheckpoint, Watermarks
      <4>2. Max({pending.value, checkpoint.value}) \in Watermarks
        <5>1. PICK a, b : a = pending.value /\ b = checkpoint.value
          OBVIOUS
        <5>2. a \in Watermarks /\ b \in Watermarks
          BY <4>1, <5>1
        <5>3. a \in Int /\ b \in Int
          BY <5>2, Calendar DEF Watermarks, Never
        <5> QED
          BY <5>1, <5>2, <5>3, MaxOfTwo
      <4> QED
        BY <3>2, <4>1, <4>2 DEF Known
    <3> QED
      BY <1>8, <3>1, <3>2 DEF Advance
  <2>3. Known(NoCheckpoint)
    BY DEF Known
  <2> QED
    BY <1>0, <1>1, <1>2, <1>3, <2>1, <2>2, <2>3 DEF ShapeInv, Known
<1>9. CASE CheckFreshness
  <2>1. /\ UNCHANGED <<now, manifests, newest, checkpoint, pending, quality, store>> /\ Disturb
    BY <1>9 DEF CheckFreshness, ledger
  <2> QED
    BY <1>0, <1>1, <1>2, <1>3, <1>9, <2>1, FreshnessFile DEF ShapeInv, Known
<1>10. CASE CheckQuality
  <2>1. /\ UNCHANGED <<now, manifests, newest, checkpoint, pending, fresh, store>> /\ Disturb
    BY <1>10 DEF CheckQuality, ledger
  <2> QED
    BY <1>0, <1>1, <1>2, <1>3, <1>10, <2>1, QualityFile DEF ShapeInv, Known
<1>11. CASE SyncRuns \/ SyncVersions \/ SyncQuality \/ SyncCheckpoints
  <2>1. UNCHANGED <<now, manifests, newest, checkpoint, pending, fresh, quality, jobs>> /\ StepDone
    BY <1>11 DEF SyncRuns, SyncVersions, SyncQuality, SyncCheckpoints, ledger, audits
  <2>2. sync' \in Syncs
    BY <1>1, <2>1, NextStep
  <2>3. store' \in Stores /\ store'.checkpoint \in {store.checkpoint, checkpoint}
    BY <1>11, Stored
  <2>4. Known(store.checkpoint)'
    BY <1>1, <1>3, <2>1, <2>3 DEF Known
  <2> QED
    BY <1>0, <1>1, <1>3, <2>1, <2>2, <2>3, <2>4 DEF ShapeInv, Known
<1>12. CASE Begin \/ Die
  <2>1. UNCHANGED <<now, manifests, newest, checkpoint, pending, fresh, quality, jobs, store>>
    BY <1>12 DEF Begin, Die, ledger, audits
  <2>2. sync' \in Syncs
    <3>1. NoSync \in Syncs /\ [step |-> 1, quiet |-> TRUE, undone |-> FALSE] \in Syncs
      BY DEF NoSync, Syncs
    <3> QED
      BY <1>12, <3>1 DEF Begin, Die
  <2> QED
    BY <1>0, <1>1, <1>3, <2>1, <2>2 DEF ShapeInv, Known
<1>13. CASE (\E c \in Compactions : MoveToArchive(c)) \/ SwapIn \/ PutBack \/ Strand
  <2>1. UNCHANGED <<now, manifests, newest, checkpoint, pending, fresh, quality, store>>
    BY <1>13 DEF MoveToArchive, SwapIn, PutBack, Strand, ledger, audits
  <2>2. jobs' \in Nat
    BY <1>1, <1>13 DEF MoveToArchive, SwapIn, PutBack, Strand, JobStarts
  <2>3. sync' \in Syncs
    <3>1. CASE (\E c \in Compactions : MoveToArchive(c)) \/ SwapIn \/ Strand
      BY <1>2, <3>1 DEF MoveToArchive, SwapIn, Strand
    <3>2. CASE PutBack
      <4>1. sync' = [sync EXCEPT !.quiet = FALSE, !.undone = sync.step # 0]
        BY <3>2 DEF PutBack
      <4>2. (sync.step # 0) \in BOOLEAN
        OBVIOUS
      <4> QED
        BY <1>1, <4>1, <4>2 DEF Syncs
    <3> QED
      BY <1>13, <3>1, <3>2
  <2> QED
    BY <1>0, <1>1, <1>3, <2>1, <2>2, <2>3 DEF ShapeInv, Known
<1> QED
  BY <1>5, <1>6, <1>7, <1>8, <1>9, <1>10, <1>11, <1>12, <1>13 DEF Next

-----------------------------------------------------------------------------
(* Freshness. *)

LEMMA LandStep == ASSUME ShapeInv, LandInv, [Next]_vars PROVE LandInv'
<1>1. /\ \A row \in Kept : 2 * row[2] + 1 <= now
      /\ \A r \in RunIds : manifests[r] \in MarketDays => manifests[r] \in DaysOf(Kept)
      /\ fresh.status = "HEALTHY" => fresh.due \in DaysOf(Kept)
      /\ Kept \in SUBSET Rows /\ now \in Instants
  BY LakeRows DEF LandInv, FreshMeansLanded, ShapeInv
<1>2. /\ Kept \subseteq Kept' /\ \A row \in Kept' : row \in Kept \/ 2 * row[2] + 1 <= now
  BY LakeStep
<1>3. \A d \in DaysOf(Kept) : d \in DaysOf(Kept')
  BY <1>2 DEF DaysOf
<1>4. DaysOf(Kept)' = DaysOf(Kept')
  BY DEF DaysOf
<1>5. CASE UNCHANGED <<now, manifests, fresh>>
  BY <1>1, <1>2, <1>3, <1>4, <1>5 DEF LandInv, FreshMeansLanded
<1>6. CASE Tick
  <2>1. UNCHANGED <<lake, manifests, fresh>> /\ now' \in Instants /\ now' >= now
    BY <1>1, <1>6, ClockAdvances DEF Tick, ledger, audits
  <2>2. Kept' = Kept
    BY <2>1, LakeSame
  <2>3. \A row \in Kept : 2 * row[2] + 1 <= now'
    <3> SUFFICES ASSUME NEW row \in Kept PROVE 2 * row[2] + 1 <= now'
      OBVIOUS
    <3>1. row \in Symbols \X MarketDays
      BY <1>1 DEF Rows
    <3>2. PICK d : d = row[2]
      OBVIOUS
    <3>3. d \in Nat /\ 2 * d + 1 <= now
      <4>1. d \in MarketDays
        BY <3>1, <3>2
      <4>2. d \in Nat
        BY <4>1, Calendar
      <4>3. 2 * d + 1 <= now
        BY <1>1, <3>2
      <4> QED
        BY <4>2, <4>3
    <3>4. now \in Nat /\ now' \in Nat
      BY <1>1, <2>1, Calendar
    <3> QED
      BY <2>1, <3>2, <3>3, <3>4
  <2> QED
    BY <1>1, <1>4, <2>1, <2>2, <2>3 DEF LandInv, FreshMeansLanded
<1>7. ASSUME NEW r \in RunIds, Backfill(r) \/ Kill(r) \/ Incremental(r)
      PROVE  LandInv'
  <2>1. UNCHANGED <<now, fresh>>
    BY <1>7, LoadStep DEF audits
  <2>2. \A q \in RunIds : manifests'[q] \in MarketDays =>
           manifests'[q] = manifests[q] \/ manifests'[q] \in DaysOf(Kept')
    BY <1>7, LoadRecords
  <2> QED
    BY <1>1, <1>2, <1>3, <1>4, <2>1, <2>2 DEF LandInv, FreshMeansLanded
<1>8. CASE CheckFreshness
  <2>1. PICK event : event = (IF newest = NoRun THEN Never ELSE manifests[newest])
    OBVIOUS
  <2>2. /\ UNCHANGED <<now, manifests>>
        /\ fresh' = [status |-> Freshness(event, now), due |-> LastClosed(now), at |-> jobs']
    BY <1>8, <2>1 DEF CheckFreshness, ledger
  <2>3. ASSUME Freshness(event, now) = "HEALTHY" PROVE LastClosed(now) \in DaysOf(Kept)
    <3>1. event # Never
      BY <2>3 DEF Freshness
    <3>2. newest \in RunIds /\ event = manifests[newest] /\ event \in MarketDays
      BY <2>1, <3>1 DEF ShapeInv, Finished, Watermarks
    <3>3. event \in DaysOf(Kept)
      BY <1>1, <3>2
    <3>4. event \in Closed(now)
      BY <1>1, <3>2, <3>3 DEF DaysOf, Closed
    <3> QED
      BY <1>1, <2>3, <3>3, <3>4, FreshDay
  <2> QED
    BY <1>1, <1>2, <1>3, <1>4, <2>2, <2>3 DEF LandInv, FreshMeansLanded
<1>9. CASE \/ (\E c \in Compactions : MoveToArchive(c)) \/ SwapIn \/ PutBack \/ Strand
           \/ Advance \/ CheckQuality \/ Begin \/ SyncRuns \/ SyncVersions \/ SyncQuality
           \/ SyncCheckpoints \/ Die \/ UNCHANGED vars
  <2>1. UNCHANGED <<now, manifests, fresh>>
    BY <1>9 DEF MoveToArchive, SwapIn, PutBack, Strand, Advance, CheckQuality, Begin, SyncRuns,
                SyncVersions, SyncQuality, SyncCheckpoints, Die, vars, ledger, audits
  <2> QED
    BY <1>5, <2>1
<1> QED
  BY <1>6, <1>7, <1>8, <1>9 DEF Next

-----------------------------------------------------------------------------
(* Statistical quality. *)

LEMMA AbsentFinite ==
  ASSUME NEW d
  PROVE  /\ IsFiniteSet(Absent(d)) /\ Cardinality(Absent(d)) \in Nat
         /\ IsFiniteSet(Symbols) /\ Cardinality(Symbols) \in Nat
<1>1. IsFiniteSet(Symbols) /\ Absent(d) \in SUBSET Symbols
  BY UniverseSize DEF Absent
<1>2. IsFiniteSet(Absent(d))
  BY <1>1, FS_Subset
<1> QED
  BY <1>1, <1>2, FS_CardinalityType

\* A smaller set of absent symbols is no larger a share of the universe.
LEMMA FewerAbsent ==
  ASSUME NEW A \in SUBSET Symbols, NEW B \in SUBSET A, 100 * Cardinality(A) < Cardinality(Symbols)
  PROVE  100 * Cardinality(B) < Cardinality(Symbols)
<1>1. IsFiniteSet(A) /\ IsFiniteSet(B) /\ Cardinality(B) <= Cardinality(A)
  BY UniverseSize, FS_Subset
<1>2. PICK a, b, n : a = Cardinality(A) /\ b = Cardinality(B) /\ n = Cardinality(Symbols)
  OBVIOUS
<1>3. a \in Nat /\ b \in Nat /\ n \in Nat /\ b <= a /\ 100 * a < n
  BY <1>1, <1>2, UniverseSize, FS_CardinalityType
<1>4. 100 * b < n
  BY <1>3
<1> QED
  BY <1>2, <1>4

\* A healthy audit has found less than one percent missing on the newest day.
LEMMA HealthyDay ==
  ASSUME ShapeInv, NEW d, NEW other \in {"HEALTHY", "DEGRADED", "FAILED"},
         Judged(Findings(d, other)) = "HEALTHY"
  PROVE  100 * Cardinality(Absent(d)) < Cardinality(Symbols)
<1>1. Missing(d) = "HEALTHY"
  <2>1. SUFFICES ASSUME Missing(d) # "HEALTHY" PROVE FALSE
    OBVIOUS
  <2>2. PICK made, f : made = Findings(d, other) /\ f \in made
    BY <2>1, FindingsMade
  <2>3. f.severity \in {g.severity : g \in made}
    BY <2>2
  <2> QED
    BY <2>2, <2>3 DEF Judged
<1>2. Absent(d) \in SUBSET (Symbols \ Observed(d))
  <2>1. \A x \in Lake : x = <<x[1], x[2]>>
    BY LakeRows DEF Rows
  <2>2. \A s : s \in Observed(d) => <<s, d>> \in Lake
    BY <2>1 DEF Observed
  <2>3. Lake \subseteq Kept
    BY DEF Kept
  <2> QED
    BY <2>2, <2>3 DEF Absent
<1>3. 100 * Cardinality(Symbols \ Observed(d)) < Cardinality(Symbols)
  <2>1. PICK m, n : m = Cardinality(Symbols \ Observed(d)) /\ n = Cardinality(Symbols)
    OBVIOUS
  <2>2. m \in Nat /\ n \in Nat
    BY <2>1, UniverseSize, FS_CardinalityType, FS_Subset
  <2>3. ~(100 * m >= n)
    BY <1>1, <2>1 DEF Missing
  <2> QED
    BY <2>1, <2>2, <2>3
<1>4. PICK missing : missing = Symbols \ Observed(d)
  OBVIOUS
<1>5. missing \in SUBSET Symbols /\ Absent(d) \in SUBSET missing
  BY <1>2, <1>4
<1> QED
  BY <1>3, <1>4, <1>5, FewerAbsent

LEMMA CompleteStep == ASSUME ShapeInv, CompleteInv, [Next]_vars PROVE CompleteInv'
<1>1. Kept \subseteq Kept'
  BY LakeStep
<1>2. ASSUME NEW d, 100 * Cardinality(Absent(d)) < Cardinality(Symbols)
      PROVE  100 * Cardinality({s \in Symbols : <<s, d>> \notin Kept'}) < Cardinality(Symbols)
  <2>1. PICK before, after : before = Absent(d) /\ after = {s \in Symbols : <<s, d>> \notin Kept'}
    OBVIOUS
  <2>2. before \in SUBSET Symbols /\ after \in SUBSET before
    BY <1>1, <2>1 DEF Absent
  <2> QED
    BY <1>2, <2>1, <2>2, FewerAbsent
<1>3. CompleteInv' <=> (quality'.status = "HEALTHY" =>
         100 * Cardinality({s \in Symbols : <<s, quality'.event>> \notin Kept'}) < Cardinality(Symbols))
  BY DEF CompleteInv, Absent
<1>4. CASE UNCHANGED quality
  BY <1>2, <1>3, <1>4 DEF CompleteInv
<1>5. CASE CheckQuality
  <2>1. CASE quality' = [status |-> "UNKNOWN", event |-> Never, findings |-> {}]
    BY <1>3, <2>1
  <2>2. CASE \E other \in Outcomes :
               quality' = [status |-> Judged(Findings(Latest(Lake), other)), event |-> Latest(Lake),
                           findings |-> Findings(Latest(Lake), other)]
    <3>1. PICK other \in {"HEALTHY", "DEGRADED", "FAILED"} :
               quality' = [status |-> Judged(Findings(Latest(Lake), other)), event |-> Latest(Lake),
                           findings |-> Findings(Latest(Lake), other)]
      BY <2>2, EvidenceBounds
    <3>2. PICK d : d = Latest(Lake)
      OBVIOUS
    <3>3. quality'.status = Judged(Findings(d, other)) /\ quality'.event = d
      BY <3>1, <3>2
    <3> QED
      BY <1>2, <1>3, <3>3, HealthyDay
  <2> QED
    BY <1>5, <2>1, <2>2 DEF CheckQuality
<1>6. ASSUME NEW r \in RunIds, Backfill(r) \/ Kill(r) \/ Incremental(r)
      PROVE  UNCHANGED quality
  BY <1>6, LoadStep DEF audits
<1>7. CASE \/ (\E c \in Compactions : MoveToArchive(c)) \/ SwapIn \/ PutBack \/ Strand
           \/ Tick \/ Advance \/ CheckFreshness \/ Begin \/ SyncRuns \/ SyncVersions
           \/ SyncQuality \/ SyncCheckpoints \/ Die \/ UNCHANGED vars
  <2>1. UNCHANGED quality
    BY <1>7 DEF MoveToArchive, SwapIn, PutBack, Strand, Tick, Advance, CheckFreshness, Begin,
                SyncRuns, SyncVersions, SyncQuality, SyncCheckpoints, Die, vars, audits
  <2> QED
    BY <1>4, <2>1
<1> QED
  BY <1>4, <1>5, <1>6, <1>7 DEF Next

-----------------------------------------------------------------------------
(* The index. *)

\* Runs and compactions leave the index alone and disturb the synchronization under way.
LEMMA Disturbance ==
  ASSUME ShapeInv,
         \/ \E r \in RunIds : Backfill(r) \/ Kill(r) \/ Incremental(r)
         \/ \E c \in Compactions : MoveToArchive(c)
         \/ SwapIn \/ PutBack \/ Strand \/ Advance \/ CheckFreshness \/ CheckQuality
  PROVE  /\ UNCHANGED store /\ sync'.step = sync.step /\ ~sync'.quiet
         /\ ~sync'.undone => ~sync.undone \/ sync.step = 0
         /\ CheckQuality \/ UNCHANGED quality
<1>1. sync \in Syncs
  BY DEF ShapeInv
<1>2. CASE PutBack
  <2>1. /\ UNCHANGED <<store, quality>>
        /\ sync' = [sync EXCEPT !.quiet = FALSE, !.undone = sync.step # 0]
    BY <1>2 DEF PutBack, audits
  <2>2. /\ sync'.step = sync.step /\ sync'.quiet = FALSE /\ sync'.undone = (sync.step # 0)
    BY <1>1, <2>1 DEF Syncs
  <2> QED
    BY <2>1, <2>2
<1>3. CASE \E r \in RunIds : Backfill(r) \/ Kill(r) \/ Incremental(r)
  <2>1. UNCHANGED <<store, quality>> /\ Disturb
    BY <1>3, LoadStep DEF audits
  <2> QED
    BY <1>1, <2>1, NextStep
<1>4. CASE (\E c \in Compactions : MoveToArchive(c)) \/ SwapIn \/ Strand \/ Advance
           \/ CheckFreshness \/ CheckQuality
  <2>1. UNCHANGED store /\ Disturb /\ (CheckQuality \/ UNCHANGED quality)
    BY <1>4 DEF MoveToArchive, SwapIn, Strand, Advance, CheckFreshness, CheckQuality, audits
  <2> QED
    BY <1>1, <2>1, NextStep
<1> QED
  BY <1>2, <1>3, <1>4

\* After a synchronization has copied the audits, their findings are in the index.
LEMMA AuditsListed ==
  ASSUME ShapeInv, OneFinding, SyncQuality
  PROVE  ListsAudits(store')
<1>1. /\ store'.checks = IF quality = NoQuality THEN store.checks
                         ELSE [store.checks EXCEPT ![quality.event] = quality.status]
      /\ store'.findings = FindingsAfter(store.findings)
      /\ store'.freshness = IF fresh = NoFreshness THEN store.freshness
                            ELSE store.freshness \cup {fresh}
      /\ store.checks \in [Watermarks -> StatusesNow] /\ quality.event \in Watermarks
  BY Stored DEF ShapeInv, Stores, QualityFiles
<1>2. quality # NoQuality => store'.checks[quality.event] = quality.status
  BY <1>1
<1>3. ASSUME NEW f \in quality.findings
      PROVE  {row.severity : row \in {x \in store'.findings :
                                         x.event = quality.event /\ x.metric = f.metric}}
                = {f.severity}
  <2>1. PICK made : made = [event |-> quality.event, metric |-> f.metric, severity |-> f.severity]
    OBVIOUS
  <2>2. PICK table : table = store'.findings
    OBVIOUS
  <2>3. made \in table /\ made.event = quality.event /\ made.metric = f.metric
        /\ made.severity = f.severity
    BY <1>1, <1>3, <2>1, <2>2 DEF FindingsAfter
  <2>4. ASSUME NEW x \in table, x.event = quality.event, x.metric = f.metric
        PROVE  x.severity = f.severity
    <3>1. \/ x.event # quality.event \/ \A g \in quality.findings : x.metric # g.metric
          \/ \E g \in quality.findings :
                x = [event |-> quality.event, metric |-> g.metric, severity |-> g.severity]
      BY <1>1, <2>2 DEF FindingsAfter
    <3>2. PICK g \in quality.findings :
             x = [event |-> quality.event, metric |-> g.metric, severity |-> g.severity]
      BY <1>3, <2>4, <3>1
    <3>3. g = f
      BY <1>3, <2>4, <3>2 DEF OneFinding
    <3> QED
      BY <3>2, <3>3
  <2>5. {row.severity : row \in {x \in table : x.event = quality.event /\ x.metric = f.metric}}
           = {f.severity}
    BY <2>3, <2>4
  <2> QED
    BY <2>2, <2>5
<1>4. fresh # NoFreshness => fresh \in store'.freshness
  BY <1>1
<1> QED
  BY <1>2, <1>3, <1>4 DEF ListsAudits

LEMMA IndexStep == ASSUME ShapeInv, IndexInv, [Next]_vars PROVE IndexInv'
<1>1. /\ sync \in Syncs /\ store \in Stores
      /\ manifests \in [RunIds -> Watermarks \cup {NoManifest}]
      /\ OneFinding
      /\ \A r \in RunIds : store.runs[r] # NoManifest => manifests[r] # NoManifest
  BY DEF ShapeInv, IndexInv
<1>2. \A r \in RunIds : manifests[r] # NoManifest => manifests'[r] # NoManifest
  BY ShapeStep DEF Finished
<1>3. UNCHANGED quality => OneFinding'
  BY <1>1 DEF OneFinding
<1>4. CASE \/ \E r \in RunIds : Backfill(r) \/ Kill(r) \/ Incremental(r)
           \/ \E c \in Compactions : MoveToArchive(c)
           \/ SwapIn \/ PutBack \/ Strand \/ Advance \/ CheckFreshness \/ CheckQuality
  <2>1. UNCHANGED store /\ ~sync'.quiet /\ (CheckQuality \/ UNCHANGED quality)
    BY <1>4, Disturbance
  <2>2. OneFinding'
    BY <1>3, <2>1, QualityFile
  <2>3. \A r \in RunIds : store'.runs[r] # NoManifest => manifests'[r] # NoManifest
    BY <1>1, <1>2, <2>1
  <2> QED
    BY <2>1, <2>2, <2>3 DEF IndexInv
<1>5. CASE Tick \/ UNCHANGED vars
  <2>1. UNCHANGED <<files, manifests, fresh, quality, store, sync>>
    BY <1>5 DEF Tick, vars, lake, ledger, audits
  <2>2. ListsAudits(store) <=> ListsAudits(store)'
    BY <2>1 DEF ListsAudits
  <2> QED
    BY <1>3, <2>1, <2>2 DEF IndexInv
<1>6. CASE Begin \/ Die
  <2>1. UNCHANGED <<manifests, quality, store>> /\ (sync'.step = 0 \/ sync'.step = 1)
    BY <1>6 DEF Begin, Die, NoSync, ledger, audits
  <2>2. ~(sync'.step > 1) /\ ~(sync'.step > 2) /\ ~(sync'.step > 3)
    BY <2>1
  <2> QED
    BY <1>1, <1>3, <2>1, <2>2 DEF IndexInv
<1>7. CASE SyncRuns
  <2>1. /\ UNCHANGED <<manifests, quality>> /\ sync'.step = 2
    <3>1. UNCHANGED <<manifests, quality>> /\ StepDone /\ sync.step = 1
      BY <1>1, <1>7, Steps DEF SyncRuns, ledger, audits
    <3> QED
      BY <1>1, <3>1, NextStep
  <2>2. /\ store'.runs \in [RunIds -> Watermarks \cup {NoManifest}]
        /\ \A r \in RunIds : store'.runs[r] = Replace(store.runs[r], manifests[r])
    BY <1>7, Stored DEF Stores
  <2>3. \A r \in RunIds : store'.runs[r] = manifests[r]
    BY <1>1, <2>2 DEF Replace
  <2>4. store'.runs = manifests
    BY <1>1, <2>2, <2>3
  <2>5. ~(sync'.step > 2) /\ ~(sync'.step > 3)
    BY <2>1
  <2> QED
    BY <1>3, <2>1, <2>4, <2>5 DEF IndexInv
<1>8. CASE SyncVersions
  <2>1. /\ UNCHANGED <<files, manifests, quality>>
        /\ sync.step = 2 /\ sync'.step = 3 /\ sync'.quiet = sync.quiet
    <3>1. UNCHANGED <<files, manifests, quality>> /\ StepDone /\ sync.step = 2
      BY <1>1, <1>8, Steps DEF SyncVersions, lake, ledger, audits
    <3> QED
      BY <1>1, <3>1, NextStep
  <2>2. /\ store'.runs = store.runs
        /\ \A p \in Paths : files[p] # {} => store'.versions[p] = files[p]
    BY <1>8, Stored
  <2>3. sync.quiet => store.runs = manifests
    BY <2>1 DEF IndexInv
  <2>4. ~(sync'.step > 3)
    BY <2>1
  <2> QED
    BY <1>1, <1>3, <2>1, <2>2, <2>3, <2>4 DEF IndexInv
<1>9. CASE SyncQuality
  <2>1. /\ UNCHANGED <<files, manifests, fresh, quality>>
        /\ sync.step = 3 /\ sync'.step = 4 /\ sync'.quiet = sync.quiet
    <3>1. UNCHANGED <<files, manifests, fresh, quality>> /\ StepDone /\ sync.step = 3
      BY <1>1, <1>9, Steps DEF SyncQuality, lake, ledger, audits
    <3> QED
      BY <1>1, <3>1, NextStep
  <2>2. store'.runs = store.runs /\ store'.versions = store.versions
    BY <1>9, Stored
  <2>3. ListsAudits(store)'
    <3>1. ListsAudits(store')
      BY <1>1, <1>9, AuditsListed
    <3> QED
      BY <2>1, <3>1 DEF ListsAudits
  <2>4. sync.quiet => /\ store.runs = manifests
                      /\ \A p \in Paths : files[p] # {} => store.versions[p] = files[p]
    BY <2>1 DEF IndexInv
  <2> QED
    BY <1>1, <1>3, <2>1, <2>2, <2>3, <2>4 DEF IndexInv
<1>10. CASE SyncCheckpoints
  <2>1. UNCHANGED <<manifests, quality>> /\ sync'.step = 0
    <3>1. UNCHANGED <<manifests, quality>> /\ StepDone /\ sync.step = 4
      BY <1>1, <1>10, Steps DEF SyncCheckpoints, lake, ledger, audits
    <3> QED
      BY <1>1, <3>1, NextStep
  <2>2. store'.runs = store.runs
    BY <1>10, Stored
  <2>3. ~(sync'.step > 1) /\ ~(sync'.step > 2) /\ ~(sync'.step > 3)
    BY <2>1
  <2> QED
    BY <1>1, <1>3, <2>1, <2>2, <2>3 DEF IndexInv
<1> QED
  BY <1>4, <1>5, <1>6, <1>7, <1>8, <1>9, <1>10 DEF Next

LEMMA IndexedRow == \A x : x \in IndexedRows <=> \E p \in Paths : x \in store.versions[p]
  BY DEF IndexedRows

LEMMA IndexedRowLater == \A x : x \in IndexedRows' <=> \E p \in Paths : x \in store'.versions[p]
  BY DEF IndexedRows

\* The data of indexed runs stays where a reader or a compaction has it.
LEMMA FiledStep == ASSUME ShapeInv, LandInv, FiledInv, [Next]_vars PROVE FiledInv'
<1>1. /\ sync \in Syncs /\ Kept \subseteq Kept'
      /\ \A r \in RunIds : manifests[r] \in MarketDays => manifests[r] \in DaysOf(Kept)
      /\ \A r \in RunIds : store.runs[r] \in MarketDays => store.runs[r] \in DaysOf(Kept)
  BY LakeStep DEF ShapeInv, LandInv, FiledInv, Filed
<1>2. PICK later : later = DaysOf(Kept')
  OBVIOUS
<1>3. /\ \A d \in DaysOf(Kept) : d \in later
      /\ Filed(Kept)' <=> \A r \in RunIds : store'.runs[r] \in MarketDays => store'.runs[r] \in later
  BY <1>1, <1>2 DEF DaysOf, Filed
<1>4. ASSUME store'.runs = store.runs PROVE Filed(Kept)'
  BY <1>1, <1>3, <1>4
<1>5. ASSUME store'.runs = store.runs, store'.versions = store.versions,
             sync'.step > 2 /\ ~sync'.undone => sync.step > 2 /\ ~sync.undone
      PROVE  FiledInv'
  <2>1. ASSUME sync'.step > 2, ~sync'.undone PROVE Filed(IndexedRows \cup Archived)'
    <3>1. Filed(IndexedRows \cup Archived)
      BY <1>5, <2>1 DEF FiledInv
    <3>2. Archived \subseteq Archived'
      BY <2>1, LakeStep
    <3>3. IndexedRows' = IndexedRows
      BY <1>5 DEF IndexedRows
    <3>4. \A d \in DaysOf(IndexedRows \cup Archived) : d \in DaysOf(IndexedRows' \cup Archived')
      BY <3>2, <3>3 DEF DaysOf
    <3>5. \A r \in RunIds : store'.runs[r] \in MarketDays =>
             store'.runs[r] \in DaysOf(IndexedRows' \cup Archived')
      BY <1>5, <3>1, <3>4 DEF Filed
    <3>6. DaysOf(IndexedRows \cup Archived)' = DaysOf(IndexedRows' \cup Archived')
      BY DEF DaysOf
    <3> QED
      BY <3>5, <3>6 DEF Filed
  <2> QED
    BY <1>4, <1>5, <2>1 DEF FiledInv
<1>6. CASE \/ \E r \in RunIds : Backfill(r) \/ Kill(r) \/ Incremental(r)
           \/ \E c \in Compactions : MoveToArchive(c)
           \/ SwapIn \/ PutBack \/ Strand \/ Advance \/ CheckFreshness \/ CheckQuality
  <2>1. UNCHANGED store /\ sync'.step = sync.step /\ (~sync'.undone => ~sync.undone \/ sync.step = 0)
    BY <1>6, Disturbance
  <2>2. ~(0 > 2)
    OBVIOUS
  <2> QED
    BY <1>5, <2>1, <2>2
<1>7. CASE Tick \/ UNCHANGED vars
  <2>1. UNCHANGED <<store, sync>>
    BY <1>7 DEF Tick, vars
  <2> QED
    BY <1>5, <2>1
<1>8. CASE Begin \/ Die
  <2>1. UNCHANGED store /\ (sync'.step = 0 \/ sync'.step = 1)
    BY <1>8 DEF Begin, Die, NoSync
  <2>2. ~(sync'.step > 2)
    BY <2>1
  <2> QED
    BY <1>5, <2>1, <2>2
<1>9. CASE SyncRuns
  <2>1. sync'.step = 2
    <3>1. StepDone /\ sync.step = 1
      BY <1>1, <1>9, Steps DEF SyncRuns
    <3> QED
      BY <1>1, <3>1, NextStep
  <2>2. \A r \in RunIds : store'.runs[r] = store.runs[r] \/ store'.runs[r] = manifests[r]
    BY <1>9, Stored DEF Replace
  <2>3. Filed(Kept)'
    BY <1>1, <1>3, <2>2
  <2>4. ~(sync'.step > 2)
    BY <2>1
  <2> QED
    BY <2>3, <2>4 DEF FiledInv
<1>10. CASE SyncVersions
  <2>1. /\ store'.runs = store.runs
        /\ \A p \in Paths : store'.versions[p] = IF files[p] = {} THEN store.versions[p] ELSE files[p]
    BY <1>10, Stored
  <2>2. \A x \in Lake : x \in IndexedRows'
    BY <2>1, LakeRows, IndexedRowLater
  <2>3. Archived' = Archived
    BY <1>10 DEF SyncVersions, lake, Archived
  <2>4. \A d \in DaysOf(Kept) : d \in DaysOf(IndexedRows' \cup Archived')
    BY <2>2, <2>3 DEF DaysOf, Kept
  <2>5. \A r \in RunIds : store'.runs[r] \in MarketDays =>
           store'.runs[r] \in DaysOf(IndexedRows' \cup Archived')
    BY <1>1, <2>1, <2>4
  <2>6. DaysOf(IndexedRows \cup Archived)' = DaysOf(IndexedRows' \cup Archived')
    BY DEF DaysOf
  <2>7. Filed(IndexedRows \cup Archived)'
    BY <2>5, <2>6 DEF Filed
  <2> QED
    BY <1>4, <2>1, <2>7 DEF FiledInv
<1>11. CASE SyncQuality \/ SyncCheckpoints
  <2>1. store'.runs = store.runs /\ store'.versions = store.versions
    BY <1>11, Stored
  <2>2. StepDone /\ (sync.step = 3 \/ sync.step = 4)
    BY <1>1, <1>11, Steps DEF SyncQuality, SyncCheckpoints
  <2>3. sync'.step > 2 /\ ~sync'.undone => sync.step > 2 /\ ~sync.undone
    <3>1. CASE sync.step = 3
      BY <1>1, <2>2, <3>1, NextStep
    <3>2. CASE sync.step = 4
      <4>1. sync'.step = 0
        BY <1>1, <2>2, <3>2, NextStep
      <4> QED
        BY <4>1
    <3> QED
      BY <2>2, <3>1, <3>2
  <2> QED
    BY <1>5, <2>1, <2>3
<1> QED
  BY <1>6, <1>7, <1>8, <1>9, <1>10, <1>11 DEF Next

-----------------------------------------------------------------------------
(* The theorems. *)

\* The inductive invariant of what the platform says about its prices: types, what
\* watermarks and audits stand for in the lake, and what of the evidence a
\* synchronization has put into the index so far.
THEOREM EvidenceInvariant == Spec => []EvidenceInv
<1>1. Init => EvidenceInv
  <2> SUFFICES ASSUME Init PROVE EvidenceInv
    OBVIOUS
  <2>1. NoFiles \in Trees /\ \A p \in Paths : NoFiles[p] = {}
    BY DEF NoFiles, Trees
  <2>2. /\ files \in Trees /\ archive \in [Compactions -> Trees]
        /\ \A p \in Paths : files[p] = {} /\ \A c \in Compactions : archive[c][p] = {}
    BY <2>1 DEF Init
  <2>3. Kept = {} /\ Lake = {}
    <3>1. Lake = {}
      BY <2>2, LakeRows
    <3>2. Archived = {}
      BY <2>2, LakeRows
    <3> QED
      BY <3>1, <3>2 DEF Kept
  <2>4. LakeShape
    BY <2>2, NoSwapShape DEF Init, LakeShape
  <2>5. ShapeInv
    <3>1. NoFreshness \in FreshnessRows
      BY DEF NoFreshness, FreshnessRows, StatusesNow, Watermarks
    <3>2. NoQuality \in QualityFiles
      BY DEF NoQuality, QualityFiles, StatusesNow, Watermarks
    <3>3. NoChecks \in [Watermarks -> StatusesNow]
      BY DEF NoChecks, Watermarks, StatusesNow
    <3>4. NoCheckpoint \in [value : Watermarks, run : RunIds \cup {NoRun}]
      BY DEF NoCheckpoint, Watermarks
    <3>5. NoSync \in Syncs
      BY DEF NoSync, Syncs
    <3>6. manifests \in [RunIds -> Watermarks \cup {NoManifest}]
      BY DEF Init
    <3>7. store \in Stores /\ store.checkpoint = NoCheckpoint
      BY <2>2, <3>3, <3>4, <3>6 DEF Init, Stores
    <3> QED
      BY <2>4, <3>1, <3>2, <3>5, <3>6, <3>7, Calendar DEF Init, ShapeInv, Known
  <2>6. \A r \in RunIds : manifests[r] \notin MarketDays /\ store.runs[r] = NoManifest
    BY Calendar DEF Init, Watermarks
  <2>7. LandInv
    BY <2>3, <2>6 DEF Init, LandInv, FreshMeansLanded, NoFreshness
  <2>8. CompleteInv
    BY DEF Init, CompleteInv, NoQuality
  <2>9. IndexInv
    BY <2>6 DEF Init, IndexInv, OneFinding, NoSync, NoQuality
  <2>10. FiledInv
    BY <2>6, Calendar DEF Init, FiledInv, Filed, NoSync, Watermarks
  <2> QED
    BY <2>5, <2>7, <2>8, <2>9, <2>10 DEF EvidenceInv
<1>2. EvidenceInv /\ [Next]_vars => EvidenceInv'
  <2> SUFFICES ASSUME ShapeInv, LandInv, CompleteInv, IndexInv, FiledInv, [Next]_vars
               PROVE  EvidenceInv'
    BY DEF EvidenceInv
  <2> QED
    BY ShapeStep, LandStep, CompleteStep, IndexStep, FiledStep DEF EvidenceInv
<1> QED
  BY <1>1, <1>2, PTL DEF Spec

\* The evidence, the archives, the audits and the index keep their types, and whatever
\* run is taken for the newest has a manifest.
THEOREM EvidenceTypesCorrect == Spec => []TypeOK
<1>1. EvidenceInv => TypeOK
  <2> SUFFICES ASSUME ShapeInv PROVE TypeOK
    BY DEF EvidenceInv
  <2>1. ASSUME NEW c, Known(c) PROVE CheckpointTypeOK(c)
    BY <2>1 DEF Known, CheckpointTypeOK, Watermarks, Finished
  <2>2. \A r \in RunIds : {manifests[r], store.runs[r]} \subseteq MarketDays \cup {Never, NoManifest}
    BY DEF ShapeInv, Stores, Watermarks
  <2>3. {fresh.status, quality.status} \subseteq Statuses \cup {"none"}
    BY DEF ShapeInv, FreshnessRows, QualityFiles, StatusesNow
  <2>4. /\ {files, store.versions} \subseteq [Paths -> SUBSET Rows]
        /\ archive \in [Compactions -> [Paths -> SUBSET Rows]]
    BY DEF ShapeInv, LakeShape, Stores, Trees
  <2>5. swap = NoSwap \/ (swap.id \in Compactions /\ swap.rows \subseteq Rows)
    BY DEF ShapeInv, LakeShape
  <2>6. sync.step \in 0 .. Len(Order)
    BY Steps DEF ShapeInv, Syncs
  <2>7. now \in Instants /\ newest \in Finished \cup {NoRun}
        /\ CheckpointTypeOK(checkpoint) /\ CheckpointTypeOK(pending)
        /\ CheckpointTypeOK(store.checkpoint)
    BY <2>1 DEF ShapeInv
  <2> QED
    BY <2>2, <2>3, <2>4, <2>5, <2>6, <2>7 DEF TypeOK
<1> QED
  BY <1>1, EvidenceInvariant, PTL

\* For any calendar and universe, prices that are called fresh have rows of the last
\* market day that had closed, whatever runs were killed, repeated or found nothing.
THEOREM FreshPricesLanded == Spec => []FreshMeansLanded
<1>1. EvidenceInv => FreshMeansLanded
  BY DEF EvidenceInv, LandInv
<1> QED
  BY <1>1, EvidenceInvariant, PTL

\* A healthy quality audit leaves less than one percent of any universe without a row on
\* the day it judged, hence none of a universe of up to 100 symbols.
THEOREM HealthyDaysComplete == Spec => []HealthyMeansComplete
<1>1. EvidenceInv => HealthyMeansComplete
  <2> SUFFICES ASSUME CompleteInv, quality.status = "HEALTHY"
               PROVE  /\ 100 * Cardinality(Absent(quality.event)) < Cardinality(Symbols)
                      /\ Cardinality(Symbols) <= 100 => Absent(quality.event) = {}
    BY DEF EvidenceInv, HealthyMeansComplete
  <2>1. 100 * Cardinality(Absent(quality.event)) < Cardinality(Symbols)
    BY DEF CompleteInv
  <2>2. ASSUME Cardinality(Symbols) <= 100 PROVE Absent(quality.event) = {}
    <3>1. PICK m, n : m = Cardinality(Absent(quality.event)) /\ n = Cardinality(Symbols)
      OBVIOUS
    <3>2. m \in Nat /\ n \in Nat /\ 100 * m < n /\ n <= 100
      BY <2>1, <2>2, <3>1, AbsentFinite
    <3>3. m = 0
      BY <3>2
    <3> QED
      BY <3>1, <3>3, AbsentFinite, FS_EmptySet
  <2> QED
    BY <2>1, <2>2
<1> QED
  BY <1>1, EvidenceInvariant, PTL

\* Wherever runs, compactions and earlier synchronizations are interrupted, a
\* synchronization that completes lists no run without a file that has its last day.
THEOREM IndexedRunsCovered == Spec => IndexedRunsFiled
<1>1. EvidenceInv /\ [Next]_vars =>
        [SyncCheckpoints /\ ~sync.undone =>
          \A r \in RunIds : store.runs[r] \in MarketDays =>
              store.runs[r] \in DaysOf(IndexedRows \cup Archived)]_vars
  <2> SUFFICES ASSUME ShapeInv, FiledInv, SyncCheckpoints, ~sync.undone
               PROVE  Filed(IndexedRows \cup Archived)
    BY DEF EvidenceInv, Filed
  <2>1. sync.step = 4
    BY Steps DEF ShapeInv, SyncCheckpoints
  <2>2. sync.step > 2
    BY <2>1
  <2> QED
    BY <2>2 DEF FiledInv
<1> QED
  BY <1>1, EvidenceInvariant, PTL DEF Spec, IndexedRunsFiled

\* An undisturbed synchronization leaves all of the evidence in the index as it is,
\* whatever the ones before it left half done or stale.
THEOREM UndisturbedSyncCurrent == Spec => SyncedIndexCurrent
<1>1. EvidenceInv /\ [Next]_vars => [SyncCheckpoints /\ sync.quiet => Lists(store')]_vars
  <2> SUFFICES ASSUME ShapeInv, IndexInv, SyncCheckpoints, sync.quiet
               PROVE  Lists(store')
    BY DEF EvidenceInv
  <2>1. /\ store'.runs = store.runs /\ store'.versions = store.versions
        /\ store'.checks = store.checks /\ store'.findings = store.findings
        /\ store'.freshness = store.freshness /\ store'.checkpoint = checkpoint
    BY Stored
  <2>2. sync.step = 4
    BY Steps DEF ShapeInv, SyncCheckpoints
  <2>3. sync.step > 1 /\ sync.step > 2 /\ sync.step > 3
    BY <2>2
  <2>4. /\ store.runs = manifests /\ ListsAudits(store)
        /\ \A p \in Paths : files[p] # {} => store.versions[p] = files[p]
    BY <2>3 DEF IndexInv
  <2> QED
    BY <2>1, <2>4 DEF Lists, ListsAudits
<1> QED
  BY <1>1, EvidenceInvariant, PTL DEF Spec, SyncedIndexCurrent
=================================================================================
