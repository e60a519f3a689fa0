--------------------------- MODULE DatasetBuildsProofs ---------------------------
(***************************************************************************)
(* Theorems about DatasetBuilds.  No version of a file ever leaves the lake  *)
(* and its archives, so what a build has recorded can be found again; every  *)
(* row is in a final file or was moved away by a compaction that does not    *)
(* have it; and a catalog's paths keep their contents unless a name is used   *)
(* again.                                                                    *)
(***************************************************************************)
EXTENDS DatasetBuilds, FiniteSetTheorems, WellFoundedInduction, TLAPS

AllRows == UNION {RowsOf[p] : p \in Months}
Files == [name : Names, rows : SUBSET AllRows, version : 1 .. MaxFiles]
FilesOf(p) == [name : Names, rows : SUBSET RowsOf[p], version : 1 .. MaxFiles]
Parts == [month : Months, file : Files]

-----------------------------------------------------------------------------
(* The lake. *)

LakeTypes ==
    /\ live \in [Months -> SUBSET Files] /\ \A p \in Months : live[p] \subseteq FilesOf(p)
    /\ archive \in [CompactionIds ->
                       [month : Months \cup {0}, files : SUBSET Files, put : SUBSET AllRows]]
    /\ recorded \subseteq CompactionIds /\ locked \subseteq Months /\ away \subseteq Months

\* What a run is about to promote belongs to its month.
Landings ==
    /\ landing \in [RunIds -> [month : Months \cup {0}, rows : SUBSET AllRows]]
    /\ \A r \in RunIds : landing[r].month # 0 => landing[r].rows \subseteq RowsOf[landing[r].month]

\* An archive is of one month; what is recorded has an archive.
Archives ==
    \A i \in CompactionIds :
        \/ archive[i] = NoArchive /\ i \notin recorded
        \/ /\ archive[i].month \in Months /\ archive[i].files # {}
           /\ archive[i].files \subseteq FilesOf(archive[i].month)

NamesDiffer(files) == \A f, g \in files : f.name = g.name => f = g

OneFilePerPath ==
    /\ \A p \in Months : NamesDiffer(live[p])
    /\ \A i \in CompactionIds : NamesDiffer(archive[i].files)

\* The month of a compaction is locked; between its renames the archive has the
\* originals, and before and after them the month has files.
Swapping ==
    /\ swap \in [month : locked, id : CompactionIds, rows : SUBSET AllRows,
                 stage : {"copied", "promote", "record"}]
    /\ swap.id \notin recorded /\ swap.rows \subseteq RowsOf[swap.month]
    /\ swap.stage = "copied" => archive[swap.id] = NoArchive /\ live[swap.month] # {}
    /\ swap.stage # "copied" => archive[swap.id].month = swap.month /\ archive[swap.id].files # {}
    /\ swap.stage # "promote" => swap.month \notin away

\* A directory that is renamed away is locked.
AwayLocked == \A p \in away : live[p] = {} /\ p \in locked

\* Every row that ever landed is in a file of its month, or a compaction moved it away
\* and its own file does not have it.
NothingLost == \A p \in Months : RowsIn(Versions(p)) \subseteq RowsIn(live[p]) \cup Hidden(p)

\* A file has a compaction's name only once that compaction has been swapped in.
NamesFresh ==
    \A p \in Months : \A f \in Versions(p) :
        f.name \in CompactionIds =>
            archive[f.name] # NoArchive /\ ~(swap.stage = "promote" /\ swap.id = f.name)

LakeInv ==
    /\ LakeTypes /\ Landings /\ Archives /\ OneFilePerPath
    /\ (swap = NoSwap \/ Swapping)
    /\ AwayLocked /\ NothingLost /\ NamesFresh

-----------------------------------------------------------------------------
(* Builds, the one being recorded, and catalogs. *)

\* Every recorded file is still in the lake or in an archive.
Kept(parts) == \A item \in parts : item.file \in Versions(item.month)

BuildsInv ==
    /\ builds \in Seq(SUBSET Parts)
    /\ \A b \in Recorded : b # {} /\ Kept(b)

\* A row is in a part that was read, or will be in one when the rest has been read.
ToCome(p, x) ==
    \/ YearOf[p] \in builder.years \/ p \in builder.todo
    \/ \E f \in Versions(p) : <<p, f.name>> \in builder.unread /\ x \in f.rows
Covered(p, x) ==
    \/ \E item \in builder.parts : x \in item.file.rows
    \/ \E item \in builder.parts : item.month = p /\ Reused(p, item.file.name)

BuilderType ==
    [years : SUBSET Nat, todo : SUBSET Months, unread : SUBSET (Months \X Names),
     parts : SUBSET Parts, start : SUBSET AllRows, missing : SUBSET Months,
     hidden : SUBSET AllRows, on : BOOLEAN]

BuilderInv ==
    /\ builder \in BuilderType /\ builder.years \subseteq {YearOf[p] : p \in Months}
    /\ Kept(builder.parts)
    /\ builder.on =>
          \A p \in Months \ builder.missing : \A x \in RowsOf[p] \cap builder.start :
              /\ x \in RowsIn(Versions(p))
              /\ x \in builder.hidden \/ ToCome(p, x) \/ Covered(p, x)

\* The path is the declared one, or leads into a recorded archive that has the file.
Denotes(path, item) ==
    \E i \in CompactionIds \cup {0} :
        /\ path = <<item.month, item.file.name, i>>
        /\ i # 0 => i \in recorded /\ Named(archive[i].files, item.file.name) = {item.file}

Shows(paths, b) ==
    /\ \A path \in paths : \E item \in b : Denotes(path, item)
    /\ \A item \in b : \E path \in paths : Denotes(path, item)

\* No file has appeared under a declared path since the plan saw it.
Unchanged(b) == \A item \in b : Named(live[item.month], item.file.name) \subseteq {item.file}

PlanType ==
    plan \in [build : Recorded, fresh : BOOLEAN,
              paths : SUBSET (Months \X Names \X (CompactionIds \cup {0}))]

CatalogInv ==
    /\ DOMAIN catalog \subseteq Recorded
    /\ \A b \in DOMAIN catalog : Shows(catalog[b], b)
    /\ plan = NoPlan \/
          /\ PlanType
          /\ Shows(plan.paths, plan.build) /\ (plan.fresh => Unchanged(plan.build))

Inv == LakeInv /\ BuildsInv /\ BuilderInv /\ CatalogInv

-----------------------------------------------------------------------------
(* Files and their versions. *)

\* A finite set of numbers has a least and a greatest member.
LEMMA MinOf == ASSUME NEW S, IsFiniteSet(S), S \subseteq Nat, S # {} PROVE Min(S) \in S
<1> DEFINE UpTo(o) == {p \in S : p <= o}
           T == {UpTo(o) : o \in S}
<1>1. T \subseteq FiniteSubsetsOf(S) /\ T # {}
  <2>1. T \subseteq SUBSET S /\ T # {}
    OBVIOUS
  <2> QED
    BY <2>1, FS_FiniteSubsetsOfFinite
<1>2. IsWellFoundedOn(StrictSubsetOrdering(S), FiniteSubsetsOf(S))
  BY FS_StrictSubsetOrderingWellFounded
<1> HIDE DEF T
<1>3. PICK least \in T : \A other \in T : <<other, least>> \notin StrictSubsetOrdering(S)
  BY <1>1, <1>2, WFMin
<1>4. PICK o \in S : least = UpTo(o)
  BY <1>3 DEF T
<1>5. ASSUME NEW p \in S, p < o PROVE FALSE
  <2>1. UpTo(p) \subseteq UpTo(o) /\ UpTo(p) # UpTo(o)
    <3>1. \A q \in S : q <= p => q <= o
      BY <1>5
    <3>2. o \in UpTo(o) /\ o \notin UpTo(p)
      BY <1>5
    <3> QED
      BY <3>1, <3>2
  <2>2. <<UpTo(p), UpTo(o)>> \in StrictSubsetOrdering(S)
    BY <2>1 DEF StrictSubsetOrdering
  <2>3. UpTo(p) \in T
    BY DEF T
  <2> QED
    BY <1>3, <1>4, <2>2, <2>3
<1>6. \A p \in S : o <= p
  BY <1>5
<1> QED
  BY <1>6 DEF Min

LEMMA MaxOf == ASSUME NEW S, IsFiniteSet(S), S \subseteq Nat, S # {} PROVE Max(S) \in S
<1> DEFINE From(o) == {p \in S : p >= o}
           T == {From(o) : o \in S}
<1>1. T \subseteq FiniteSubsetsOf(S) /\ T # {}
  <2>1. T \subseteq SUBSET S /\ T # {}
    OBVIOUS
  <2> QED
    BY <2>1, FS_FiniteSubsetsOfFinite
<1>2. IsWellFoundedOn(StrictSubsetOrdering(S), FiniteSubsetsOf(S))
  BY FS_StrictSubsetOrderingWellFounded
<1> HIDE DEF T
<1>3. PICK least \in T : \A other \in T : <<other, least>> \notin StrictSubsetOrdering(S)
  BY <1>1, <1>2, WFMin
<1>4. PICK o \in S : least = From(o)
  BY <1>3 DEF T
<1>5. ASSUME NEW p \in S, p > o PROVE FALSE
  <2>1. From(p) \subseteq From(o) /\ From(p) # From(o)
    <3>1. \A q \in S : q >= p => q >= o
      BY <1>5
    <3>2. o \in From(o) /\ o \notin From(p)
      BY <1>5
    <3> QED
      BY <3>1, <3>2
  <2>2. <<From(p), From(o)>> \in StrictSubsetOrdering(S)
    BY <2>1 DEF StrictSubsetOrdering
  <2>3. From(p) \in T
    BY DEF T
  <2> QED
    BY <1>3, <1>4, <2>2, <2>3
<1>6. \A p \in S : o >= p
  BY <1>5
<1> QED
  BY <1>6 DEF Max

LEMMA VersionOf ==
  ASSUME NEW p, NEW f
  PROVE  /\ f \in Versions(p) <=> \/ f \in live[p]
                                  \/ \E i \in CompactionIds :
                                        archive[i].month = p /\ f \in archive[i].files
         /\ f \in Versions(p)' <=> \/ f \in live'[p]
                                   \/ \E i \in CompactionIds :
                                         archive'[i].month = p /\ f \in archive'[i].files
  BY DEF Versions, ArchivesOf

LEMMA HiddenRow ==
  ASSUME NEW p, NEW x
  PROVE  /\ x \in Hidden(p) <=> \E i \in CompactionIds :
                                   /\ archive[i].month = p /\ x \notin archive[i].put
                                   /\ \E f \in archive[i].files : x \in f.rows
         /\ x \in Hidden(p)' <=> \E i \in CompactionIds :
                                   /\ archive'[i].month = p /\ x \notin archive'[i].put
                                   /\ \E f \in archive'[i].files : x \in f.rows
  BY DEF Hidden, ArchivesOf, RowsIn

LEMMA FileType ==
  ASSUME LakeTypes, Archives, NEW p \in Months, NEW f \in Versions(p)
  PROVE  f \in FilesOf(p) /\ f \in Files /\ f.name \in Names
<1>1. f \in FilesOf(p)
  BY VersionOf DEF LakeTypes, Archives, NoArchive
<1> QED
  BY <1>1 DEF FilesOf, Files, AllRows

-----------------------------------------------------------------------------
(* Steps of the lake. *)

\* What every step of the lake does to the versions of a month.
Grows == \A p \in Months : Versions(p) \subseteq Versions(p)'

\* Steps that move no file.
LEMMA SameFiles ==
  ASSUME LakeInv, UNCHANGED <<live, archive>>
  PROVE  /\ OneFilePerPath' /\ NothingLost' /\ Grows
         /\ \A p \in Months : Versions(p)' = Versions(p)
<1>1. \A p \in Months : Versions(p)' = Versions(p) /\ Hidden(p)' = Hidden(p)
  BY DEF Versions, ArchivesOf, Hidden
<1> QED
  BY <1>1 DEF LakeInv, OneFilePerPath, NothingLost, Grows

LEMMA LookLake ==
  ASSUME LakeInv, NEW r \in RunIds, GiveUp(r) \/ \E p \in Months : Look(r, p) \/ SeeLock(r, p)
  PROVE  LakeInv' /\ Grows
<1>1. /\ UNCHANGED <<live, archives>> /\ away' \subseteq away
  BY DEF Look, SeeLock, GiveUp, partitions
<1>2. Landings'
  <2>1. ASSUME NEW p \in Months, Look(r, p) PROVE Landings'
    <3>1. PICK x \in RowsOf[p] : landing' = [landing EXCEPT ![r] = [month |-> p, rows |-> {x}]]
      BY <2>1 DEF Look
    <3>2. {x} \in SUBSET AllRows
      BY DEF AllRows
    <3> QED
      BY <3>1, <3>2 DEF LakeInv, Landings
  <2>2. ASSUME NEW p \in Months, SeeLock(r, p) PROVE Landings'
    BY <2>2 DEF SeeLock, LakeInv, Landings
  <2>3. CASE GiveUp(r)
    BY <2>3 DEF GiveUp, LakeInv, Landings, NoLanding
  <2> QED
    BY <2>1, <2>2, <2>3
<1>3. LakeTypes' /\ Archives' /\ (swap = NoSwap \/ Swapping)' /\ AwayLocked'
  BY <1>1 DEF archives, LakeInv, LakeTypes, Archives, Swapping, AwayLocked
<1>4. OneFilePerPath' /\ NothingLost' /\ Grows /\ \A q \in Months : Versions(q)' = Versions(q)
  BY <1>1, SameFiles DEF archives
<1>5. NamesFresh'
  BY <1>1, <1>4 DEF archives, LakeInv, NamesFresh
<1> QED
  BY <1>2, <1>3, <1>4, <1>5 DEF LakeInv

\* A month gets a file of a run.
LEMMA PromoteFile ==
  ASSUME LakeInv, NEW r \in RunIds, Promote(r)
  PROVE  \E p \in Months, f \in Files :
            /\ f \in FilesOf(p) /\ p = landing[r].month /\ p \notin away /\ f.name = r
            /\ Named(live[p], r) = {}
            /\ \A q \in Months : live'[q] = IF q = p THEN live[p] \cup {f} ELSE live[q]
            /\ live' \in [Months -> SUBSET Files]
<1>1. PICK p \in Months : p = landing[r].month
  BY DEF Promote, LakeInv, Landings
<1>2. p \notin away /\ Named(live[p], r) = {} /\ landing[r].rows \subseteq RowsOf[p]
  BY <1>1 DEF Promote, LakeInv, Landings
<1>3. PICK v \in 1 .. MaxFiles :
         live' = [live EXCEPT ![p] = @ \cup {File(r, landing[r].rows, v)}]
  BY <1>1 DEF Promote
<1>4. PICK f : f = File(r, landing[r].rows, v)
  OBVIOUS
<1>5. f \in FilesOf(p) /\ f \in Files /\ f.name = r
  BY <1>2, <1>4 DEF File, FilesOf, Files, Names, AllRows
<1>6. /\ \A q \in Months : live'[q] = IF q = p THEN live[p] \cup {f} ELSE live[q]
      /\ live' \in [Months -> SUBSET Files]
  BY <1>3, <1>4, <1>5 DEF LakeInv, LakeTypes
<1> QED
  BY <1>1, <1>2, <1>5, <1>6

LEMMA PromoteLake ==
  ASSUME LakeInv, NEW r \in RunIds, Promote(r)
  PROVE  LakeInv' /\ Grows
<1>1. PICK p \in Months, f \in Files :
         /\ f \in FilesOf(p) /\ p = landing[r].month /\ p \notin away /\ f.name = r
         /\ Named(live[p], r) = {}
         /\ \A q \in Months : live'[q] = IF q = p THEN live[p] \cup {f} ELSE live[q]
         /\ live' \in [Months -> SUBSET Files]
  BY PromoteFile, Zenon
<1>2. /\ UNCHANGED <<away, archives>> /\ landing' = [landing EXCEPT ![r] = NoLanding]
      /\ r \notin CompactionIds
  BY NamesAssumption DEF Promote
<1>3. LakeTypes' /\ Archives' /\ Landings'
  BY <1>1, <1>2 DEF LakeInv, LakeTypes, Archives, Landings, NoLanding, archives
<1>4. OneFilePerPath'
  BY <1>1, <1>2 DEF LakeInv, OneFilePerPath, NamesDiffer, Named, archives
<1>5. AwayLocked' /\ (swap = NoSwap \/ Swapping)'
  BY <1>1, <1>2 DEF LakeInv, AwayLocked, Swapping, archives, LakeTypes
<1>6. \A q \in Months : \A g : g \in Versions(q)' <=> g \in Versions(q) \/ (q = p /\ g = f)
  BY <1>1, <1>2, VersionOf DEF archives
<1>7. NothingLost'
  <2> SUFFICES ASSUME NEW q \in Months, NEW g \in Versions(q)', NEW x \in g.rows
               PROVE  x \in RowsIn(live'[q]) \/ x \in Hidden(q)'
    BY DEF NothingLost, RowsIn
  <2>1. Hidden(q)' = Hidden(q)
    BY <1>2 DEF Hidden, ArchivesOf, archives
  <2>2. RowsIn(live[q]) \subseteq RowsIn(live'[q])
    BY <1>1 DEF RowsIn
  <2>3. CASE g \in Versions(q)
    BY <2>1, <2>2, <2>3 DEF LakeInv, NothingLost, RowsIn
  <2>4. CASE q = p /\ g = f
    BY <1>1, <2>4 DEF RowsIn
  <2> QED
    BY <1>6, <2>3, <2>4
<1>8. NamesFresh'
  BY <1>1, <1>2, <1>6 DEF LakeInv, NamesFresh, archives
<1>9. Grows
  BY <1>6 DEF Grows
<1> QED
  BY <1>3, <1>4, <1>5, <1>7, <1>8, <1>9 DEF LakeInv

LEMMA CopyLake ==
  ASSUME LakeInv, NEW p \in Months, NEW i \in CompactionIds, Copy(p, i)
  PROVE  LakeInv' /\ Grows
<1>1. /\ p \notin locked /\ archive[i] = NoArchive /\ live[p] # {}
      /\ UNCHANGED <<live, away, landing, archive, recorded>>
      /\ locked' = locked \cup {p}
      /\ swap' = [month |-> p, id |-> i, rows |-> RowsIn(live[p]), stage |-> "copied"]
  BY FS_EmptySet DEF Copy, LockedWith, partitions
<1>2. RowsIn(live[p]) \subseteq RowsOf[p] /\ RowsOf[p] \subseteq AllRows
  BY DEF LakeInv, LakeTypes, RowsIn, FilesOf, AllRows
<1>3. p \notin away /\ i \notin recorded
  BY <1>1 DEF LakeInv, AwayLocked, Archives, NoArchive
<1>4. Swapping'
  <2> DEFINE rows == RowsIn(live[p])
  <2>1. rows \in SUBSET AllRows /\ rows \subseteq RowsOf[p]
    BY <1>2
  <2> HIDE DEF rows
  <2>2. swap' = [month |-> p, id |-> i, rows |-> rows, stage |-> "copied"]
    BY <1>1 DEF rows
  <2> QED
    BY <1>1, <1>3, <2>1, <2>2 DEF Swapping
<1>5. LakeTypes' /\ Landings' /\ Archives' /\ AwayLocked'
  BY <1>1 DEF LakeInv, LakeTypes, Landings, Archives, AwayLocked
<1>6. OneFilePerPath' /\ NothingLost' /\ Grows /\ \A q \in Months : Versions(q)' = Versions(q)
  BY <1>1, SameFiles
<1>7. NamesFresh'
  BY <1>1, <1>6 DEF LakeInv, NamesFresh
<1> QED
  BY <1>4, <1>5, <1>6, <1>7 DEF LakeInv

\* A compaction in progress, and what it leaves alone.
LEMMA SwapType ==
  ASSUME LakeInv, swap # NoSwap
  PROVE  /\ Swapping /\ swap.month \in Months /\ swap.month \in locked
         /\ swap.id \in CompactionIds /\ swap.id \in Names /\ swap.id \notin recorded
         /\ swap.stage # "copied" =>
               /\ archive[swap.id].files \subseteq FilesOf(swap.month)
               /\ archive[swap.id].files # {} /\ archive[swap.id].month = swap.month
               /\ archive[swap.id] # NoArchive /\ swap.id \in ArchivesOf(swap.month)
  BY DEF LakeInv, LakeTypes, Swapping, Archives, NoArchive, Names, ArchivesOf

LEMMA MoveLake ==
  ASSUME LakeInv, MoveToArchive
  PROVE  LakeInv' /\ Grows
<1> DEFINE p == swap.month
           i == swap.id
<1>1. swap # NoSwap /\ swap.stage = "copied"
  BY DEF MoveToArchive, NoSwap
<1>2. /\ archive' = [archive EXCEPT ![i] = [month |-> p, files |-> live[p], put |-> {}]]
      /\ live' = [live EXCEPT ![p] = {}] /\ away' = away \cup {p}
      /\ swap' = [swap EXCEPT !.stage = "promote"]
      /\ UNCHANGED <<landing, recorded, locked>>
  BY DEF MoveToArchive
<1>3. /\ Swapping /\ p \in Months /\ p \in locked /\ i \in CompactionIds /\ i \notin recorded
      /\ archive[i] = NoArchive /\ live[p] # {} /\ swap.rows \subseteq RowsOf[p]
  BY <1>1, SwapType DEF Swapping
<1>4. /\ swap'.month = p /\ swap'.id = i /\ swap'.stage = "promote" /\ swap'.rows = swap.rows
      /\ swap' \in [month : locked, id : CompactionIds, rows : SUBSET AllRows,
                    stage : {"copied", "promote", "record"}]
  BY <1>2, <1>3 DEF Swapping
<1> HIDE DEF p, i
<1>5. \A q \in Months : live'[q] = IF q = p THEN {} ELSE live[q]
  BY <1>2 DEF LakeInv, LakeTypes
<1>6. \A k \in CompactionIds :
         archive'[k] = IF k = i THEN [month |-> p, files |-> live[p], put |-> {}] ELSE archive[k]
  BY <1>2 DEF LakeInv, LakeTypes
<1>7. live[p] \subseteq FilesOf(p) /\ live[p] \subseteq Files /\ archive[i].files = {}
  BY <1>3 DEF LakeInv, LakeTypes, NoArchive
<1>8. LakeTypes' /\ Landings'
  BY <1>2, <1>3, <1>5, <1>7 DEF LakeInv, LakeTypes, Landings
<1>9. Archives'
  BY <1>2, <1>3, <1>6, <1>7 DEF LakeInv, Archives
<1>10. OneFilePerPath'
  BY <1>3, <1>5, <1>6 DEF LakeInv, OneFilePerPath, NamesDiffer
<1>11. Swapping' /\ AwayLocked'
  BY <1>2, <1>3, <1>4, <1>5, <1>6 DEF Swapping, LakeInv, AwayLocked, LakeTypes
<1>12. ASSUME NEW q \in Months, NEW f PROVE f \in Versions(q)' <=> f \in Versions(q)
  <2> DEFINE Elsewhere == \E k \in CompactionIds \ {i} :
                              archive[k].month = q /\ f \in archive[k].files
  <2>1. f \in Versions(q) <=> f \in live[q] \/ Elsewhere
    BY <1>7, VersionOf
  <2>2. f \in Versions(q)' <=> f \in live'[q] \/ (q = p /\ f \in live[p]) \/ Elsewhere
    BY <1>3, <1>6, VersionOf
  <2> QED
    BY <1>5, <2>1, <2>2
<1>13. NothingLost'
  <2> SUFFICES ASSUME NEW q \in Months, NEW x \in RowsIn(Versions(q))'
               PROVE  x \in RowsIn(live'[q]) \/ x \in Hidden(q)'
    BY DEF NothingLost
  <2>1. x \in RowsIn(live[q]) \/ x \in Hidden(q)
    BY <1>12 DEF LakeInv, NothingLost, RowsIn
  <2>2. CASE x \in RowsIn(live[q]) /\ q # p
    BY <1>5, <2>2
  <2>3. CASE x \in RowsIn(live[q]) /\ q = p
    <3>1. \E f \in archive'[i].files : x \in f.rows
      BY <1>3, <1>6, <2>3 DEF RowsIn
    <3> QED
      BY <1>3, <1>6, <2>3, <3>1, HiddenRow
  <2>4. CASE x \in Hidden(q)
    <3>1. PICK k \in CompactionIds : /\ archive[k].month = q /\ x \notin archive[k].put
                                     /\ \E f \in archive[k].files : x \in f.rows
      BY <2>4, HiddenRow
    <3>2. archive'[k] = archive[k]
      BY <1>6, <1>7, <3>1
    <3> QED
      BY <3>1, <3>2, HiddenRow
  <2> QED
    BY <2>1, <2>2, <2>3, <2>4
<1>14. NamesFresh'
  BY <1>3, <1>4, <1>6, <1>12 DEF LakeInv, NamesFresh, NoArchive
<1> QED
  BY <1>8, <1>9, <1>10, <1>11, <1>12, <1>13, <1>14 DEF LakeInv, Grows

LEMMA SwapInLake ==
  ASSUME LakeInv, SwapIn
  PROVE  LakeInv' /\ Grows
<1> DEFINE p == swap.month
           i == swap.id
           new == File(i, swap.rows, 1)
<1>1. swap # NoSwap /\ swap.stage = "promote" /\ live[p] = {}
  BY DEF SwapIn, NoSwap
<1>2. /\ live' = [live EXCEPT ![p] = {new}] /\ away' = away \ {p}
      /\ archive' = [archive EXCEPT ![i].put = swap.rows]
      /\ swap' = [swap EXCEPT !.stage = "record"]
      /\ UNCHANGED <<landing, recorded, locked>>
  BY DEF SwapIn
<1>3. /\ Swapping /\ p \in Months /\ p \in locked /\ i \in CompactionIds /\ i \in Names
      /\ archive[i].files \subseteq FilesOf(p) /\ archive[i].files # {} /\ archive[i] # NoArchive
      /\ archive[i].month = p /\ i \notin recorded
      /\ swap.rows \subseteq RowsOf[p] /\ swap.rows \in SUBSET AllRows
  BY <1>1, SwapType DEF Swapping
<1>4. new \in FilesOf(p) /\ new \in Files /\ new.name = i /\ new.rows = swap.rows
  <2>1. 1 \in 1 .. MaxFiles
    <3>1. PICK f \in archive[i].files : f \in FilesOf(p)
      BY <1>3
    <3> QED
      BY <3>1, BuildBounds DEF FilesOf
  <2> QED
    BY <1>3, <2>1 DEF File, FilesOf, Files
<1>5. /\ swap'.month = p /\ swap'.id = i /\ swap'.stage = "record" /\ swap'.rows = swap.rows
      /\ swap' \in [month : locked, id : CompactionIds, rows : SUBSET AllRows,
                    stage : {"copied", "promote", "record"}]
  BY <1>2, <1>3 DEF Swapping
<1> HIDE DEF p, i, new
<1>6. \A q \in Months : live'[q] = IF q = p THEN {new} ELSE live[q]
  BY <1>2 DEF LakeInv, LakeTypes
<1>7. \A k \in CompactionIds :
         /\ archive'[k].month = archive[k].month /\ archive'[k].files = archive[k].files
         /\ k # i => archive'[k] = archive[k]
  BY <1>2 DEF LakeInv, LakeTypes
<1>8. archive'[i].put = swap.rows
  BY <1>2, <1>3 DEF LakeInv, LakeTypes
<1>9. LakeTypes' /\ Landings'
  BY <1>2, <1>3, <1>4, <1>6 DEF LakeInv, LakeTypes, Landings
<1>10. Archives'
  BY <1>2, <1>3, <1>7 DEF LakeInv, Archives
<1>11. OneFilePerPath'
  BY <1>6, <1>7 DEF LakeInv, OneFilePerPath, NamesDiffer
<1>12. Swapping' /\ AwayLocked'
  BY <1>2, <1>3, <1>5, <1>6, <1>7 DEF Swapping, LakeInv, AwayLocked, LakeTypes
<1>13. \A q \in Months : \A f : f \in Versions(q)' <=> f \in Versions(q) \/ (q = p /\ f = new)
  BY <1>1, <1>6, <1>7, VersionOf DEF p
<1>14. NothingLost'
  <2> SUFFICES ASSUME NEW q \in Months, NEW f \in Versions(q)', NEW x \in f.rows
               PROVE  x \in RowsIn(live'[q]) \/ x \in Hidden(q)'
    BY DEF NothingLost, RowsIn
  <2>1. CASE q = p /\ f = new
    BY <1>6, <2>1 DEF RowsIn
  <2>2. CASE f \in Versions(q) /\ x \in RowsIn(live[q])
    BY <1>1, <1>6, <2>2 DEF RowsIn, p
  <2>3. CASE f \in Versions(q) /\ x \in Hidden(q)
    <3>1. PICK k \in CompactionIds : /\ archive[k].month = q /\ x \notin archive[k].put
                                     /\ \E g \in archive[k].files : x \in g.rows
      BY <2>3, HiddenRow
    <3>2. CASE k = i /\ x \in swap.rows
      BY <1>3, <1>4, <1>6, <3>1, <3>2 DEF RowsIn
    <3>3. CASE k # i \/ x \notin swap.rows
      BY <1>7, <1>8, <3>1, <3>3, HiddenRow
    <3> QED
      BY <3>2, <3>3
  <2>4. f \in Versions(q) => x \in RowsIn(live[q]) \/ x \in Hidden(q)
    BY DEF LakeInv, NothingLost, RowsIn
  <2> QED
    BY <1>13, <2>1, <2>2, <2>3, <2>4
<1>15. NamesFresh'
  <2>1. \A k \in CompactionIds : archive[k] # NoArchive => archive'[k] # NoArchive
    BY <1>3, <1>7 DEF NoArchive
  <2> QED
    BY <1>3, <1>4, <1>5, <1>13, <2>1 DEF LakeInv, NamesFresh
<1> QED
  BY <1>9, <1>10, <1>11, <1>12, <1>13, <1>14, <1>15 DEF LakeInv, Grows

LEMMA PutBackLake ==
  ASSUME LakeInv, PutBack
  PROVE  LakeInv' /\ Grows
<1> DEFINE p == swap.month
           i == swap.id
<1>1. swap # NoSwap /\ swap.stage = "promote" /\ live[p] = {}
  BY DEF PutBack, NoSwap
<1>2. /\ live' = [live EXCEPT ![p] = archive[i].files] /\ away' = away \ {p}
      /\ archive' = [archive EXCEPT ![i] = NoArchive]
      /\ swap' = NoSwap /\ locked' = locked \ {p} /\ UNCHANGED <<landing, recorded>>
  BY DEF PutBack
<1>3. /\ p \in Months /\ i \in CompactionIds /\ i \notin recorded
      /\ archive[i].files \subseteq FilesOf(p) /\ archive[i].files # {} /\ archive[i].month = p
      /\ archive[i].files \subseteq Files
  BY <1>1, SwapType DEF Swapping, LakeInv, LakeTypes
<1> HIDE DEF p, i
<1>4. \A q \in Months : live'[q] = IF q = p THEN archive[i].files ELSE live[q]
  BY <1>2 DEF LakeInv, LakeTypes
<1>5. \A k \in CompactionIds : archive'[k] = IF k = i THEN NoArchive ELSE archive[k]
  BY <1>2 DEF LakeInv, LakeTypes
<1>6. LakeTypes' /\ Landings'
  BY <1>2, <1>3, <1>4 DEF LakeInv, LakeTypes, NoArchive, Landings
<1>7. Archives'
  BY <1>2, <1>3, <1>5 DEF LakeInv, Archives
<1>8. OneFilePerPath'
  <2>1. NamesDiffer(archive[i].files) /\ NamesDiffer(NoArchive.files)
    BY <1>3 DEF LakeInv, OneFilePerPath, NamesDiffer, NoArchive
  <2> QED
    BY <1>4, <1>5, <2>1 DEF LakeInv, OneFilePerPath
<1>9. AwayLocked'
  BY <1>2, <1>4 DEF LakeInv, AwayLocked, LakeTypes
<1>10. ASSUME NEW q \in Months, NEW f PROVE f \in Versions(q)' <=> f \in Versions(q)
  <2> DEFINE Elsewhere == \E k \in CompactionIds \ {i} :
                              archive[k].month = q /\ f \in archive[k].files
  <2>1. f \in Versions(q) <=> f \in live[q] \/ (q = p /\ f \in archive[i].files) \/ Elsewhere
    BY <1>3, VersionOf
  <2>2. f \in Versions(q)' <=> f \in live'[q] \/ Elsewhere
    BY <1>5, VersionOf DEF NoArchive
  <2> QED
    BY <1>1, <1>3, <1>4, <2>1, <2>2 DEF p
<1>11. NothingLost'
  <2> SUFFICES ASSUME NEW q \in Months, NEW x \in RowsIn(Versions(q))'
               PROVE  x \in RowsIn(live'[q]) \/ x \in Hidden(q)'
    BY DEF NothingLost
  <2>1. x \in RowsIn(live[q]) \/ x \in Hidden(q)
    BY <1>10 DEF LakeInv, NothingLost, RowsIn
  <2>2. CASE x \in RowsIn(live[q])
    BY <1>1, <1>4, <2>2 DEF RowsIn, p
  <2>3. CASE x \in Hidden(q)
    <3>1. PICK k \in CompactionIds : /\ archive[k].month = q /\ x \notin archive[k].put
                                     /\ \E f \in archive[k].files : x \in f.rows
      BY <2>3, HiddenRow
    <3>2. CASE k = i
      BY <1>3, <1>4, <3>1, <3>2 DEF RowsIn
    <3>3. CASE k # i
      BY <1>5, <3>1, <3>3, HiddenRow
    <3> QED
      BY <3>2, <3>3
  <2> QED
    BY <2>1, <2>2, <2>3
<1>12. NamesFresh'
  <2>1. swap'.stage # "promote"
    BY <1>2 DEF NoSwap
  <2>2. \A q \in Months : \A f \in Versions(q) : f.name # i
    BY <1>1, <1>3 DEF LakeInv, NamesFresh, i
  <2> QED
    BY <1>5, <1>10, <2>1, <2>2 DEF LakeInv, NamesFresh
<1> QED
  BY <1>2, <1>6, <1>7, <1>8, <1>9, <1>10, <1>11, <1>12 DEF LakeInv, Grows

\* The compaction ends, or is killed, without another rename.
LEMMA EndSwapLake ==
  ASSUME LakeInv, Refuse \/ Strand \/ Record \/ KillCompactor
  PROVE  LakeInv' /\ Grows
<1>1. /\ swap # NoSwap /\ swap' = NoSwap /\ UNCHANGED <<live, away, landing, archive>>
      /\ recorded' = recorded \/ (swap.stage = "record" /\ recorded' = recorded \cup {swap.id})
      /\ locked' = locked \/ (swap.month \notin away /\ locked' = locked \ {swap.month})
  <2>1. swap # NoSwap /\ UNCHANGED <<live, away, landing, archive>> /\ swap' = NoSwap
    BY DEF Refuse, Strand, Record, KillCompactor, NoSwap, partitions
  <2>2. swap.stage # "promote" => swap.month \notin away
    BY <2>1, SwapType DEF Swapping
  <2> QED
    BY <2>1, <2>2 DEF Refuse, Strand, Record, KillCompactor
<1>2. LakeTypes' /\ Landings' /\ AwayLocked'
  BY <1>1, SwapType DEF LakeInv, LakeTypes, Landings, AwayLocked
<1>3. Archives'
  BY <1>1, SwapType DEF LakeInv, Archives
<1>4. OneFilePerPath' /\ NothingLost' /\ Grows /\ \A q \in Months : Versions(q)' = Versions(q)
  BY <1>1, SameFiles
<1>5. NamesFresh'
  BY <1>1, <1>4 DEF LakeInv, NamesFresh, NoSwap
<1> QED
  BY <1>1, <1>2, <1>3, <1>4, <1>5 DEF LakeInv

LakeNext == Compactor \/ \E r \in RunIds : Run(r)

LEMMA LakeStep ==
  ASSUME LakeInv, LakeNext
  PROVE  LakeInv' /\ Grows
<1>1. CASE Compactor
  BY <1>1, CopyLake, MoveLake, SwapInLake, PutBackLake, EndSwapLake DEF Compactor
<1>2. CASE \E r \in RunIds : Run(r)
  <2>1. PICK r \in RunIds : Run(r)
    BY <1>2
  <2>2. CASE Promote(r)
    BY <2>2, PromoteLake
  <2>3. CASE GiveUp(r) \/ \E p \in Months : Look(r, p) \/ SeeLock(r, p)
    BY <2>3, LookLake
  <2> QED
    BY <2>1, <2>2, <2>3 DEF Run
<1> QED
  BY <1>1, <1>2 DEF LakeNext

\* The archives of recorded compactions are never touched again.
ArchivesStay == recorded \subseteq recorded' /\ \A i \in recorded : archive'[i] = archive[i]

LEMMA LakeFrame ==
  ASSUME LakeInv, LakeNext
  PROVE  ArchivesStay /\ UNCHANGED <<builds, builder, catalog>>
<1>1. CASE \E r \in RunIds : Run(r)
  BY <1>1 DEF Run, Look, SeeLock, Promote, GiveUp, archives, ArchivesStay
<1>2. CASE \E p \in Months, i \in CompactionIds : Copy(p, i)
  BY <1>2 DEF Copy, ArchivesStay
<1>3. CASE Refuse \/ Strand \/ Record \/ KillCompactor
  BY <1>3 DEF Refuse, Strand, Record, KillCompactor, ArchivesStay
<1>4. CASE MoveToArchive \/ SwapIn \/ PutBack
  <2>1. swap # NoSwap /\ swap.id \notin recorded
    BY <1>4, SwapType DEF MoveToArchive, SwapIn, PutBack, NoSwap
  <2>2. recorded' = recorded /\ \A i \in recorded : archive'[i] = archive[i]
    BY <1>4, <2>1 DEF MoveToArchive, SwapIn, PutBack, LakeInv, LakeTypes
  <2> QED
    BY <1>4, <2>2 DEF MoveToArchive, SwapIn, PutBack, ArchivesStay
<1> QED
  BY <1>1, <1>2, <1>3, <1>4 DEF LakeNext, Compactor

\* What is known of a build or of one being recorded survives a growing lake.
LEMMA GrownBuilds ==
  ASSUME Grows, BuildsInv, BuilderInv, UNCHANGED <<builds, builder>>
  PROVE  BuildsInv' /\ BuilderInv'
<1>1. BuildsInv'
  BY DEF Grows, BuildsInv, Kept, Recorded, Parts
<1>2. Kept(builder.parts)'
  BY DEF Grows, BuilderInv, BuilderType, Kept, Parts
<1>3. ASSUME builder.on, NEW p \in Months \ builder.missing, NEW x \in RowsOf[p] \cap builder.start
      PROVE  x \in RowsIn(Versions(p))' /\ (x \in builder.hidden \/ ToCome(p, x)' \/ Covered(p, x)')
  <2>1. x \in RowsIn(Versions(p)) /\ (x \in builder.hidden \/ ToCome(p, x) \/ Covered(p, x))
    BY <1>3 DEF BuilderInv
  <2>2. x \in RowsIn(Versions(p))'
    BY <2>1 DEF Grows, RowsIn
  <2>3. ToCome(p, x) => ToCome(p, x)'
    BY DEF Grows, ToCome
  <2>4. Covered(p, x) => Covered(p, x)'
    BY DEF Grows, Covered, Reused, Named
  <2> QED
    BY <2>1, <2>2, <2>3, <2>4
<1> QED
  BY <1>1, <1>2, <1>3 DEF BuilderInv

\* A path leads where it led.
LEMMA DenotesStays ==
  ASSUME ArchivesStay, NEW path, NEW item, Denotes(path, item)
  PROVE  Denotes(path, item)'
  BY DEF ArchivesStay, Denotes, Named

LEMMA ShowsStays ==
  ASSUME ArchivesStay, NEW paths, NEW b, Shows(paths, b)
  PROVE  Shows(paths, b)'
  BY DenotesStays DEF Shows

LEMMA OvertakenPlan ==
  ASSUME plan = NoPlan \/ PlanType, NEW p, NEW names, plan' = Overtaken(p, names),
         UNCHANGED builds
  PROVE  /\ plan = NoPlan => plan' = NoPlan
         /\ PlanType => PlanType'
         /\ plan'.build = plan.build /\ plan'.paths = plan.paths
         /\ plan'.fresh => /\ plan.fresh
                           /\ \A item \in plan.build : item.month = p => item.file.name \notin names
<1> DEFINE Free == \A item \in plan.build : item.month = p => item.file.name \notin names
<1>1. PICK fresh : fresh = (plan.fresh /\ Free)
  OBVIOUS
<1>2. plan' = [plan EXCEPT !.fresh = fresh]
  BY <1>1 DEF Overtaken
<1>3. fresh \in BOOLEAN /\ (fresh => plan.fresh /\ Free)
  BY <1>1, Zenon
<1>4. plan.fresh = FALSE => fresh = FALSE
  BY <1>1, Zenon
<1>5. ASSUME plan = NoPlan PROVE plan' = NoPlan
  <2>1. NoPlan.fresh = FALSE
    BY DEF NoPlan
  <2>2. plan' = [NoPlan EXCEPT !.fresh = FALSE]
    BY <1>2, <1>4, <1>5, <2>1
  <2> QED
    BY <2>2 DEF NoPlan
<1>6. PlanType => PlanType'
  BY <1>2, <1>3 DEF PlanType, Recorded
<1>7. plan'.build = plan.build /\ plan'.paths = plan.paths /\ plan'.fresh = fresh
  BY <1>2 DEF PlanType, NoPlan
<1> QED
  BY <1>3, <1>5, <1>6, <1>7

\* Where nothing has appeared since the plan, nothing appears unless it says so.
LEMMA UnchangedStays ==
  ASSUME LakeInv, BuildsInv, plan = NoPlan \/ PlanType, plan.fresh => Unchanged(plan.build), LakeNext
  PROVE  /\ plan = NoPlan => plan' = NoPlan
         /\ PlanType => PlanType'
         /\ plan'.build = plan.build /\ plan'.paths = plan.paths
         /\ plan'.fresh => Unchanged(plan.build)'
<1>1. UNCHANGED builds
  BY LakeFrame
<1>2. PICK b : b = plan.build
  OBVIOUS
<1>3. \A item \in b :
         /\ item.month \in Months /\ item.file.name \in Names
         /\ item.file \in Versions(item.month)
  BY <1>2 DEF PlanType, NoPlan, BuildsInv, Recorded, Kept, Parts, Files
<1>4. CASE \E r \in RunIds : Promote(r)
  <2>1. PICK r \in RunIds : Promote(r)
    BY <1>4
  <2>2. PICK p \in Months, f \in Files :
           /\ f \in FilesOf(p) /\ p = landing[r].month /\ p \notin away /\ f.name = r
           /\ Named(live[p], r) = {}
           /\ \A q \in Months : live'[q] = IF q = p THEN live[p] \cup {f} ELSE live[q]
           /\ live' \in [Months -> SUBSET Files]
    BY <2>1, PromoteFile, Zenon
  <2>3. plan' = Overtaken(p, {r})
    BY <2>1, <2>2 DEF Promote
  <2>4. \A q \in Months, n \in Names :
           q # p \/ n # r => Named(live'[q], n) = Named(live[q], n)
    BY <2>2 DEF Named
  <2>5. /\ plan = NoPlan => plan' = NoPlan
        /\ PlanType => PlanType'
        /\ plan'.build = b /\ plan'.paths = plan.paths
        /\ plan'.fresh => plan.fresh /\ \A item \in b : item.month = p => item.file.name \notin {r}
    BY <1>1, <1>2, <2>3, OvertakenPlan
  <2>6. plan'.fresh => Unchanged(b)'
    BY <1>2, <1>3, <2>4, <2>5 DEF Unchanged
  <2> QED
    BY <1>2, <2>5, <2>6
<1>5. CASE PutBack
  <2>1. swap # NoSwap /\ plan' = Overtaken(swap.month, Names)
    BY <1>5 DEF PutBack, NoSwap
  <2>2. \A q \in Months : q # swap.month => live'[q] = live[q]
    BY <1>5, <2>1, SwapType DEF PutBack, LakeInv, LakeTypes
  <2>3. /\ plan = NoPlan => plan' = NoPlan
        /\ PlanType => PlanType'
        /\ plan'.build = b /\ plan'.paths = plan.paths
        /\ plan'.fresh => /\ plan.fresh
                          /\ \A item \in b : item.month = swap.month => item.file.name \notin Names
    BY <1>1, <1>2, <2>1, OvertakenPlan
  <2>4. plan'.fresh => Unchanged(b)'
    BY <1>2, <1>3, <2>2, <2>3 DEF Unchanged
  <2> QED
    BY <1>2, <2>3, <2>4
<1>6. CASE SwapIn
  <2>1. swap # NoSwap /\ swap.stage = "promote" /\ UNCHANGED plan
    BY <1>6 DEF SwapIn, NoSwap
  <2>2. \A item \in b : item.file.name # swap.id
    BY <1>3, <2>1, SwapType DEF LakeInv, NamesFresh
  <2>3. \A q \in Months, n \in Names : n # swap.id => Named(live'[q], n) \subseteq Named(live[q], n)
    BY <1>6, <2>1, SwapType DEF SwapIn, LakeInv, LakeTypes, Named, File
  <2>4. Unchanged(b) => Unchanged(b)'
    BY <1>3, <2>1, <2>2, <2>3 DEF Unchanged
  <2> QED
    BY <1>1, <1>2, <2>1, <2>4 DEF PlanType, Recorded
<1>7. CASE UNCHANGED plan /\ \A q \in Months : live'[q] \subseteq live[q]
  <2>1. Unchanged(b) => Unchanged(b)'
    BY <1>3, <1>7 DEF Unchanged, Named
  <2> QED
    BY <1>1, <1>2, <1>7, <2>1 DEF PlanType, Recorded
<1>8. CASE \E r \in RunIds : GiveUp(r) \/ \E p \in Months : Look(r, p) \/ SeeLock(r, p)
  BY <1>7, <1>8 DEF GiveUp, Look, SeeLock, partitions
<1>9. CASE \E p \in Months, i \in CompactionIds : Copy(p, i)
  BY <1>7, <1>9 DEF Copy, partitions
<1>10. CASE Refuse \/ MoveToArchive \/ Strand \/ Record \/ KillCompactor
  <2>1. UNCHANGED plan /\ \A q \in Months : live'[q] \subseteq live[q]
    BY <1>10 DEF Refuse, MoveToArchive, Strand, Record, KillCompactor, partitions, LakeInv, LakeTypes
  <2> QED
    BY <1>7, <2>1
<1> QED
  BY <1>4, <1>5, <1>6, <1>8, <1>9, <1>10 DEF LakeNext, Compactor, Run

LEMMA LakeCatalog ==
  ASSUME LakeInv, BuildsInv, CatalogInv, LakeNext
  PROVE  CatalogInv'
<1>1. ArchivesStay /\ UNCHANGED <<builds, catalog>>
  BY LakeFrame
<1>2. ASSUME NEW b \in DOMAIN catalog PROVE Shows(catalog[b], b)'
  <2>1. PICK paths : paths = catalog[b]
    OBVIOUS
  <2>2. Shows(paths, b)'
    BY <1>1, <2>1, ShowsStays DEF CatalogInv
  <2> QED
    BY <1>1, <2>1, <2>2
<1>3. (plan = NoPlan \/ PlanType) /\ (plan.fresh => Unchanged(plan.build))
  BY DEF CatalogInv, PlanType, NoPlan
<1>4. /\ plan = NoPlan => plan' = NoPlan
      /\ PlanType => PlanType'
      /\ plan'.build = plan.build /\ plan'.paths = plan.paths
      /\ plan'.fresh => Unchanged(plan.build)'
  BY <1>3, UnchangedStays
<1>5. Shows(plan.paths, plan.build) => Shows(plan.paths, plan.build)'
  <2>1. PICK paths, b : paths = plan.paths /\ b = plan.build
    OBVIOUS
  <2>2. Shows(paths, b) => Shows(paths, b)'
    BY <1>1, ShowsStays
  <2> QED
    BY <1>4, <2>1, <2>2
<1>6. (DOMAIN catalog \subseteq Recorded)'
  BY <1>1 DEF CatalogInv, Recorded
<1> QED
  BY <1>1, <1>2, <1>4, <1>5, <1>6 DEF CatalogInv, PlanType

-----------------------------------------------------------------------------
(* Steps of the builder. *)

LEMMA NothingBuilt ==
  ASSUME builder' = NoBuild
  PROVE  BuilderInv'
  BY DEF NoBuild, BuilderInv, BuilderType, Kept

\* The rows of a month's versions are the month's.
LEMMA VersionRows ==
  ASSUME LakeInv, NEW p \in Months
  PROVE  RowsIn(Versions(p)) \subseteq RowsOf[p]
<1>1. \A f \in Versions(p) : f.rows \subseteq RowsOf[p]
  BY FileType DEF LakeInv, FilesOf
<1> QED
  BY <1>1 DEF RowsIn

LEMMA StartBuilder ==
  ASSUME LakeInv, StartBuild
  PROVE  BuilderInv'
<1> DEFINE begun == UNION {RowsIn(Versions(p)) : p \in Months}
           every == {YearOf[p] : p \in Months}
<1>1. /\ builder' = [NoBuild EXCEPT !.on = TRUE, !.years = every, !.start = begun]
      /\ UNCHANGED lake
  BY DEF StartBuild
<1>2. begun \subseteq AllRows /\ every \subseteq Nat
  BY VersionRows, YearsAssumption DEF AllRows
<1>3. \A p \in Months : Versions(p)' = Versions(p)
  BY <1>1 DEF lake, partitions, archives, Versions, ArchivesOf
<1>4. ASSUME NEW p \in Months, NEW x \in RowsOf[p] \cap begun
      PROVE  x \in RowsIn(Versions(p))
  <2>1. PICK q \in Months : x \in RowsIn(Versions(q))
    BY <1>4
  <2>2. x \in RowsOf[q]
    BY <2>1, VersionRows
  <2> QED
    BY <2>1, <2>2, <1>4, RowsAssumption
<1> HIDE DEF begun
<1>5. /\ builder'.years = every /\ builder'.parts = {} /\ builder'.start = begun
      /\ builder' \in BuilderType
  BY <1>1, <1>2 DEF NoBuild, BuilderType
<1>6. \A p \in Months : YearOf[p] \in every
  OBVIOUS
<1> HIDE DEF every
<1>7. Kept(builder.parts)'
  BY <1>5 DEF Kept
<1>8. ASSUME NEW p \in Months, NEW x \in RowsOf[p] \cap builder'.start
      PROVE  x \in RowsIn(Versions(p))' /\ ToCome(p, x)'
  BY <1>3, <1>4, <1>5, <1>6, <1>8 DEF ToCome, RowsIn
<1> QED
  BY <1>5, <1>7, <1>8 DEF BuilderInv, every

\* The years still to be scanned are numbers, finitely many.
LEMMA NextYear ==
  ASSUME BuilderInv, builder.years # {}
  PROVE  Min(builder.years) \in builder.years
<1>1. IsFiniteSet({YearOf[p] : p \in Months})
  <2> DEFINE every == {YearOf[p] : p \in Months}
  <2>1. YearOf \in [Months -> every] /\ \A y \in every : \E p \in Months : YearOf[p] = y
    BY YearsAssumption
  <2> HIDE DEF every
  <2>2. YearOf \in Surjection(Months, every)
    BY <2>1 DEF Surjection
  <2>3. IsFiniteSet(every)
    BY <2>2, FS_Surjection, NamesAssumption
  <2> QED
    BY <2>3 DEF every
<1>2. builder.years \subseteq Nat /\ IsFiniteSet(builder.years)
  BY <1>1, FS_Subset DEF BuilderInv, BuilderType
<1> QED
  BY <1>2, MinOf

\* A step of the scan: no part is read, and every month that was to come still is, or is
\* missing, or its files are listed.
LEMMA ScanBuilder ==
  ASSUME LakeInv, BuilderInv, UNCHANGED lake,
         builder' \in BuilderType, builder'.years \subseteq builder.years,
         UNCHANGED <<builder.parts, builder.start, builder.on>>,
         builder.missing \subseteq builder'.missing, builder.hidden \subseteq builder'.hidden,
         builder.unread \subseteq builder'.unread,
         \A p \in Months \ builder'.missing :
             YearOf[p] \in builder.years \/ p \in builder.todo =>
                 \/ YearOf[p] \in builder'.years \/ p \in builder'.todo
                 \/ /\ \A f \in live[p] : <<p, f.name>> \in builder'.unread
                    /\ Hidden(p) \subseteq builder'.hidden
  PROVE  BuilderInv'
<1>1. \A q : Versions(q)' = Versions(q) /\ \A n : Reused(q, n)' = Reused(q, n)
  BY DEF lake, partitions, archives, Versions, ArchivesOf, Reused
<1>2. Kept(builder.parts)'
  BY <1>1 DEF BuilderInv, Kept
<1>3. ASSUME builder.on, NEW p \in Months \ builder'.missing, NEW x \in RowsOf[p] \cap builder.start
      PROVE  /\ x \in RowsIn(Versions(p))'
             /\ x \in builder'.hidden \/ ToCome(p, x)' \/ Covered(p, x)'
  <2>1. /\ x \in RowsIn(Versions(p))
        /\ x \in builder.hidden \/ ToCome(p, x) \/ Covered(p, x)
    BY <1>3 DEF BuilderInv
  <2>2. Covered(p, x) => Covered(p, x)'
    BY <1>1 DEF Covered
  <2>3. ASSUME ToCome(p, x) PROVE x \in builder'.hidden \/ ToCome(p, x)'
    <3>1. CASE \E f \in Versions(p) : <<p, f.name>> \in builder.unread /\ x \in f.rows
      BY <1>1, <3>1 DEF ToCome
    <3>2. CASE YearOf[p] \in builder'.years \/ p \in builder'.todo
      BY <3>2 DEF ToCome
    <3>3. CASE /\ \A f \in live[p] : <<p, f.name>> \in builder'.unread
               /\ Hidden(p) \subseteq builder'.hidden
      <4>1. x \in RowsIn(live[p]) \/ x \in Hidden(p)
        BY <2>1 DEF LakeInv, NothingLost
      <4>2. CASE x \in RowsIn(live[p])
        <5>1. PICK f \in live[p] : x \in f.rows
          BY <4>2 DEF RowsIn
        <5>2. f \in Versions(p)'
          BY <1>1 DEF Versions
        <5> QED
          BY <3>3, <5>1, <5>2 DEF ToCome
      <4> QED
        BY <3>3, <4>1, <4>2
    <3> QED
      BY <2>3, <3>1, <3>2, <3>3 DEF ToCome
  <2>4. x \in RowsIn(Versions(p))'
    BY <1>1, <2>1 DEF RowsIn
  <2> QED
    BY <2>1, <2>2, <2>3, <2>4
<1> QED
  BY <1>2, <1>3 DEF BuilderInv

LEMMA YearBuilder ==
  ASSUME LakeInv, BuilderInv, ScanYear
  PROVE  BuilderInv'
<1> DEFINE y == Min(builder.years)
           months == {p \in Months : YearOf[p] = y}
           absent == {p \in months : live[p] = {}}
<1>1. /\ builder.todo = {} /\ UNCHANGED lake
      /\ builder' = [builder EXCEPT !.years = @ \ {y}, !.todo = months \ absent,
                                    !.missing = @ \cup absent]
  BY DEF ScanYear
<1>2. months \subseteq Months /\ absent \subseteq Months
  OBVIOUS
<1>3. \A p \in Months : YearOf[p] = y => p \in absent \/ p \in months \ absent
  OBVIOUS
<1> HIDE DEF y, months, absent
<1>4. /\ builder' \in BuilderType
      /\ builder'.years = builder.years \ {y} /\ builder'.todo = months \ absent
      /\ builder'.missing = builder.missing \cup absent
      /\ UNCHANGED <<builder.unread, builder.parts, builder.start, builder.hidden, builder.on>>
  BY <1>1, <1>2 DEF BuilderInv, BuilderType
<1> QED
  BY <1>1, <1>3, <1>4, ScanBuilder

LEMMA MonthBuilder ==
  ASSUME LakeInv, BuilderInv, ScanMonth
  PROVE  BuilderInv'
<1> DEFINE p == Min(builder.todo)
           listed == {<<p, f.name>> : f \in live[p]}
           gone == IF live[p] = {} THEN builder.missing \cup {p} ELSE builder.missing
<1>1. p \in builder.todo /\ p \in Months
  <2>1. builder.todo \subseteq Months /\ builder.todo # {}
    BY DEF ScanMonth, BuilderInv, BuilderType
  <2>2. IsFiniteSet(builder.todo) /\ builder.todo \subseteq Nat
    BY <2>1, FS_Subset, NamesAssumption
  <2> QED
    BY <2>1, <2>2, MinOf
<1>2. /\ UNCHANGED lake
      /\ builder' = [builder EXCEPT !.todo = @ \ {p}, !.unread = @ \cup listed,
                                    !.missing = gone, !.hidden = @ \cup Hidden(p)]
  BY DEF ScanMonth
<1>3. listed \subseteq Months \X Names /\ \A f \in live[p] : <<p, f.name>> \in listed
  BY <1>1 DEF LakeInv, LakeTypes, Files
<1>4. Hidden(p) \subseteq AllRows
  <2>1. ASSUME NEW x \in Hidden(p) PROVE x \in AllRows
    <3>1. PICK i \in CompactionIds : \E f \in archive[i].files : x \in f.rows
      BY HiddenRow
    <3> QED
      BY <3>1 DEF LakeInv, LakeTypes, Files
  <2> QED
    BY <2>1
<1>5. builder.missing \subseteq gone /\ (builder.missing \subseteq Months => gone \subseteq Months)
  BY <1>1
<1> HIDE DEF p, listed, gone
<1>6. /\ builder' \in BuilderType
      /\ builder'.todo = builder.todo \ {p} /\ builder'.unread = builder.unread \cup listed
      /\ builder'.missing = gone /\ builder'.hidden = builder.hidden \cup Hidden(p)
      /\ UNCHANGED <<builder.years, builder.parts, builder.start, builder.on>>
  BY <1>2, <1>3, <1>4, <1>5 DEF BuilderInv, BuilderType
<1> QED
  BY <1>2, <1>3, <1>5, <1>6, ScanBuilder

\* A part that is read has the rows that were to come with it, or the name now stands
\* for another file.
LEMMA ReadBuilder ==
  ASSUME LakeInv, BuilderInv, ReadFile
  PROVE  BuilderInv'
<1>1. PICK u \in builder.unread : builder' = ReadOrRaise(Named(live[u[1]], u[2]), u[1], u[2])
  BY DEF ReadFile
<1>2. PICK p \in Months, n \in Names : u = <<p, n>>
  BY DEF BuilderInv, BuilderType
<1> DEFINE found == Named(live[p], n)
           file == CHOOSE g \in found : TRUE
           part == Partition(p, file)
<1>3. /\ builder' = IF found = {} THEN NoBuild
                    ELSE [builder EXCEPT !.unread = @ \ {<<p, n>>}, !.parts = @ \cup {part}]
      /\ UNCHANGED lake /\ builder.on /\ builder.todo = {} /\ builder.years = {}
  BY <1>1, <1>2 DEF ReadOrRaise, ReadFile, Scanned
<1>4. CASE found = {}
  BY <1>3, <1>4, NothingBuilt
<1>5. CASE found # {}
  <2>1. file \in live[p] /\ file.name = n
    BY <1>5 DEF Named
  <2> HIDE DEF file
  <2>2. file \in Versions(p) /\ file \in Files
    <3>1. file \in Versions(p)
      BY <2>1 DEF Versions
    <3> QED
      BY <3>1, FileType DEF LakeInv
  <2>3. part.month = p /\ part.file = file /\ part \in Parts
    BY <2>2 DEF Partition, Parts
  <2> HIDE DEF part, found
  <2>4. /\ builder' \in BuilderType
        /\ builder'.unread = builder.unread \ {<<p, n>>}
        /\ builder'.parts = builder.parts \cup {part}
        /\ UNCHANGED <<builder.years, builder.todo, builder.missing, builder.start,
                       builder.hidden, builder.on>>
    BY <1>3, <1>5, <2>3 DEF BuilderInv, BuilderType
  <2>5. \A q : Versions(q)' = Versions(q) /\ \A m : Reused(q, m)' = Reused(q, m)
    BY <1>3 DEF lake, partitions, archives, Versions, ArchivesOf, Reused
  <2>6. Kept(builder.parts)'
    BY <2>2, <2>3, <2>4, <2>5 DEF BuilderInv, Kept
  <2>7. ASSUME NEW q \in Months \ builder.missing, NEW x \in RowsOf[q] \cap builder.start
        PROVE  /\ x \in RowsIn(Versions(q))'
               /\ x \in builder.hidden \/ ToCome(q, x)' \/ Covered(q, x)'
    <3>1. /\ x \in RowsIn(Versions(q))
          /\ x \in builder.hidden \/ ToCome(q, x) \/ Covered(q, x)
      BY <1>3, <2>7 DEF BuilderInv
    <3>2. Covered(q, x) => Covered(q, x)'
      BY <2>4, <2>5 DEF Covered
    <3>3. ASSUME ToCome(q, x) PROVE ToCome(q, x)' \/ Covered(q, x)'
      <4>1. PICK f \in Versions(q) : <<q, f.name>> \in builder.unread /\ x \in f.rows
        BY <1>3, <3>3 DEF ToCome
      <4>2. CASE <<q, f.name>> # <<p, n>>
        BY <2>4, <2>5, <4>1, <4>2 DEF ToCome
      <4>3. CASE q = p /\ f = file
        BY <2>3, <2>4, <4>1, <4>3 DEF Covered
      <4>4. CASE q = p /\ f.name = n /\ f # file
        <5>1. Reused(p, n)'
          BY <2>1, <2>2, <2>5, <4>1, <4>4 DEF Reused, Named
        <5> QED
          BY <2>1, <2>3, <2>4, <4>4, <5>1 DEF Covered
      <4> QED
        BY <4>2, <4>3, <4>4
    <3>4. x \in RowsIn(Versions(q))'
      BY <2>5, <3>1 DEF RowsIn
    <3> QED
      BY <3>1, <3>2, <3>3, <3>4
  <2> QED
    BY <2>4, <2>6, <2>7 DEF BuilderInv
<1> QED
  BY <1>4, <1>5

LEMMA SameCatalog ==
  ASSUME CatalogInv, UNCHANGED <<lake, catalog, plan>>, Recorded \subseteq Recorded'
  PROVE  CatalogInv'
<1>1. \A paths, b : Shows(paths, b) => Shows(paths, b)'
  BY DEF Shows, Denotes, lake, archives
<1>2. \A b : Unchanged(b) => Unchanged(b)'
  BY DEF Unchanged, lake, partitions
<1>3. DOMAIN catalog' \subseteq Recorded' /\ \A b \in DOMAIN catalog' : Shows(catalog[b], b)'
  BY <1>1 DEF CatalogInv
<1>4. PlanType => PlanType'
  BY DEF PlanType
<1>5. Shows(plan.paths, plan.build) => Shows(plan.paths, plan.build)'
  BY <1>1
<1>6. Unchanged(plan.build) => Unchanged(plan.build)'
  BY <1>2
<1> QED
  BY <1>3, <1>4, <1>5, <1>6 DEF CatalogInv

LEMMA WriteBuilder ==
  ASSUME BuildsInv, BuilderInv, CatalogInv, WriteManifest
  PROVE  BuildsInv' /\ BuilderInv' /\ CatalogInv'
<1>1. /\ builder.parts # {} /\ builder' = NoBuild /\ UNCHANGED <<lake, catalog, plan>>
      /\ builds' = builds \/ builds' = Append(builds, builder.parts)
  BY DEF WriteManifest
<1>2. builder.parts \in SUBSET Parts
  BY DEF BuilderInv, BuilderType
<1>3. builds' \in Seq(SUBSET Parts) /\ Recorded \subseteq Recorded'
      /\ Recorded' \subseteq Recorded \cup {builder.parts}
  <2>1. CASE builds' = builds
    BY <2>1 DEF BuildsInv, Recorded
  <2>2. CASE builds' = Append(builds, builder.parts)
    <3>1. /\ builds \in Seq(SUBSET Parts) /\ builds' \in Seq(SUBSET Parts)
          /\ Len(builds') = Len(builds) + 1 /\ builds'[Len(builds) + 1] = builder.parts
          /\ \A k \in 1 .. Len(builds) : builds'[k] = builds[k]
      BY <1>2, <2>2 DEF BuildsInv
    <3>2. DOMAIN builds = 1 .. Len(builds) /\ DOMAIN builds' = 1 .. Len(builds')
      BY <3>1
    <3> QED
      BY <3>1, <3>2 DEF Recorded
  <2> QED
    BY <1>1, <2>1, <2>2
<1>4. \A q : Versions(q)' = Versions(q)
  BY <1>1 DEF lake, partitions, archives, Versions, ArchivesOf
<1>5. BuildsInv'
  BY <1>1, <1>3, <1>4 DEF BuildsInv, BuilderInv, Kept
<1>6. CatalogInv'
  BY <1>1, <1>3, SameCatalog
<1> QED
  BY <1>1, <1>5, <1>6, NothingBuilt

-----------------------------------------------------------------------------
(* Time travel. *)

\* The last recorded compaction that has a file has it.
LEMMA HolderOf ==
  ASSUME LakeInv, NEW p, NEW n, Holders(p, n) # {}
  PROVE  Max(Holders(p, n)) \in Holders(p, n)
<1>1. Holders(p, n) \subseteq CompactionIds
  BY DEF Holders, ArchivesOf
<1>2. IsFiniteSet(Holders(p, n)) /\ Holders(p, n) \subseteq Nat
  BY <1>1, FS_Subset, NamesAssumption
<1> QED
  BY <1>2, MaxOf

\* Where a recorded file is looked for.
LEMMA ResolvedPath ==
  ASSUME LakeInv, NEW item
  PROVE  LET p == item.month
             n == item.file.name
         IN  \/ /\ Resolved(item) = <<p, n, 0>> /\ At(Resolved(item)) = Named(live[p], n)
                /\ Named(live[p], n) # {} \/ Holders(p, n) = {}
             \/ \E i \in recorded : /\ i \in CompactionIds /\ Resolved(item) = <<p, n, i>>
                                    /\ At(Resolved(item)) = Named(archive[i].files, n)
                                    /\ Named(live[p], n) = {} /\ i \in Holders(p, n)
<1> DEFINE p == item.month
           n == item.file.name
           i == Max(Holders(p, n))
<1>1. CASE Named(live[p], n) # {} \/ Holders(p, n) = {}
  <2>1. Resolved(item) = <<p, n, 0>>
    BY <1>1 DEF Resolved
  <2> QED
    BY <1>1, <2>1 DEF At
<1>2. CASE Named(live[p], n) = {} /\ Holders(p, n) # {}
  <2>1. Resolved(item) = <<p, n, i>>
    BY <1>2 DEF Resolved
  <2>2. i \in Holders(p, n)
    BY <1>2, HolderOf
  <2> HIDE DEF i
  <2>3. i \in recorded /\ i \in CompactionIds /\ i # 0
    BY <2>2, NamesAssumption DEF Holders, ArchivesOf
  <2>4. At(Resolved(item)) = Named(archive[i].files, n)
    BY <2>1, <2>3 DEF At
  <2> QED
    BY <1>2, <2>1, <2>2, <2>3, <2>4
<1> QED
  BY <1>1, <1>2

LEMMA PlanCatalog ==
  ASSUME LakeInv, BuildsInv, CatalogInv, NEW b \in Recorded, Plan(b)
  PROVE  CatalogInv'
<1>1. /\ Ready(b) /\ UNCHANGED <<lake, builds, catalog>>
      /\ plan' = [build |-> b, paths |-> {Resolved(item) : item \in b}, fresh |-> TRUE]
  BY DEF Plan
<1>2. b \subseteq Parts
  BY DEF BuildsInv, Recorded
<1>3. ASSUME NEW item \in b
      PROVE  /\ Denotes(Resolved(item), item)
             /\ Resolved(item) \in Months \X Names \X (CompactionIds \cup {0})
             /\ Named(live[item.month], item.file.name) \subseteq {item.file}
  <2>1. At(Resolved(item)) = {item.file}
    BY <1>1 DEF Ready
  <2>2. item.month \in Months /\ item.file.name \in Names
    BY <1>2 DEF Parts, Files
  <2>3. CASE Resolved(item) = <<item.month, item.file.name, 0>>
             /\ At(Resolved(item)) = Named(live[item.month], item.file.name)
    BY <2>1, <2>2, <2>3 DEF Denotes
  <2>4. CASE \E i \in recorded : /\ i \in CompactionIds
                                 /\ Resolved(item) = <<item.month, item.file.name, i>>
                                 /\ At(Resolved(item)) = Named(archive[i].files, item.file.name)
                                 /\ Named(live[item.month], item.file.name) = {}
    BY <2>1, <2>2, <2>4 DEF Denotes
  <2> QED
    BY <2>3, <2>4, ResolvedPath
<1>4. Shows({Resolved(item) : item \in b}, b) /\ Unchanged(b)
  BY <1>3 DEF Shows, Unchanged
<1>5. \A paths, c : Shows(paths, c) => Shows(paths, c)'
  BY <1>1 DEF Shows, Denotes, lake, archives
<1>6. Unchanged(b)'
  BY <1>1, <1>4 DEF Unchanged, lake, partitions
<1>7. PlanType'
  BY <1>1, <1>3 DEF PlanType, Recorded
<1>8. Shows(plan.paths, plan.build)' /\ Unchanged(plan.build)'
  <2>1. PICK paths : paths = {Resolved(item) : item \in b}
    OBVIOUS
  <2>2. plan'.paths = paths /\ plan'.build = b
    BY <1>1, <2>1
  <2> QED
    BY <1>4, <1>5, <1>6, <2>1, <2>2
<1>9. DOMAIN catalog' \subseteq Recorded' /\ \A c \in DOMAIN catalog' : Shows(catalog[c], c)'
  BY <1>1, <1>5 DEF CatalogInv, Recorded
<1> QED
  BY <1>7, <1>8, <1>9 DEF CatalogInv

\* The views of a plan's catalog denote its build.
LEMMA ViewsShow ==
  ASSUME CatalogInv, plan # NoPlan
  PROVE  PlanType /\ Shows(Views, plan.build) /\ plan.build \in Recorded
  BY DEF CatalogInv, PlanType, Views

LEMMA CreateCatalogs ==
  ASSUME CatalogInv, CreateCatalog
  PROVE  CatalogInv'
<1>1. plan # NoPlan /\ plan' = NoPlan /\ UNCHANGED <<lake, builds>>
  BY DEF CreateCatalog
<1>2. PICK views, b : views = Views /\ b = plan.build
  OBVIOUS
<1>3. Shows(views, b) /\ b \in Recorded
  BY <1>1, <1>2, ViewsShow
<1>4. \/ catalog' = catalog
      \/ catalog' = [c \in DOMAIN catalog \cup {b} |-> IF c = b THEN views ELSE catalog[c]]
  BY <1>2 DEF CreateCatalog
<1>5. \A paths, c : Shows(paths, c) => Shows(paths, c)'
  BY <1>1 DEF Shows, Denotes, lake, archives
<1>6. DOMAIN catalog' \subseteq Recorded'
  BY <1>1, <1>3, <1>4 DEF CatalogInv, Recorded
<1>7. ASSUME NEW c \in DOMAIN catalog' PROVE Shows(catalog[c], c)'
  <2>1. PICK paths : paths = catalog'[c]
    OBVIOUS
  <2>2. Shows(paths, c)
    BY <1>3, <1>4, <2>1 DEF CatalogInv
  <2> QED
    BY <1>5, <2>1, <2>2
<1> QED
  BY <1>1, <1>6, <1>7 DEF CatalogInv

-----------------------------------------------------------------------------
(* The invariant and what follows from it. *)

LEMMA InvStep == ASSUME Inv, [Next]_vars PROVE Inv'
<1>1. CASE LakeNext
  <2>1. LakeInv' /\ Grows
    BY <1>1, LakeStep DEF Inv
  <2>2. UNCHANGED <<builds, builder>>
    BY <1>1, LakeFrame DEF Inv
  <2>3. BuildsInv' /\ BuilderInv'
    BY <2>1, <2>2, GrownBuilds DEF Inv
  <2> QED
    BY <1>1, <2>1, <2>3, LakeCatalog DEF Inv
<1>2. ASSUME UNCHANGED lake PROVE LakeInv' /\ Grows
  <2>1. UNCHANGED <<live, away, landing, archive, recorded, locked, swap>>
    BY <1>2 DEF lake, partitions, archives
  <2>2. OneFilePerPath' /\ NothingLost' /\ Grows /\ \A p \in Months : Versions(p)' = Versions(p)
    BY <2>1, SameFiles DEF Inv
  <2>3. LakeTypes' /\ Landings' /\ Archives' /\ (swap = NoSwap \/ Swapping)' /\ AwayLocked'
    BY <2>1 DEF Inv, LakeInv, LakeTypes, Landings, Archives, Swapping, AwayLocked
  <2>4. NamesFresh'
    BY <2>1, <2>2 DEF Inv, LakeInv, NamesFresh
  <2> QED
    BY <2>2, <2>3, <2>4 DEF LakeInv
<1>3. ASSUME UNCHANGED <<lake, builds, catalog, plan>> PROVE CatalogInv'
  BY <1>3, SameCatalog DEF Inv, Recorded
<1>4. ASSUME UNCHANGED <<lake, builds>> PROVE BuildsInv'
  BY <1>4 DEF lake, partitions, archives, Inv, BuildsInv, Recorded, Kept, Versions, ArchivesOf
<1>5. CASE StartBuild \/ ScanYear \/ ScanMonth \/ ReadFile \/ AbandonBuild
  <2>1. UNCHANGED <<lake, builds, catalog, plan>>
    BY <1>5 DEF StartBuild, ScanYear, ScanMonth, ReadFile, AbandonBuild
  <2>2. BuilderInv'
    BY <1>5, StartBuilder, YearBuilder, MonthBuilder, ReadBuilder, NothingBuilt DEF Inv, AbandonBuild
  <2> QED
    BY <1>2, <1>3, <1>4, <2>1, <2>2 DEF Inv
<1>6. CASE WriteManifest
  BY <1>2, <1>6, WriteBuilder DEF Inv, WriteManifest
<1>7. CASE Reproducer
  <2>1. UNCHANGED <<lake, builds, builder>>
    BY <1>7 DEF Reproducer, CreateCatalog, Plan
  <2>2. CatalogInv'
    BY <1>7, PlanCatalog, CreateCatalogs DEF Inv, Reproducer
  <2>3. BuilderInv'
    BY <1>2, <2>1, GrownBuilds DEF Inv
  <2> QED
    BY <1>2, <1>4, <2>1, <2>2, <2>3 DEF Inv
<1>8. CASE UNCHANGED vars
  BY <1>2, <1>3, <1>4, <1>8, GrownBuilds DEF vars, Inv
<1> QED
  BY <1>1, <1>5, <1>6, <1>7, <1>8 DEF Next, Builder, LakeNext

\* What a build has recorded never leaves the lake and its archives; every row is in a
\* final file, or a compaction moved it away without having it; a build being recorded
\* has or will reach every row it began with, with the exceptions that it keeps; and
\* catalogs denote their builds.
THEOREM BuildsInvariant == Spec => []Inv
<1>1. Init => Inv
  <2> SUFFICES ASSUME Init PROVE Inv
    OBVIOUS
  <2>1. \A p \in Months : Versions(p) = {}
    BY DEF Init, Versions, ArchivesOf, NoArchive
  <2>2. LakeTypes /\ Landings /\ Archives /\ OneFilePerPath /\ AwayLocked
    BY DEF Init, LakeTypes, Landings, Archives, OneFilePerPath, AwayLocked, NamesDiffer,
           NoArchive, NoLanding
  <2>3. NothingLost /\ NamesFresh
    BY <2>1 DEF NothingLost, NamesFresh, RowsIn
  <2>4. LakeInv
    BY <2>2, <2>3 DEF Init, LakeInv
  <2>5. BuildsInv
    BY DEF Init, BuildsInv, Recorded
  <2>6. BuilderInv
    BY DEF Init, BuilderInv, BuilderType, NoBuild, Kept
  <2>7. CatalogInv
    BY DEF Init, CatalogInv
  <2> QED
    BY <2>4, <2>5, <2>6, <2>7 DEF Inv
<1> QED
  BY <1>1, InvStep, PTL DEF Spec

\* Types; a directory that is renamed away is empty and locked, and a compaction in
\* progress has its month locked and no metadata yet.
THEOREM BuildTypesCorrect == Spec => []TypeOK
<1>1. Inv => TypeOK
  <2> SUFFICES ASSUME Inv PROVE TypeOK
    OBVIOUS
  <2>1. \A p \in Months : \A f \in live[p] : FileTypeOK(p, f)
    BY DEF Inv, LakeInv, LakeTypes, FilesOf, FileTypeOK
  <2>2. \A i \in CompactionIds : archive[i].files # {} => archive[i].month \in Months
    BY DEF Inv, LakeInv, Archives, NoArchive
  <2>3. /\ recorded \subseteq CompactionIds /\ locked \subseteq Months
        /\ swap # NoSwap => swap.month \in locked /\ swap.id \notin recorded
        /\ \A p \in away : live[p] = {} /\ p \in locked
    BY SwapType DEF Inv, LakeInv, LakeTypes, AwayLocked
  <2>4. ASSUME NEW parts \in SUBSET Parts, Kept(parts) PROVE PartsTypeOK(parts)
    <3> SUFFICES ASSUME NEW item \in parts
                 PROVE  item.month \in Months /\ FileTypeOK(item.month, item.file)
      BY DEF PartsTypeOK
    <3>1. item.month \in Months /\ item.file \in Versions(item.month)
      BY <2>4 DEF Kept, Parts
    <3>2. item.file \in FilesOf(item.month)
      BY <3>1, FileType DEF Inv, LakeInv
    <3> QED
      BY <3>1, <3>2 DEF FilesOf, FileTypeOK
  <2>5. \A b \in Recorded : b # {} /\ PartsTypeOK(b)
    BY <2>4 DEF Inv, BuildsInv, Recorded
  <2>6. PartsTypeOK(builder.parts) /\ builder.todo \subseteq Months
    BY <2>4 DEF Inv, BuilderInv, BuilderType
  <2>7. DOMAIN catalog \subseteq Recorded /\ plan.build \in Recorded \cup {{}}
    BY DEF Inv, CatalogInv, PlanType, NoPlan
  <2> QED
    BY <2>1, <2>2, <2>3, <2>5, <2>6, <2>7 DEF TypeOK
<1> QED
  BY <1>1, BuildsInvariant, PTL

\* After any number of compactions, a build none of whose files' names was used again is
\* reproducible once the metadata of the compactions that moved them is written.
THEOREM BuildsStayResolvable == Spec => []BuildsResolvable
<1>1. Inv => BuildsResolvable
  <2> SUFFICES ASSUME Inv, NEW b \in Recorded, NEW item \in b,
                      ~Reused(item.month, item.file.name),
                      \A i \in ArchivesOf(item.month) :
                          Named(archive[i].files, item.file.name) # {} => i \in recorded
               PROVE  At(Resolved(item)) = {item.file}
    BY DEF BuildsResolvable, Verified, Ready
  <2> DEFINE p == item.month
             n == item.file.name
             f == item.file
  <2>1. f \in Versions(p) /\ f.name = n
    BY DEF Inv, BuildsInv, Kept
  <2>2. \A g \in Versions(p) : g.name = n => g = f
    BY <2>1 DEF Reused, Named
  <2>3. Named(live[p], n) \subseteq {f}
    BY <2>2 DEF Named, Versions
  <2>4. \A i \in ArchivesOf(p) : Named(archive[i].files, n) \subseteq {f}
    BY <2>2 DEF Named, Versions
  <2>5. Named(live[p], n) # {} \/ Holders(p, n) # {}
    BY <2>1 DEF Versions, Holders, Named
  <2> HIDE DEF f
  <2>6. \A i \in Holders(p, n) : Named(archive[i].files, n) = {f}
    BY <2>4 DEF Holders
  <2> QED
    BY <2>3, <2>5, <2>6, ResolvedPath DEF Inv, f
<1> QED
  BY <1>1, BuildsInvariant, PTL

\* A recorded build has every row that had landed when it was started, but for a month
\* whose directory was away when it was scanned, a row that a compaction had moved away
\* without copying it, and a path that changed its content.
THEOREM BuildsCoverStart == Spec => BuildCoversStart
<1>1. Inv /\ [Next]_vars =>
         [WriteManifest =>
            \A p \in Months : \A x \in RowsOf[p] \cap builder.start :
                \/ \E item \in builder.parts : x \in item.file.rows
                \/ p \in builder.missing \/ x \in builder.hidden
                \/ \E item \in builder.parts : item.month = p /\ Reused(p, item.file.name)]_vars
  <2> SUFFICES ASSUME Inv, WriteManifest, NEW p \in Months, NEW x \in RowsOf[p] \cap builder.start,
                      p \notin builder.missing, x \notin builder.hidden
               PROVE  Covered(p, x)
    BY DEF Covered
  <2>1. builder.on /\ builder.years = {} /\ builder.todo = {} /\ builder.unread = {}
    BY DEF WriteManifest, Complete, Scanned
  <2>2. ToCome(p, x) \/ Covered(p, x)
    BY <2>1 DEF Inv, BuilderInv
  <2> QED
    BY <2>1, <2>2 DEF ToCome
<1> QED
  BY <1>1, BuildsInvariant, PTL DEF Spec, BuildCoversStart

\* A catalog that is returned, new or reused, shows the rows of its build, unless files
\* appeared under declared names between the plan and the catalog.
THEOREM CatalogsExact == Spec => CatalogExact
<1>1. Inv /\ [Next]_vars =>
         [CreateCatalog /\ Matching(Views, plan.build) /\ plan.fresh =>
            Shown(Views) = UNION {item.file.rows : item \in plan.build}]_vars
  <2> SUFFICES ASSUME Inv, CreateCatalog, Matching(Views, plan.build), plan.fresh
               PROVE  Shown(Views) = UNION {item.file.rows : item \in plan.build}
    OBVIOUS
  <2>1. plan # NoPlan
    BY DEF CreateCatalog
  <2>2. Shows(Views, plan.build) /\ Unchanged(plan.build)
    BY <2>1, ViewsShow DEF Inv, CatalogInv
  <2>3. ASSUME NEW path \in Views, NEW item \in plan.build, Denotes(path, item)
        PROVE  RowsIn(At(path)) = item.file.rows
    <3>1. At(path) # {}
      BY <2>3 DEF Matching, Readable
    <3>2. PICK i \in CompactionIds \cup {0} :
             /\ path = <<item.month, item.file.name, i>>
             /\ i # 0 => Named(archive[i].files, item.file.name) = {item.file}
      BY <2>3 DEF Denotes
    <3>3. At(path) = IF i = 0 THEN Named(live[item.month], item.file.name)
                     ELSE Named(archive[i].files, item.file.name)
      BY <3>2 DEF At
    <3>4. At(path) = {item.file}
      BY <2>2, <3>1, <3>2, <3>3 DEF Unchanged
    <3> QED
      BY <3>4 DEF RowsIn
  <2>4. \A x : x \in Shown(Views) <=> \E path \in Views : x \in RowsIn(At(path))
    BY DEF Shown
  <2>5. \A x : x \in Shown(Views) <=> \E item \in plan.build : x \in item.file.rows
    BY <2>2, <2>3, <2>4 DEF Shows
  <2> QED
    BY <2>5
<1> QED
  BY <1>1, BuildsInvariant, PTL DEF Spec, CatalogExact
=============================================================================
