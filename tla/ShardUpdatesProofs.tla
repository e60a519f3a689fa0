---------------------------- MODULE ShardUpdatesProofs ----------------------------
(***************************************************************************)
(* Theorems about ShardUpdates, for every universe, shard size, overlap,     *)
(* calendar and provider: types, one version of each row, complete days.     *)
(***************************************************************************)
EXTENDS ShardUpdates, TLAPS, SequenceTheorems

\* No two of the rows have the same key.
Unambiguous(rows) == \A row, other \in rows : Key(row) = Key(other) => row = other

ShardSymbols(k) == Range(Shard(k))

\* What the provider has published covers all days but the latest two.
Published == \A s \in Symbols : upto[s] >= today - 2

\* What is fetched so far: the symbols that are not to do, each with its window, in rows
\* that keep their contract and rows that do not.
Fetching ==
    run.pc = "fetch" =>
        /\ run.through \in Days /\ run.through <= today /\ IsInjective(run.todo)
        /\ Unambiguous(run.rows)
        /\ \A row \in run.rows : row.symbol \notin Range(run.todo)
        /\ \A s \in ShardSymbols(run.shard) \ Range(run.todo) :
              Certain(s, run.through) \subseteq Keys(run.rows) \cup run.rejected

\* What is still to be promoted has keys of its own and, with what is in the run's
\* quarantine file, completes the window.
Promoting ==
    run.pc = "promote" =>
        /\ run.through \in Days
        /\ Unambiguous(run.rows) /\ Keys(run.rows) \cap Keys(lake) = {}
        /\ Quarantined \subseteq quarantine
        /\ \A s \in ShardSymbols(run.shard) :
              Certain(s, run.through) \subseteq Keys(run.rows) \cup Keys(lake) \cup run.rejected

\* Keys in the quarantine file of a run whose manifest says degraded.
SetAsideBy(m) == {key \in Symbols \X Days : m \in degraded /\ [run |-> m, key |-> key] \in quarantine}

\* A manifest stands for the window of its shard's symbols, in the lake or set aside.
Manifested ==
    \A m \in manifests : \A s \in ShardSymbols(m[2]) :
        Certain(s, m[1]) \subseteq Keys(lake) \cup SetAsideBy(m)

ShardInv == TypeOK /\ Published /\ OneVersion /\ Fetching /\ Promoting /\ Manifested

-----------------------------------------------------------------------------
(* Shards. *)

LEMMA MinOfTwo ==
  ASSUME NEW a \in Int, NEW b \in Int
  PROVE  Min({a, b}) = IF a <= b THEN a ELSE b
  BY DEF Min

LEMMA UniverseTyped ==
  /\ Universe \in Seq(Symbols) /\ Len(Universe) \in Nat \ {0}
  /\ ShardSize \in Nat \ {0}
  /\ \A i \in 1 .. Len(Universe) : Universe[i] \in Symbols
  /\ \A s \in Symbols : \E i \in 1 .. Len(Universe) : Universe[i] = s
  BY UniverseAssumption DEF Symbols, Range

\* The bounds of a shard, without the arithmetic of its size.
LEMMA ShardBounds ==
  ASSUME NEW k \in Shards
  PROVE  \E a \in 1 .. Len(Universe), b \in 0 .. Len(Universe) :
            /\ Shard(k) = SubSeq(Universe, a, b)
            /\ \A i \in 1 .. Len(Universe) :
                  k * ShardSize < i /\ i <= (k + 1) * ShardSize => a <= i /\ i <= b
<1> DEFINE low == k * ShardSize
           high == (k + 1) * ShardSize
<1>1. low \in Nat /\ high \in Nat /\ low < Len(Universe)
  BY UniverseTyped DEF Shards
<1> HIDE DEF low, high
<1>2. Min({high, Len(Universe)}) = IF high <= Len(Universe) THEN high ELSE Len(Universe)
  <2>1. high \in Int /\ Len(Universe) \in Int
    BY <1>1, UniverseTyped
  <2> QED
    BY <2>1, MinOfTwo, Zenon
<1>3. low + 1 \in 1 .. Len(Universe) /\ Min({high, Len(Universe)}) \in 0 .. Len(Universe)
  BY <1>1, <1>2, UniverseTyped
<1>4. \A i \in 1 .. Len(Universe) :
         low < i /\ i <= high => low + 1 <= i /\ i <= Min({high, Len(Universe)})
  BY <1>1, <1>2, UniverseTyped
<1>5. Shard(k) = SubSeq(Universe, low + 1, Min({high, Len(Universe)}))
  BY DEF Shard, low, high
<1> QED
  BY <1>3, <1>4, <1>5 DEF low, high

LEMMA Segment ==
  ASSUME NEW a \in 1 .. Len(Universe), NEW b \in 0 .. Len(Universe)
  PROVE  /\ SubSeq(Universe, a, b) \in Seq(Symbols)
         /\ DOMAIN SubSeq(Universe, a, b) = 1 .. b - a + 1
         /\ \A i \in 1 .. b - a + 1 : SubSeq(Universe, a, b)[i] = Universe[a + i - 1]
<1>1. a \in Int /\ b \in Int /\ \A i \in a .. b : Universe[i] \in Symbols
  BY UniverseTyped
<1>2. /\ SubSeq(Universe, a, b) \in Seq(Symbols)
      /\ Len(SubSeq(Universe, a, b)) = IF a <= b THEN b - a + 1 ELSE 0
      /\ \A i \in 1 .. b - a + 1 : SubSeq(Universe, a, b)[i] = Universe[a + i - 1]
  BY <1>1, SubSeqProperties
<1> QED
  BY <1>1, <1>2

\* A shard is a segment of distinct symbols of the universe.
LEMMA ShardTyped ==
  ASSUME NEW k \in Shards
  PROVE  Shard(k) \in Seq(Symbols) /\ IsInjective(Shard(k))
<1>1. PICK a \in 1 .. Len(Universe), b \in 0 .. Len(Universe) : Shard(k) = SubSeq(Universe, a, b)
  BY ShardBounds
<1> DEFINE seg == SubSeq(Universe, a, b)
<1>2. /\ seg \in Seq(Symbols) /\ DOMAIN seg = 1 .. b - a + 1
      /\ \A i \in 1 .. b - a + 1 : seg[i] = Universe[a + i - 1]
  BY Segment
<1> HIDE DEF seg
<1>3. \A i, j \in 1 .. Len(Universe) : Universe[i] = Universe[j] => i = j
  <2>1. DOMAIN Universe = 1 .. Len(Universe)
    BY UniverseTyped
  <2> QED
    BY <2>1, UniverseAssumption DEF IsInjective
<1>4. ASSUME NEW i \in DOMAIN seg, NEW j \in DOMAIN seg, seg[i] = seg[j]
      PROVE  i = j
  <2>1. i \in 1 .. b - a + 1 /\ j \in 1 .. b - a + 1 /\ seg[i] = seg[j] /\ Len(Universe) \in Nat
    BY <1>2, <1>4, UniverseTyped
  <2>2. a + i - 1 \in 1 .. Len(Universe) /\ a + j - 1 \in 1 .. Len(Universe)
    BY <2>1
  <2>3. Universe[a + i - 1] = Universe[a + j - 1]
    BY <1>2, <2>1
  <2>4. a + i - 1 = a + j - 1
    BY <1>3, <2>2, <2>3
  <2> QED
    BY <2>1, <2>4
<1>5. IsInjective(seg)
  BY <1>4 DEF IsInjective
<1> QED
  BY <1>1, <1>2, <1>5 DEF seg

\* Every position of the universe is in one of the shards.
LEMMA PositionOf ==
  ASSUME NEW i \in Nat \ {0}
  PROVE  \E k \in Nat : k * ShardSize < i /\ i <= (k + 1) * ShardSize
<1>1. ShardSize \in Nat \ {0} /\ i - 1 \in Nat
  BY UniverseAssumption
<1> DEFINE k == (i - 1) \div ShardSize
<1>2. k \in Nat /\ k * ShardSize <= i - 1 /\ i - 1 < (k + 1) * ShardSize
  BY <1>1
<1> HIDE DEF k
<1>3. k * ShardSize \in Nat /\ (k + 1) * ShardSize \in Nat
  BY <1>1, <1>2
<1> QED
  BY <1>2, <1>3

\* Every symbol of the universe is in a shard.
LEMMA ShardsCover ==
  ASSUME NEW s \in Symbols
  PROVE  \E k \in Shards : s \in ShardSymbols(k)
<1>1. PICK i \in 1 .. Len(Universe) : Universe[i] = s
  BY UniverseTyped
<1>2. i \in Nat \ {0}
  BY UniverseTyped
<1>3. PICK k \in Nat : k * ShardSize < i /\ i <= (k + 1) * ShardSize
  BY <1>2, PositionOf
<1>4. k <= k * ShardSize /\ k * ShardSize \in Nat
  BY UniverseTyped
<1>5. k \in Shards
  <2> DEFINE low == k * ShardSize
  <2>1. low < i /\ k <= low /\ low \in Nat /\ Len(Universe) \in Nat
    BY <1>3, <1>4, UniverseTyped
  <2> HIDE DEF low
  <2>2. low < Len(Universe) /\ k \in 0 .. Len(Universe) - 1
    BY <2>1
  <2> QED
    BY <2>2 DEF Shards, low
<1>6. PICK a \in 1 .. Len(Universe), b \in 0 .. Len(Universe) :
         Shard(k) = SubSeq(Universe, a, b) /\ a <= i /\ i <= b
  BY <1>1, <1>3, <1>5, ShardBounds
<1>7. i - a + 1 \in 1 .. b - a + 1 /\ a + (i - a + 1) - 1 = i
  BY <1>6
<1>8. i - a + 1 \in DOMAIN Shard(k) /\ Shard(k)[i - a + 1] = s
  BY <1>1, <1>6, <1>7, Segment
<1> QED
  BY <1>5, <1>8 DEF ShardSymbols, Range

-----------------------------------------------------------------------------
(* Lists of symbols, windows and rows. *)

LEMMA HeadAndTail ==
  ASSUME NEW todo \in Seq(Symbols), todo # <<>>, IsInjective(todo)
  PROVE  /\ Head(todo) \in Symbols /\ Tail(todo) \in Seq(Symbols) /\ IsInjective(Tail(todo))
         /\ Range(todo) = {Head(todo)} \cup Range(Tail(todo))
         /\ Head(todo) \notin Range(Tail(todo))
<1> DEFINE rest == Tail(todo)
<1>1. /\ Head(todo) \in Symbols /\ rest \in Seq(Symbols) /\ Head(todo) = todo[1]
      /\ Len(todo) \in Nat \ {0} /\ Len(rest) = Len(todo) - 1
      /\ DOMAIN todo = 1 .. Len(todo) /\ DOMAIN rest = 1 .. Len(todo) - 1
      /\ \A i \in 1 .. Len(todo) - 1 : rest[i] = todo[i + 1]
  BY HeadTailProperties
<1> HIDE DEF rest
<1>2. \A i, j \in 1 .. Len(todo) : todo[i] = todo[j] => i = j
  BY <1>1 DEF IsInjective
<1>3. IsInjective(rest)
  <2>1. ASSUME NEW i \in 1 .. Len(todo) - 1, NEW j \in 1 .. Len(todo) - 1, rest[i] = rest[j]
        PROVE  i = j
    <3>1. i + 1 \in 1 .. Len(todo) /\ j + 1 \in 1 .. Len(todo) /\ todo[i + 1] = todo[j + 1]
      BY <1>1, <2>1
    <3>2. i + 1 = j + 1
      BY <1>2, <3>1
    <3> QED
      BY <3>2
  <2> QED
    BY <1>1, <2>1 DEF IsInjective
<1>4. \A i \in 1 .. Len(todo) : todo[i] \in {todo[1]} \cup Range(rest)
  <2>1. ASSUME NEW i \in 1 .. Len(todo), i # 1
        PROVE  todo[i] \in Range(rest)
    <3>1. i - 1 \in 1 .. Len(todo) - 1 /\ (i - 1) + 1 = i
      BY <1>1, <2>1
    <3>2. i - 1 \in DOMAIN rest /\ rest[i - 1] = todo[i]
      BY <1>1, <3>1
    <3> QED
      BY <3>2 DEF Range
  <2> QED
    BY <2>1
<1>5. \A i \in 1 .. Len(todo) - 1 :
         i + 1 \in 1 .. Len(todo) /\ i + 1 # 1 /\ rest[i] = todo[i + 1] /\ 1 \in 1 .. Len(todo)
  BY <1>1
<1>6. Head(todo) \notin Range(rest)
  BY <1>1, <1>2, <1>5 DEF Range
<1>7. Range(todo) = {Head(todo)} \cup Range(rest)
  <2>1. Range(todo) \subseteq {Head(todo)} \cup Range(rest)
    BY <1>1, <1>4 DEF Range
  <2>2. Head(todo) \in Range(todo)
    BY <1>1 DEF Range
  <2>3. Range(rest) \subseteq Range(todo)
    BY <1>1, <1>5 DEF Range
  <2> QED
    BY <2>1, <2>2, <2>3
<1> QED
  BY <1>1, <1>3, <1>6, <1>7 DEF rest

\* What is served for a symbol: rows of its own, one per day, of all certain days.
LEMMA ServedRows ==
  ASSUME TypeOK, Published, NEW s \in Symbols, NEW d \in Days, d <= today
  PROVE  /\ Served(s, Window(d)) \subseteq Rows
         /\ Unambiguous(Served(s, Window(d)))
         /\ \A row \in Served(s, Window(d)) : row.symbol = s
         /\ Certain(s, d) \subseteq Keys(Served(s, Window(d)))
<1>1. upto[s] \in Nat /\ today \in Nat /\ upto[s] >= today - 2 /\ Overlap \in Nat /\ d \in Nat
  BY WindowAssumption DEF TypeOK, Days, Published
<1> DEFINE published == {e \in Window(d) : e <= upto[s]}
           RowOf(e) == [symbol |-> s, day |-> e, corrected |-> <<s, e>> \in corrected]
<1>0. Served(s, Window(d)) = {RowOf(e) : e \in published} /\ published \subseteq Days
  BY DEF Served, Window
<1>6. \A e \in Days : /\ RowOf(e) \in Rows /\ RowOf(e).symbol = s
                       /\ RowOf(e).day = e /\ Key(RowOf(e)) = <<s, e>>
  BY DEF Rows, Key
<1> HIDE DEF published, RowOf
<1>2. Served(s, Window(d)) \subseteq Rows
  BY <1>0, <1>6
<1>3. Unambiguous(Served(s, Window(d)))
  BY <1>0, <1>6 DEF Unambiguous
<1>4. \A row \in Served(s, Window(d)) : row.symbol = s
  BY <1>0, <1>6
<1>5. ASSUME NEW e \in Window(d), e < d - 1
      PROVE  <<s, e>> \in Keys(Served(s, Window(d)))
  <2>1. e \in Nat
    BY WindowAssumption DEF Window, Days
  <2>2. e <= upto[s]
    BY <1>1, <1>5, <2>1
  <2>3. RowOf(e) \in Served(s, Window(d)) /\ Key(RowOf(e)) = <<s, e>>
    BY <1>0, <1>5, <1>6, <2>2 DEF published
  <2> QED
    BY <2>3 DEF Keys
<1> QED
  BY <1>2, <1>3, <1>4, <1>5 DEF Certain

-----------------------------------------------------------------------------
(* The invariant holds initially, and every action preserves it. *)

LEMMA IdleTyped ==
  /\ Idle \in [pc : {"idle", "fetch", "promote"}, shard : Shards, through : 0 .. LastDay,
               todo : Seq(Symbols), rows : SUBSET Rows, rejected : SUBSET (Symbols \X Days)]
  /\ Idle.pc = "idle"
<1>1. 0 \in Shards
  <2>1. 0 * ShardSize = 0
    BY UniverseTyped
  <2> QED
    BY <2>1, UniverseTyped DEF Shards
<1>2. <<>> \in Seq(Symbols) /\ 0 \in 0 .. LastDay
  BY WindowAssumption
<1> QED
  BY <1>1, <1>2 DEF Idle

LEMMA InitShardInv ==
  ASSUME Init
  PROVE  ShardInv
<1>1. 1 \in Days /\ LastDay \in Nat
  BY WindowAssumption DEF Days
<1>2. upto \in [Symbols -> 0 .. LastDay] /\ \A s \in Symbols : upto[s] \in {0, 1}
  BY <1>1 DEF Init, Available, Days
<1>3. TypeOK
  <2>1. \A s \in Symbols : upto[s] <= today
    BY <1>2 DEF Init
  <2> QED
    BY <1>1, <1>2, <2>1, IdleTyped DEF Init, TypeOK
<1>4. Published /\ OneVersion
  BY <1>2 DEF Init, Published, OneVersion
<1> QED
  BY <1>3, <1>4, IdleTyped DEF Init, ShardInv, Fetching, Promoting, Manifested

\* Ending a run without a trace in the lake.
LEMMA IdlePreserves ==
  ASSUME ShardInv, run' = Idle, UNCHANGED <<provider, lake, files, manifests, degraded>>,
         conflicted' \subseteq Days \X Shards, quarantine \subseteq quarantine',
         quarantine' \subseteq [run : Days \X Shards, key : Symbols \X Days]
  PROVE  ShardInv'
<1>1. TypeOK'
  BY IdleTyped DEF ShardInv, TypeOK, provider
<1>2. Published' /\ OneVersion' /\ Manifested'
  BY DEF ShardInv, Published, OneVersion, Manifested, provider, Keys, Key, Certain, Window,
         ShardSymbols, SetAsideBy
<1>3. Fetching' /\ Promoting'
  BY IdleTyped DEF Fetching, Promoting
<1> QED
  BY <1>1, <1>2, <1>3 DEF ShardInv

LEMMA TickPreserves ==
  ASSUME ShardInv, Tick
  PROVE  ShardInv'
<1>1. /\ today \in Nat /\ LastDay \in Nat /\ today < LastDay /\ today' = today + 1
      /\ upto \in [Symbols -> 0 .. LastDay]
      /\ \A s \in Symbols : upto[s] >= today - 1 /\ upto[s] <= today
  BY WindowAssumption DEF ShardInv, TypeOK, Tick, Days
<1>2. upto' = Available(upto, today + 1)
  BY DEF Tick
<1>3. /\ upto' \in [Symbols -> 0 .. LastDay]
      /\ \A s \in Symbols : upto'[s] <= today' /\ upto'[s] >= today' - 2
  BY <1>1, <1>2 DEF Available
<1>4. /\ files' \subseteq files /\ manifests' \subseteq manifests /\ conflicted' \subseteq conflicted
      /\ degraded' \subseteq degraded /\ quarantine' \subseteq quarantine
      /\ UNCHANGED <<corrected, lake, run>>
  BY DEF Tick
<1>5. TypeOK'
  <2>1. degraded' \subseteq manifests'
    BY DEF Tick, ShardInv, TypeOK
  <2>2. /\ manifests' \cup conflicted' \subseteq Days \X Shards
        /\ quarantine' \subseteq [run : Days \X Shards, key : Symbols \X Days]
    BY <1>4 DEF ShardInv, TypeOK
  <2>3. run'.pc = "promote" => \A m \in Months(run'.rows) : FileOf(m)' \notin files'
    BY <1>4 DEF ShardInv, TypeOK, FileOf
  <2>4. today' \in Days
    BY <1>1 DEF Days
  <2> QED
    BY <1>3, <1>4, <2>1, <2>2, <2>3, <2>4 DEF ShardInv, TypeOK
<1>6. Published' /\ OneVersion'
  BY <1>3, <1>4 DEF ShardInv, Published, OneVersion, Key
<1>7. Manifested'
  <2> SUFFICES ASSUME NEW m \in manifests', NEW s \in ShardSymbols(m[2])
               PROVE  Certain(s, m[1]) \subseteq Keys(lake) \cup SetAsideBy(m)'
    BY <1>4 DEF Manifested, ShardSymbols, Certain, Window, Keys, Key
  <2>1. m \in manifests /\ m[1] = run.through
    BY DEF Tick
  <2>2. SetAsideBy(m) \subseteq SetAsideBy(m)'
    BY <2>1 DEF Tick, SetAsideBy
  <2> QED
    BY <2>1, <2>2 DEF ShardInv, Manifested
<1>8. Promoting'
  <2>1. Quarantined \subseteq quarantine => Quarantined \subseteq quarantine'
    BY DEF Tick, Quarantined, RunId
  <2>2. Quarantined' = Quarantined
    BY <1>4 DEF Quarantined, RunId
  <2> QED
    BY <1>4, <2>1, <2>2 DEF ShardInv, Promoting, Unambiguous, Keys, Key, Certain, Window, ShardSymbols
<1>9. Fetching'
  <2>1. run.pc = "fetch" => run.through <= today'
    BY <1>1, WindowAssumption DEF ShardInv, Fetching, Days
  <2> QED
    BY <1>4, <2>1 DEF ShardInv, Fetching, Unambiguous, Keys, Key, Certain, Window, ShardSymbols
<1> QED
  BY <1>5, <1>6, <1>7, <1>8, <1>9 DEF ShardInv

LEMMA PublishPreserves ==
  ASSUME ShardInv, NEW s \in Symbols, Publish(s) \/ (\E d \in Days : Correct(s, d))
  PROVE  ShardInv'
<1>1. UNCHANGED <<today, lake, files, manifests, degraded, quarantine, conflicted, run>>
  BY DEF Publish, Correct, runs
<1>2. /\ upto' \in [Symbols -> 0 .. LastDay] /\ corrected' \subseteq Symbols \X Days
      /\ \A r \in Symbols : upto'[r] <= today /\ upto'[r] >= today - 2
  <2>1. today \in Nat /\ LastDay \in Nat /\ today <= LastDay /\ upto \in [Symbols -> 0 .. LastDay]
        /\ \A r \in Symbols : upto[r] <= today /\ upto[r] >= today - 2
    BY WindowAssumption DEF ShardInv, TypeOK, Days, Published
  <2>2. CASE Publish(s)
    BY <2>1, <2>2 DEF Publish, ShardInv, TypeOK
  <2>3. CASE \E d \in Days : Correct(s, d)
    BY <2>1, <2>3 DEF Correct, ShardInv, TypeOK
  <2> QED
    BY <2>2, <2>3
<1>3. TypeOK' /\ Published'
  BY <1>1, <1>2 DEF ShardInv, TypeOK, Published, FileOf
<1>4. OneVersion' /\ Fetching' /\ Promoting' /\ Manifested'
  BY <1>1 DEF ShardInv, OneVersion, Fetching, Promoting, Manifested, Unambiguous, Keys, Key,
         Certain, Window, ShardSymbols, SetAsideBy, Quarantined, RunId
<1> QED
  BY <1>3, <1>4 DEF ShardInv

LEMMA StartPreserves ==
  ASSUME ShardInv, NEW k \in Shards, Start(k)
  PROVE  ShardInv'
<1>1. /\ run' = [pc |-> "fetch", shard |-> k, through |-> today, todo |-> Shard(k), rows |-> {},
                rejected |-> {}]
      /\ UNCHANGED <<provider, lake, runs>>
  BY DEF Start
<1>2. Shard(k) \in Seq(Symbols) /\ IsInjective(Shard(k))
  BY ShardTyped
<1>3. today \in Days /\ today \in 0 .. LastDay /\ today <= today
  BY WindowAssumption DEF ShardInv, TypeOK, Days
<1>4. TypeOK'
  BY <1>1, <1>2, <1>3 DEF ShardInv, TypeOK, provider, runs
<1>5. Published' /\ OneVersion' /\ Manifested' /\ Promoting'
  BY <1>1 DEF ShardInv, Published, OneVersion, Manifested, Promoting, provider, runs, Keys, Key,
         Certain, Window, ShardSymbols, SetAsideBy
<1>6. Fetching'
  BY <1>1, <1>2, <1>3 DEF Fetching, Unambiguous, ShardSymbols, provider
<1> QED
  BY <1>4, <1>5, <1>6 DEF ShardInv

LEMMA ReceivePreserves ==
  ASSUME ShardInv, Receive
  PROVE  ShardInv'
<1> DEFINE s == Head(run.todo)
           got == Served(s, Window(run.through))
<1>1. /\ run.pc = "fetch" /\ run.todo # <<>> /\ run.todo \in Seq(Symbols) /\ IsInjective(run.todo)
      /\ run.through \in Days /\ run.through <= today /\ run.rows \subseteq Rows
  BY DEF Receive, ShardInv, TypeOK, Fetching
<1>2. /\ s \in Symbols /\ Tail(run.todo) \in Seq(Symbols) /\ IsInjective(Tail(run.todo))
      /\ Range(run.todo) = {s} \cup Range(Tail(run.todo)) /\ s \notin Range(Tail(run.todo))
  BY <1>1, HeadAndTail
<1>3. /\ got \subseteq Rows /\ Unambiguous(got) /\ \A row \in got : row.symbol = s
      /\ Certain(s, run.through) \subseteq Keys(got)
  BY <1>1, <1>2, ServedRows DEF ShardInv
<1> HIDE DEF s, got
<1>4. PICK bad \in SUBSET got :
         run' = [run EXCEPT !.rows = @ \cup (got \ bad), !.rejected = @ \cup Keys(bad), !.todo = Tail(@)]
  BY DEF Receive, Broken, s, got
<1> DEFINE good == got \ bad
<1>5. /\ good \subseteq Rows /\ Keys(bad) \subseteq Symbols \X Days /\ Unambiguous(good)
      /\ \A row \in good : row.symbol = s
      /\ Keys(got) \subseteq Keys(good) \cup Keys(bad)
  BY <1>3 DEF Keys, Key, Rows, Unambiguous
<1> HIDE DEF good
<1>6. /\ run' \in [pc : {"idle", "fetch", "promote"}, shard : Shards, through : 0 .. LastDay,
                    todo : Seq(Symbols), rows : SUBSET Rows, rejected : SUBSET (Symbols \X Days)]
      /\ run'.pc = "fetch" /\ run'.shard = run.shard /\ run'.through = run.through
      /\ run'.todo = Tail(run.todo) /\ run'.rows = run.rows \cup good
      /\ run'.rejected = run.rejected \cup Keys(bad)
  <2>1. run' = [run EXCEPT !.rows = @ \cup good, !.rejected = @ \cup Keys(bad), !.todo = Tail(@)]
    BY <1>4 DEF good
  <2> QED
    BY <1>1, <1>2, <1>5, <2>1 DEF ShardInv, TypeOK
<1>7. UNCHANGED <<today, upto, corrected, lake, files, manifests, degraded, quarantine, conflicted>>
  BY DEF Receive, provider, runs
<1>8. TypeOK'
  BY <1>6, <1>7 DEF ShardInv, TypeOK
<1>9. Published' /\ OneVersion' /\ Manifested' /\ Promoting'
  BY <1>6, <1>7 DEF ShardInv, Published, OneVersion, Manifested, Promoting, Keys, Key, Certain,
         Window, ShardSymbols, SetAsideBy
<1>10. Fetching'
  <2>1. \A row \in run.rows : row.symbol \notin Range(run.todo)
    BY <1>1 DEF ShardInv, Fetching
  <2>2. \A row \in run'.rows : row.symbol \notin Range(run'.todo)
    BY <1>2, <1>5, <1>6, <2>1
  <2>3. Unambiguous(run'.rows)
    <3>1. \A row \in run.rows, other \in good : Key(row) # Key(other)
      BY <1>2, <1>5, <2>1 DEF Key
    <3> QED
      BY <1>1, <1>5, <1>6, <3>1 DEF ShardInv, Fetching, Unambiguous
  <2>4. Keys(run.rows \cup good) = Keys(run.rows) \cup Keys(good)
    BY DEF Keys
  <2>5. \A r \in ShardSymbols(run.shard) \ Range(Tail(run.todo)) :
           Certain(r, run.through) \subseteq Keys(run.rows \cup good) \cup (run.rejected \cup Keys(bad))
    BY <1>1, <1>2, <1>3, <1>5, <2>4 DEF ShardInv, Fetching
  <2> QED
    BY <1>1, <1>2, <1>6, <1>7, <2>2, <2>3, <2>5 DEF Fetching, ShardSymbols, Certain, Window, Keys, Key
<1> QED
  BY <1>8, <1>9, <1>10 DEF ShardInv

\* What a run has to quarantine is of its id.
LEMMA QuarantinedTyped ==
  ASSUME ShardInv, run.pc = "fetch"
  PROVE  Quarantined \subseteq [run : Days \X Shards, key : Symbols \X Days]
  BY DEF ShardInv, TypeOK, Fetching, Quarantined, RunId

LEMMA StagePreserves ==
  ASSUME ShardInv, Stage
  PROVE  ShardInv'
<1>1. /\ run.pc = "fetch" /\ run.todo = <<>> /\ run.rows \subseteq Rows
      /\ Conflicts(run.rows) = {} /\ ~Occupied
      /\ quarantine' = quarantine \cup Quarantined
      /\ run' = [run EXCEPT !.pc = "promote", !.rows = NewRows]
      /\ UNCHANGED <<today, upto, corrected, lake, files, manifests, degraded, conflicted>>
  BY DEF Stage, ShardInv, TypeOK, provider, runs
<1>2. /\ run' \in [pc : {"idle", "fetch", "promote"}, shard : Shards, through : 0 .. LastDay,
                    todo : Seq(Symbols), rows : SUBSET Rows, rejected : SUBSET (Symbols \X Days)]
      /\ run'.pc = "promote" /\ run'.shard = run.shard /\ run'.through = run.through
      /\ run'.rows = NewRows /\ run'.rejected = run.rejected
  BY <1>1 DEF ShardInv, TypeOK, NewRows
<1>3. \A m \in Months(run'.rows) : FileOf(m)' \notin files'
  BY <1>1, <1>2 DEF Occupied, FileOf
<1>4. TypeOK'
  <2>1. quarantine' \subseteq [run : Days \X Shards, key : Symbols \X Days]
    BY <1>1, QuarantinedTyped DEF ShardInv, TypeOK
  <2> QED
    BY <1>1, <1>2, <1>3, <2>1 DEF ShardInv, TypeOK
<1>5. Published' /\ OneVersion' /\ Manifested' /\ Fetching'
  BY <1>1, <1>2 DEF ShardInv, Published, OneVersion, Manifested, Fetching, Keys, Key, Certain,
         Window, ShardSymbols, SetAsideBy
<1>6. Promoting'
  <2>1. Range(run.todo) = {}
    BY <1>1 DEF Range
  <2>2. Unambiguous(NewRows)
    BY <1>1 DEF ShardInv, Fetching, Unambiguous, NewRows
  <2>3. Keys(NewRows) \cap Keys(lake) = {}
    BY <1>1 DEF NewRows, Conflicts, Keys
  <2>4. Keys(run.rows) \subseteq Keys(NewRows) \cup Keys(lake)
    BY DEF NewRows, Keys
  <2>5. \A s \in ShardSymbols(run.shard) :
           Certain(s, run.through) \subseteq Keys(NewRows) \cup Keys(lake) \cup run.rejected
    BY <1>1, <2>1, <2>4 DEF ShardInv, Fetching
  <2>6. run.through \in Days
    BY <1>1 DEF ShardInv, Fetching
  <2>7. (Quarantined \subseteq quarantine)'
    BY <1>1, <1>2 DEF Quarantined, RunId
  <2> QED
    BY <1>1, <1>2, <2>2, <2>3, <2>5, <2>6, <2>7
    DEF Promoting, Unambiguous, ShardSymbols, Certain, Window, Keys, Key
<1> QED
  BY <1>4, <1>5, <1>6 DEF ShardInv

LEMMA RefusePreserves ==
  ASSUME ShardInv, Refuse
  PROVE  ShardInv'
<1>1. RunId \in Days \X Shards
  BY DEF Refuse, ShardInv, TypeOK, Fetching, RunId
<1>2. conflicted' \subseteq Days \X Shards
  BY <1>1 DEF Refuse, ShardInv, TypeOK
<1>3. /\ quarantine \subseteq quarantine'
      /\ quarantine' \subseteq [run : Days \X Shards, key : Symbols \X Days]
  BY QuarantinedTyped DEF Refuse, ShardInv, TypeOK
<1> QED
  BY <1>2, <1>3, IdlePreserves DEF Refuse

LEMMA PromotePreserves ==
  ASSUME ShardInv, Promote
  PROVE  ShardInv'
<1> DEFINE m == Min(Months(run.rows))
           now == {row \in run.rows : MonthOf[row.day] = m}
<1>1. now \subseteq run.rows /\ \A row \in run.rows \ now : MonthOf[row.day] # m
  OBVIOUS
<1>2. lake' = lake \cup now /\ files' = files \cup {FileOf(m)} /\ run' = [run EXCEPT !.rows = @ \ now]
  BY DEF Promote
<1> HIDE DEF m, now
<1>3. /\ run.pc = "promote" /\ run.rows \subseteq Rows
      /\ UNCHANGED <<today, upto, corrected, manifests, degraded, quarantine, conflicted>>
  BY DEF Promote, ShardInv, TypeOK, provider
<1>4. /\ run' \in [pc : {"idle", "fetch", "promote"}, shard : Shards, through : 0 .. LastDay,
                    todo : Seq(Symbols), rows : SUBSET Rows, rejected : SUBSET (Symbols \X Days)]
      /\ run'.pc = "promote" /\ run'.shard = run.shard /\ run'.through = run.through
      /\ run'.rows = run.rows \ now /\ run'.rejected = run.rejected
  BY <1>1, <1>2, <1>3 DEF ShardInv, TypeOK
<1>5. \A n \in Months(run'.rows) : FileOf(n)' \notin files'
  <2>1. \A n \in Months(run'.rows) : n \in Months(run.rows) /\ n # m
    BY <1>1, <1>4 DEF Months
  <2>2. \A n \in Months(run.rows) : FileOf(n) \notin files
    BY <1>3 DEF ShardInv, TypeOK
  <2> QED
    BY <1>2, <1>4, <2>1, <2>2 DEF FileOf
<1>6. TypeOK'
  BY <1>1, <1>2, <1>3, <1>4, <1>5 DEF ShardInv, TypeOK
<1>7. OneVersion'
  <2>1. \A row \in now, other \in lake : Key(row) # Key(other)
    BY <1>1, <1>3 DEF ShardInv, Promoting, Keys
  <2>2. \A row, other \in now : Key(row) = Key(other) => row = other
    BY <1>1, <1>3 DEF ShardInv, Promoting, Unambiguous
  <2>3. \A row, other \in lake \cup now : Key(row) = Key(other) => row = other
    BY <2>1, <2>2 DEF ShardInv, OneVersion
  <2> QED
    BY <1>2, <2>3 DEF OneVersion, Key
<1>8. Keys(lake) \subseteq Keys(lake') /\ Keys(lake') = Keys(lake) \cup Keys(now)
  BY <1>2 DEF Keys
<1>9. Published' /\ Fetching' /\ Manifested'
  BY <1>3, <1>4, <1>8 DEF ShardInv, Published, Fetching, Manifested, Keys, Key, Certain, Window,
         ShardSymbols, SetAsideBy
<1>10. Promoting'
  <2>1. Unambiguous(run.rows \ now)
    BY <1>3 DEF ShardInv, Promoting, Unambiguous
  <2>2. Keys(run.rows \ now) \cap Keys(lake') = {}
    BY <1>1, <1>3, <1>8 DEF ShardInv, Promoting, Unambiguous, Keys
  <2>3. Keys(run.rows) \cup Keys(lake) \subseteq Keys(run.rows \ now) \cup Keys(lake')
    BY <1>8 DEF Keys
  <2>4. \A s \in ShardSymbols(run.shard) :
           Certain(s, run.through) \subseteq Keys(run.rows \ now) \cup Keys(lake') \cup run.rejected
    BY <1>3, <2>3 DEF ShardInv, Promoting
  <2>5. run.through \in Days
    BY <1>3 DEF ShardInv, Promoting
  <2>6. (Quarantined \subseteq quarantine)'
    BY <1>3, <1>4 DEF ShardInv, Promoting, Quarantined, RunId
  <2> QED
    BY <1>4, <2>1, <2>2, <2>4, <2>5, <2>6
    DEF Promoting, Unambiguous, ShardSymbols, Certain, Window, Keys, Key
<1> QED
  BY <1>6, <1>7, <1>9, <1>10 DEF ShardInv

LEMMA WriteManifestPreserves ==
  ASSUME ShardInv, WriteManifest
  PROVE  ShardInv'
<1>1. /\ run.pc = "promote" /\ run.rows = {} /\ run.through \in Days /\ run.shard \in Shards
      /\ manifests' = manifests \cup {RunId} /\ run' = Idle
      /\ degraded' = IF run.rejected = {} THEN degraded \ {RunId} ELSE degraded \cup {RunId}
      /\ UNCHANGED <<today, upto, corrected, lake, files, quarantine, conflicted>>
  BY DEF WriteManifest, ShardInv, TypeOK, Promoting, provider
<1>2. RunId \in Days \X Shards /\ RunId[1] = run.through /\ RunId[2] = run.shard
  BY <1>1 DEF RunId
<1>3. TypeOK'
  BY <1>1, <1>2, IdleTyped DEF ShardInv, TypeOK
<1>4. \A s \in ShardSymbols(run.shard) : Certain(s, run.through) \subseteq Keys(lake) \cup run.rejected
  BY <1>1 DEF ShardInv, Promoting, Keys
<1>5. Manifested'
  <2> SUFFICES ASSUME NEW m \in manifests', NEW s \in ShardSymbols(m[2])
               PROVE  Certain(s, m[1]) \subseteq Keys(lake) \cup SetAsideBy(m)'
    BY <1>1 DEF Manifested, ShardSymbols, Certain, Window, Keys, Key
  <2>1. CASE m = RunId
    <3>1. run.rejected \subseteq SetAsideBy(m)'
      <4>1. run.rejected \subseteq Symbols \X Days
        BY DEF ShardInv, TypeOK
      <4>2. \A key \in run.rejected : [run |-> m, key |-> key] \in quarantine
        BY <1>1, <2>1 DEF ShardInv, Promoting, Quarantined
      <4> QED
        BY <1>1, <2>1, <4>1, <4>2 DEF SetAsideBy
    <3> QED
      BY <1>2, <1>4, <2>1, <3>1
  <2>2. CASE m # RunId
    <3>1. m \in manifests /\ SetAsideBy(m)' = SetAsideBy(m)
      BY <1>1, <2>2 DEF SetAsideBy
    <3> QED
      BY <3>1 DEF ShardInv, Manifested
  <2> QED
    BY <2>1, <2>2
<1>6. Published' /\ OneVersion' /\ Fetching' /\ Promoting'
  BY <1>1, IdleTyped DEF ShardInv, Published, OneVersion, Fetching, Promoting, Key
<1> QED
  BY <1>3, <1>5, <1>6 DEF ShardInv

LEMMA ShardInvInductive ==
  ASSUME ShardInv, [Next]_vars
  PROVE  ShardInv'
<1>1. CASE Tick
  BY <1>1, TickPreserves
<1>2. CASE \E s \in Symbols : Publish(s) \/ \E d \in Days : Correct(s, d)
  BY <1>2, PublishPreserves
<1>3. CASE \E k \in Shards : Start(k)
  BY <1>3, StartPreserves
<1>4. CASE Receive
  BY <1>4, ReceivePreserves
<1>5. CASE GiveUp \/ RefuseQuarantine \/ Kill
  BY <1>5, IdlePreserves DEF GiveUp, RefuseQuarantine, Kill, Discard, runs, ShardInv, TypeOK
<1>6. CASE Stage
  BY <1>6, StagePreserves
<1>7. CASE Refuse
  BY <1>7, RefusePreserves
<1>8. CASE Promote
  BY <1>8, PromotePreserves
<1>9. CASE WriteManifest
  BY <1>9, WriteManifestPreserves
<1>10. CASE UNCHANGED vars
  <2>1. UNCHANGED <<today, upto, corrected, lake, files, manifests, degraded, quarantine,
                    conflicted, run>>
    BY <1>10 DEF vars, provider, runs
  <2>2. TypeOK'
    BY <2>1 DEF ShardInv, TypeOK, FileOf
  <2>3. Published' /\ OneVersion' /\ Manifested'
    BY <2>1 DEF ShardInv, Published, OneVersion, Manifested, SetAsideBy, Keys, Key, Certain, Window,
           ShardSymbols
  <2>4. Fetching' /\ Promoting'
    BY <2>1 DEF ShardInv, Fetching, Promoting, Unambiguous, Quarantined, RunId, Keys, Key, Certain,
           Window, ShardSymbols
  <2> QED
    BY <2>2, <2>3, <2>4 DEF ShardInv
<1> QED
  BY <1>1, <1>2, <1>3, <1>4, <1>5, <1>6, <1>7, <1>8, <1>9, <1>10 DEF Next, Provider, Update

\* The inductive invariant of the shard updates (update_tiingo.py, fetch_prices and
\* run_backfill together).
THEOREM ShardInvariant == Spec => []ShardInv
<1>1. Init => ShardInv
  BY InitShardInv
<1>2. ShardInv /\ [Next]_vars => ShardInv'
  BY ShardInvInductive
<1> QED
  BY <1>1, <1>2, PTL DEF Spec

\* Types; and a run never replaces a file of an earlier run with its id.
THEOREM ShardTypesCorrect == Spec => []TypeOK
<1>1. ShardInv => TypeOK
  BY DEF ShardInv
<1> QED
  BY <1>1, ShardInvariant, PTL

\* However often a window is read again and whatever the provider has corrected in
\* the meantime, deduplicate_rows keeps the lake at one version of each row.
THEOREM NeverTwoVersions == Spec => []OneVersion
<1>1. ShardInv => OneVersion
  BY DEF ShardInv
<1> QED
  BY <1>1, ShardInvariant, PTL

\* A day all of whose shards have manifests is complete, for any universe and shard
\* size: the shards cover the universe, and each manifest stands for its whole window,
\* in the lake or, when it says degraded, in the quarantine file of its run.
THEOREM CompleteDays == Spec => []DayComplete
<1>1. ShardInv => DayComplete
  <2> SUFFICES ASSUME Manifested, NEW d \in Days, \A k \in Shards : <<d, k>> \in manifests,
                      NEW s \in Symbols
               PROVE  Certain(s, d) \subseteq Keys(lake) \cup SetAside(d)
    BY DEF ShardInv, DayComplete
  <2>1. PICK k \in Shards : s \in ShardSymbols(k)
    BY ShardsCover
  <2>2. SetAsideBy(<<d, k>>) \subseteq SetAside(d)
    <3> SUFFICES ASSUME NEW key \in SetAsideBy(<<d, k>>) PROVE key \in SetAside(d)
      OBVIOUS
    <3>1. PICK q \in quarantine : q = [run |-> <<d, k>>, key |-> key] /\ <<d, k>> \in degraded
      BY DEF SetAsideBy
    <3>2. q.key = key /\ q.run[1] = d /\ q.run \in degraded
      BY <3>1
    <3> QED
      BY <3>2 DEF SetAside
  <2> QED
    BY <2>1, <2>2 DEF Manifested
<1> QED
  BY <1>1, ShardInvariant, PTL

==================================================================================
