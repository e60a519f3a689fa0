---------------------------- MODULE PublicationProofs ----------------------------
(***************************************************************************)
(* Theorems about Publication, for every set of datasets, marts, schedules   *)
(* and executors: a tick launches one run, and what is marked ready exists,  *)
(* was tested as it stands and holds what the run's raw assets reported.     *)
(***************************************************************************)
EXTENDS Publication, TLAPS, SequenceTheorems

\* The types of the tables, and of a run with its fields.
Tables == [Marts -> UNION {[D -> Nat] : D \in SUBSET Datasets}]

RunRecords ==
    [job : Jobs \cup {"none"}, done : SUBSET Ops, failed : SUBSET Ops, left : SUBSET Marts,
     floor : [Datasets -> Nat], tested : Tables, disturbed : BOOLEAN]

Typed ==
    /\ lake \in [Datasets -> Nat] /\ (\A d \in Datasets : lake[d] <= MaxLake[d])
    /\ reported \subseteq Datasets /\ views \subseteq {"staging", "intermediate"}
    /\ mart \in Tables /\ ContentTypeOK(mart)
    /\ writer \in Slots \cup {"nobody", "manual"} /\ manual \subseteq Marts
    /\ queue \in Seq(Jobs)
    /\ run \in [Slots -> RunRecords] /\ \A s \in Slots : ContentTypeOK(run[s].tested)

\* Ticks of the day, their keys and what they launched.
Scheduled ==
    /\ now \in Ticks /\ marked \subseteq DOMAIN TicksAt
    /\ ledger \subseteq (DOMAIN TicksAt) \X (Ticks \cup {0})
    /\ launches \in [DOMAIN TicksAt -> Nat]
    /\ \A s \in Configured :
          /\ s \in marked => launches[s] = 1
          /\ s \notin marked => /\ now \in TicksAt[s]
                                /\ launches[s] = IF RunKey(s) \in ledger THEN 1 ELSE 0
    /\ <<"publish", 0>> \in ledger => \E u \in TicksAt["publish"] : u <= now

\* One run executes, and one process has the database.
Exclusive ==
    /\ \A s, t \in Slots : run[s] # Idle /\ run[t] # Idle => s = t
    /\ \A s \in Slots : run[s].left # {} => writer = s
    /\ manual # {} => writer = "manual"

\* Ops were done in the order of the graph.
Ordered(r) ==
    /\ r.done \subseteq Selection(r.job) /\ r.done \cap r.failed = {}
    /\ \A o \in r.done : Upstream(o) \cap Selection(r.job) \subseteq r.done
    /\ r.left # {} => /\ "marts" \in Selection(r.job) \ (r.done \cup r.failed)
                      /\ Upstream("marts") \cap Selection(r.job) \subseteq r.done

\* What the gate tested are the tables c as they are, and none of them is missing.
TestedIn(r, c) ==
    /\ "gate" \in r.done => r.tested # Nothing
    /\ r.tested # Nothing =>
          /\ r.left = {} /\ ("marts" \in Selection(r.job) => "marts" \in r.done)
          /\ r.tested = c \/ r.disturbed
          /\ \A m \in Marts : c[m] # NoTable

\* What the raw assets reported is in the lake l and in the marts built since.
CoveredIn(r, l, c) ==
    /\ \A d \in Datasets : r.floor[d] <= l[d] /\ (r.floor[d] = 0 \/ d \in r.done)
    /\ "marts" \in r.done \/ r.left # {} =>
          \A m \in Marts \ r.left : \A d \in Reads[m] : r.floor[d] <= c[m][d]

RunInv(r, l, c) == Ordered(r) /\ TestedIn(r, c) /\ CoveredIn(r, l, c)

PublicationInv == Typed /\ Scheduled /\ Exclusive /\ \A s \in Slots : RunInv(run[s], lake, mart)

-----------------------------------------------------------------------------
(* The graph and the tables. *)

LEMMA UpstreamOf ==
  /\ {"gate", "marts"} \subseteq Upstream("ready") /\ "marts" \in Upstream("gate")
  /\ "staging" \in Upstream("marts") /\ Datasets \subseteq Upstream("staging")
<1>1. Ops = Datasets \cup {"staging", "intermediate", "marts", "gate", "ready"}
  BY DEF Ops
<1>2. /\ <<"gate", "ready">> \in Edges /\ <<"marts", "ready">> \in Edges
      /\ <<"marts", "gate">> \in Edges /\ <<"staging", "marts">> \in Edges
  BY DEF Edges, LayerEdges
<1>3. \A d \in Datasets : <<d, "staging">> \in Edges
  BY DEF Edges
<1> QED
  BY <1>1, <1>2, <1>3 DEF Upstream

LEMMA Selections ==
  ASSUME NEW job \in Jobs \cup {"none"}
  PROVE  /\ Selection(job) \subseteq Ops
         /\ "ready" \in Selection(job) => "gate" \in Selection(job)
         /\ \A d \in Datasets :
               d \in Selection(job) /\ Selection(job) \cap {"marts", "ready"} # {}
                  => Selection(job) = Ops
  BY DistinctNames DEF Selection, Jobs, Ops

LEMMA NoTableTyped ==
  /\ NoTable \in [{} -> Nat] /\ Nothing \in Tables /\ ContentTypeOK(Nothing)
<1>1. NoTable \in [{} -> Nat] /\ {} \in SUBSET Datasets
  BY DEF NoTable
<1> QED
  BY <1>1 DEF Nothing, Tables, ContentTypeOK

LEMMA IdleTyped == Idle \in RunRecords /\ ContentTypeOK(Idle.tested)
  BY NoTableTyped DEF Idle, RunRecords

\* A table that is built now.
LEMMA ReadingTyped ==
  ASSUME Typed, NEW m \in Marts
  PROVE  /\ Reading(m) \in [Reads[m] -> Nat] /\ Reads[m] \in SUBSET Datasets
         /\ Reading(m) # NoTable
         /\ \A d \in Reads[m] : Reading(m)[d] = lake[d]
<1>1. Reads[m] \in SUBSET Datasets /\ Reads[m] # {}
  BY GraphAssumption
<1>2. DOMAIN Reading(m) = Reads[m] /\ DOMAIN NoTable = {}
  BY DEF Reading, NoTable
<1>3. lake \in [Datasets -> Nat]
  BY DEF Typed
<1>4. Reading(m) \in [Reads[m] -> Nat] /\ \A d \in Reads[m] : Reading(m)[d] = lake[d]
  BY <1>1, <1>3 DEF Reading
<1> QED
  BY <1>1, <1>2, <1>4

LEMMA Replaced ==
  ASSUME Typed, NEW m \in Marts, mart' = [mart EXCEPT ![m] = Reading(m)]
  PROVE  /\ mart' \in Tables /\ ContentTypeOK(mart)'
         /\ mart'[m] = Reading(m) /\ \A n \in Marts \ {m} : mart'[n] = mart[n]
<1>1. Reading(m) \in [Reads[m] -> Nat] /\ Reads[m] \in SUBSET Datasets
  BY ReadingTyped
<1>2. Reading(m) \in UNION {[D -> Nat] : D \in SUBSET Datasets}
  BY <1>1
<1>3. /\ mart' \in Tables /\ mart'[m] = Reading(m) /\ DOMAIN mart' = Marts
      /\ \A n \in Marts \ {m} : mart'[n] = mart[n]
  BY <1>2 DEF Typed, Tables
<1>4. \A n \in Marts : mart'[n] = NoTable \/ mart'[n] \in [Reads[n] -> Nat]
  BY <1>1, <1>3 DEF Typed, ContentTypeOK
<1> QED
  BY <1>3, <1>4 DEF ContentTypeOK

-----------------------------------------------------------------------------
(* The run's part of the invariant. *)

CanStart(r, o) ==
    /\ o \in Selection(r.job) \ (r.done \cup r.failed)
    /\ Upstream(o) \cap Selection(r.job) \subseteq r.done
    /\ r.left = {}

LEMMA IdleInv ==
  ASSUME NEW l \in [Datasets -> Nat], NEW c
  PROVE  RunInv(Idle, l, c)
<1>1. /\ Idle.done = {} /\ Idle.failed = {} /\ Idle.left = {} /\ Idle.tested = Nothing
      /\ \A d \in Datasets : Idle.floor[d] = 0
  BY DEF Idle
<1>2. Ordered(Idle)
  BY <1>1 DEF Ordered
<1>3. TestedIn(Idle, c)
  BY <1>1 DEF TestedIn
<1>4. CoveredIn(Idle, l, c)
  BY <1>1 DEF CoveredIn
<1> QED
  BY <1>2, <1>3, <1>4 DEF RunInv

\* The lake grows.
LEMMA GrowInv ==
  ASSUME NEW r \in RunRecords, NEW l \in [Datasets -> Nat], NEW k \in [Datasets -> Nat], NEW c,
         RunInv(r, l, c), \A d \in Datasets : l[d] <= k[d]
  PROVE  RunInv(r, k, c)
<1>1. \A d \in Datasets : r.floor[d] \in Nat /\ l[d] \in Nat /\ k[d] \in Nat
  BY DEF RunRecords
<1>2. CoveredIn(r, k, c)
  BY <1>1 DEF RunInv, CoveredIn
<1> QED
  BY <1>2 DEF RunInv

\* An op other than the marts is done.
LEMMA DoneInv ==
  ASSUME NEW r \in RunRecords, NEW l, NEW c, RunInv(r, l, c), NEW o \in Ops,
         CanStart(r, o), o # "marts", o = "gate" => r.tested # Nothing
  PROVE  /\ [r EXCEPT !.done = @ \cup {o}] \in RunRecords
         /\ RunInv([r EXCEPT !.done = @ \cup {o}], l, c)
<1> DEFINE q == [r EXCEPT !.done = @ \cup {o}]
<1>1. /\ q \in RunRecords /\ q.job = r.job /\ q.done = r.done \cup {o} /\ q.failed = r.failed
      /\ q.left = r.left /\ q.floor = r.floor /\ q.tested = r.tested /\ q.disturbed = r.disturbed
  BY DEF RunRecords
<1> HIDE DEF q
<1>2. Ordered(q)
  BY <1>1 DEF RunInv, Ordered, CanStart
<1>3. TestedIn(q, c)
  BY <1>1 DEF RunInv, TestedIn, CanStart
<1>4. CoveredIn(q, l, c)
  BY <1>1 DEF RunInv, CoveredIn, CanStart
<1> QED
  BY <1>1, <1>2, <1>3, <1>4 DEF RunInv, q

\* An op fails, the marts perhaps after some of them were built.
LEMMA FailedInv ==
  ASSUME NEW r \in RunRecords, NEW l, NEW c, RunInv(r, l, c), NEW o \in Ops,
         CanStart(r, o) \/ (o = "marts" /\ r.left # {})
  PROVE  /\ [r EXCEPT !.failed = @ \cup {o}, !.left = {}] \in RunRecords
         /\ RunInv([r EXCEPT !.failed = @ \cup {o}, !.left = {}], l, c)
<1> DEFINE q == [r EXCEPT !.failed = @ \cup {o}, !.left = {}]
<1>1. /\ q \in RunRecords /\ q.job = r.job /\ q.done = r.done /\ q.failed = r.failed \cup {o}
      /\ q.left = {} /\ q.floor = r.floor /\ q.tested = r.tested /\ q.disturbed = r.disturbed
  BY DEF RunRecords
<1> HIDE DEF q
<1>2. Ordered(q)
  BY <1>1 DEF RunInv, Ordered, CanStart
<1>3. TestedIn(q, c)
  BY <1>1 DEF RunInv, TestedIn
<1>4. CoveredIn(q, l, c)
  BY <1>1 DEF RunInv, CoveredIn, Ordered
<1> QED
  BY <1>1, <1>2, <1>3, <1>4 DEF RunInv, q

-----------------------------------------------------------------------------
(* A step of the run that executes. *)

LEMMA SlotStep ==
  ASSUME PublicationInv, NEW s \in Slots, run[s] # Idle, NEW r \in RunRecords,
         run' = [run EXCEPT ![s] = r], lake' \in [Datasets -> Nat],
         ContentTypeOK(r.tested), RunInv(r, lake', mart'), r.left # {} => writer' = s
  PROVE  /\ run' \in [Slots -> RunRecords]
         /\ \A t \in Slots : ContentTypeOK(run'[t].tested)
         /\ \A t \in Slots : RunInv(run'[t], lake', mart')
         /\ \A t, u \in Slots : run'[t] # Idle /\ run'[u] # Idle => t = u
         /\ \A t \in Slots : run'[t].left # {} => writer' = t
<1>1. run \in [Slots -> RunRecords] /\ \A t \in Slots \ {s} : run[t] = Idle
  BY DEF PublicationInv, Typed, Exclusive
<1>2. /\ run' \in [Slots -> RunRecords] /\ run'[s] = r
      /\ \A t \in Slots \ {s} : run'[t] = Idle
  BY <1>1
<1>3. Idle.left = {}
  BY DEF Idle
<1>4. RunInv(Idle, lake', mart')
  BY IdleInv
<1>5. \A t \in Slots : RunInv(run'[t], lake', mart')
  BY <1>2, <1>4
<1>6. \A t \in Slots : ContentTypeOK(run'[t].tested)
  BY <1>2, IdleTyped
<1> QED
  BY <1>2, <1>3, <1>5, <1>6
-----------------------------------------------------------------------------
(* The schedules' part of the invariant. *)

LEMMA SamePlan ==
  ASSUME Scheduled, UNCHANGED daemon
  PROVE  Scheduled'
  BY DEF Scheduled, daemon, RunKey

LEMMA TickSchedules ==
  ASSUME PublicationInv, Tick
  PROVE  Scheduled'
<1>1. PICK t \in Ticks :
         /\ IF \A u \in Ticks : u <= now THEN \A u \in Ticks : t <= u
            ELSE t > now /\ \A u \in Ticks : u > now => t <= u
         /\ now' = t
         /\ ledger' = IF t <= now THEN {} ELSE {k \in ledger : k[2] = 0}
         /\ marked' = {s \in DOMAIN TicksAt : t \notin TicksAt[s] \/ s \notin Configured}
         /\ launches' = [s \in DOMAIN TicksAt |-> IF t \in TicksAt[s] THEN 0 ELSE 1]
  BY DEF Tick
<1>2. now \in Ticks /\ now \in Nat /\ t \in Nat /\ t # 0
  BY ScheduleAssumption DEF PublicationInv, Scheduled
<1>3. /\ marked' \subseteq DOMAIN TicksAt /\ launches' \in [DOMAIN TicksAt -> Nat]
      /\ now' \in Ticks /\ ledger' \subseteq (DOMAIN TicksAt) \X (Ticks \cup {0})
  BY <1>1 DEF PublicationInv, Scheduled
<1>4. <<"publish", 0>> \in ledger' => \E u \in TicksAt["publish"] : u <= now /\ u <= now' /\ now < now'
  <2>1. CASE t <= now
    BY <1>1, <2>1
  <2>2. CASE ~(t <= now)
    <3>1. SUFFICES ASSUME <<"publish", 0>> \in ledger'
                   PROVE  \E u \in TicksAt["publish"] : u <= now /\ u <= now' /\ now < now'
      OBVIOUS
    <3>2. PICK u \in TicksAt["publish"] : u <= now
      BY <1>1, <2>2, <3>1 DEF PublicationInv, Scheduled
    <3>3. u \in Nat
      BY <1>1, <2>2, <3>1, ScheduleAssumption DEF PublicationInv, Scheduled
    <3> QED
      BY <1>1, <1>2, <2>2, <3>2, <3>3
  <2> QED
    BY <2>1, <2>2
<1>5. ASSUME NEW s \in Configured, s \notin marked'
      PROVE  now' \in TicksAt[s] /\ launches'[s] = 0 /\ RunKey(s)' \notin ledger'
  <2>1. s \in DOMAIN TicksAt /\ t \in TicksAt[s]
    BY <1>1, <1>5, ScheduleAssumption
  <2>2. CASE s # "publish"
    BY <1>1, <1>2, <2>1, <2>2 DEF RunKey
  <2>3. CASE s = "publish"
    BY <1>1, <1>2, <1>4, <2>1, <2>3, ScheduleAssumption DEF RunKey
  <2> QED
    BY <1>1, <2>1, <2>2, <2>3
<1>6. \A s \in Configured : s \in marked' => launches'[s] = 1
  BY <1>1
<1> QED
  BY <1>3, <1>4, <1>5, <1>6 DEF Scheduled

LEMMA EvaluateSchedules ==
  ASSUME PublicationInv, NEW s \in Configured, Evaluate(s)
  PROVE  Scheduled'
<1>1. /\ now \in TicksAt[s] /\ s \notin marked /\ s \in DOMAIN TicksAt /\ now' = now
      /\ marked' \in {marked, marked \cup {s}}
  BY ScheduleAssumption DEF Evaluate, Due
<1>2. launches[s] = IF RunKey(s) \in ledger THEN 1 ELSE 0
  BY <1>1 DEF PublicationInv, Scheduled
<1>3. /\ ledger' = ledger \cup {RunKey(s)}
      /\ launches' = [launches EXCEPT ![s] = 1]
  BY <1>1, <1>2 DEF Evaluate, PublicationInv, Scheduled
<1>4. RunKey(s) \in (DOMAIN TicksAt) \X (Ticks \cup {0})
  BY <1>1 DEF RunKey, PublicationInv, Scheduled
<1>5. /\ now' \in Ticks /\ marked' \subseteq DOMAIN TicksAt
      /\ ledger' \subseteq (DOMAIN TicksAt) \X (Ticks \cup {0})
      /\ launches' \in [DOMAIN TicksAt -> Nat]
  BY <1>1, <1>3, <1>4 DEF PublicationInv, Scheduled
<1>6. ASSUME NEW c \in Configured
      PROVE  /\ c \in marked' => launches'[c] = 1
             /\ c \notin marked' => /\ now' \in TicksAt[c]
                                    /\ launches'[c] = IF RunKey(c)' \in ledger' THEN 1 ELSE 0
  <2>1. RunKey(c)' = RunKey(c) /\ (c # s => RunKey(c) # RunKey(s))
    BY <1>1 DEF RunKey
  <2>2. CASE c = s
    BY <1>1, <1>3, <2>1, <2>2 DEF PublicationInv, Scheduled
  <2>3. CASE c # s
    BY <1>1, <1>3, <2>1, <2>3 DEF PublicationInv, Scheduled
  <2> QED
    BY <2>2, <2>3
<1>7. <<"publish", 0>> \in ledger' => \E u \in TicksAt["publish"] : u <= now'
  <2>1. CASE <<"publish", 0>> \in ledger
    BY <1>1, <2>1 DEF PublicationInv, Scheduled
  <2>2. CASE <<"publish", 0>> = RunKey(s)
    <3>1. s = "publish" /\ now <= now
      BY <2>2, ScheduleAssumption DEF RunKey, PublicationInv, Scheduled
    <3> QED
      BY <1>1, <3>1
  <2> QED
    BY <1>3, <2>1, <2>2
<1> QED
  BY <1>5, <1>6, <1>7 DEF Scheduled

-----------------------------------------------------------------------------
(* Every action preserves the invariant. *)

\* The typed variables next to the runs, the queue and the schedules.
Surroundings ==
    /\ lake \in [Datasets -> Nat] /\ (\A d \in Datasets : lake[d] <= MaxLake[d])
    /\ reported \subseteq Datasets /\ views \subseteq {"staging", "intermediate"}
    /\ mart \in Tables /\ ContentTypeOK(mart)
    /\ writer \in Slots \cup {"nobody", "manual"} /\ manual \subseteq Marts
    /\ manual # {} => writer = "manual"

LEMMA RunStep ==
  ASSUME PublicationInv, NEW s \in Slots, run[s] # Idle, NEW r \in RunRecords,
         run' = [run EXCEPT ![s] = r], UNCHANGED <<queue, daemon>>, Surroundings',
         ContentTypeOK(r.tested), RunInv(r, lake', mart'), r.left # {} => writer' = s
  PROVE  PublicationInv'
<1>1. /\ run' \in [Slots -> RunRecords]
      /\ \A t \in Slots : ContentTypeOK(run'[t].tested)
      /\ \A t \in Slots : RunInv(run'[t], lake', mart')
      /\ \A t, u \in Slots : run'[t] # Idle /\ run'[u] # Idle => t = u
      /\ \A t \in Slots : run'[t].left # {} => writer' = t
  BY SlotStep DEF Surroundings
<1>2. Typed'
  BY <1>1 DEF Surroundings, PublicationInv, Typed, ContentTypeOK
<1>3. Exclusive'
  BY <1>1 DEF Surroundings, Exclusive
<1>4. Scheduled'
  BY SamePlan DEF PublicationInv
<1> QED
  BY <1>1, <1>2, <1>3, <1>4 DEF PublicationInv

\* Steps that leave the runs alone; the lake may grow.
LEMMA OutsideStep ==
  ASSUME PublicationInv, UNCHANGED <<run, mart>>, Surroundings', queue' \in Seq(Jobs), Scheduled',
         \A d \in Datasets : lake[d] <= lake'[d],
         \A s \in Slots : run[s].left # {} => writer' = s
  PROVE  PublicationInv'
<1>1. Typed'
  BY DEF Surroundings, PublicationInv, Typed, ContentTypeOK
<1>2. Exclusive'
  BY DEF Surroundings, PublicationInv, Exclusive
<1>3. ASSUME NEW s \in Slots
      PROVE  RunInv(run'[s], lake', mart')
  <2>1. /\ run[s] \in RunRecords /\ RunInv(run[s], lake, mart)
        /\ lake \in [Datasets -> Nat] /\ lake' \in [Datasets -> Nat]
    BY DEF PublicationInv, Typed, Surroundings
  <2> QED
    BY <2>1, GrowInv
<1> QED
  BY <1>1, <1>2, <1>3 DEF PublicationInv

LEMMA InitInv ==
  ASSUME Init
  PROVE  PublicationInv
<1>1. Typed
  BY NoTableTyped, IdleTyped, PublicationBounds DEF Init, Typed
<1>2. Scheduled
  BY ScheduleAssumption DEF Init, Scheduled
<1>3. Exclusive
  BY DEF Init, Exclusive, Idle
<1>4. \A s \in Slots : RunInv(run[s], lake, mart)
  BY <1>1, IdleInv DEF Init, Typed
<1> QED
  BY <1>1, <1>2, <1>3, <1>4 DEF PublicationInv

LEMMA TickPreserves ==
  ASSUME PublicationInv, Tick
  PROVE  PublicationInv'
<1>1. UNCHANGED <<lake, reported, views, mart, writer, manual, queue, run>>
  BY DEF Tick, files, database
<1>2. Surroundings'
  BY <1>1 DEF PublicationInv, Typed, Exclusive, Surroundings, ContentTypeOK
<1> QED
  BY <1>1, <1>2, TickSchedules, OutsideStep DEF PublicationInv, Typed, Exclusive

LEMMA EvaluatePreserves ==
  ASSUME PublicationInv, NEW s \in Configured, Evaluate(s)
  PROVE  PublicationInv'
<1>1. UNCHANGED <<lake, reported, views, mart, writer, manual, run>>
  BY DEF Evaluate, files, database
<1>2. Surroundings'
  BY <1>1 DEF PublicationInv, Typed, Exclusive, Surroundings, ContentTypeOK
<1>3. queue' \in Seq(Jobs)
  <2>1. s \in Datasets \cup {"publish"}
    BY ScheduleAssumption
  <2>2. (IF s = "publish" THEN "daily_incremental" ELSE s) \in Jobs
    BY <2>1 DEF Jobs
  <2> QED
    BY <2>2 DEF Evaluate, PublicationInv, Typed
<1> QED
  BY <1>1, <1>2, <1>3, EvaluateSchedules, OutsideStep DEF PublicationInv, Typed, Exclusive

LEMMA RequestPreserves ==
  ASSUME PublicationInv, NEW job \in Requested, Request(job)
  PROVE  PublicationInv'
<1>1. UNCHANGED <<lake, reported, views, mart, writer, manual, run, daemon>>
  BY DEF Request, files, database
<1>2. Surroundings'
  BY <1>1 DEF PublicationInv, Typed, Exclusive, Surroundings, ContentTypeOK
<1>3. queue' \in Seq(Jobs)
  BY RequestedAssumption DEF Request, PublicationInv, Typed
<1> QED
  BY <1>1, <1>2, <1>3, SamePlan, OutsideStep DEF PublicationInv, Typed, Exclusive

\* A run that waited is given to a free slot: every other slot is free, too.
LEMMA LaunchPreserves ==
  ASSUME PublicationInv, NEW s \in Slots, Launch(s)
  PROVE  PublicationInv'
<1> DEFINE r == [Idle EXCEPT !.job = Head(queue)]
<1>1. /\ UNCHANGED <<lake, reported, views, mart, writer, manual, daemon>>
      /\ queue # <<>> /\ queue \in Seq(Jobs) /\ queue' = Tail(queue)
      /\ run \in [Slots -> RunRecords] /\ \A t \in Slots : run[t] = Idle
      /\ run' = [run EXCEPT ![s] = r]
  BY DEF Launch, NoneRunning, files, database, PublicationInv, Typed
<1>2. Head(queue) \in Jobs /\ queue' \in Seq(Jobs)
  BY <1>1
<1>3. /\ r \in RunRecords /\ r.done = {} /\ r.failed = {} /\ r.left = {} /\ r.tested = Nothing
      /\ \A d \in Datasets : r.floor[d] = 0
  BY <1>2, NoTableTyped DEF RunRecords, Idle
<1> HIDE DEF r
<1>4. RunInv(r, lake', mart')
  <2>1. lake' \in [Datasets -> Nat]
    BY <1>1 DEF PublicationInv, Typed
  <2>2. Ordered(r) /\ TestedIn(r, mart')
    BY <1>3 DEF Ordered, TestedIn
  <2>3. CoveredIn(r, lake', mart')
    BY <1>3, <2>1 DEF CoveredIn
  <2> QED
    BY <2>2, <2>3 DEF RunInv
<1>5. run'[s] = r /\ \A t \in Slots \ {s} : run'[t] = Idle
  BY <1>1
<1>6. Typed'
  BY <1>1, <1>2, <1>3, <1>5, NoTableTyped, IdleTyped DEF PublicationInv, Typed, ContentTypeOK
<1>7. Exclusive'
  BY <1>1, <1>3, <1>5 DEF PublicationInv, Exclusive, Idle
<1>8. \A t \in Slots : RunInv(run'[t], lake', mart')
  BY <1>4, <1>5, <1>6, IdleInv DEF Typed
<1> QED
  BY <1>1, <1>6, <1>7, <1>8, SamePlan DEF PublicationInv

\* What every step of the run of slot s starts from.
LEMMA RunOf ==
  ASSUME PublicationInv, NEW s \in Slots
  PROVE  /\ run \in [Slots -> RunRecords] /\ run[s] \in RunRecords
         /\ RunInv(run[s], lake, mart) /\ ContentTypeOK(run[s].tested)
         /\ lake \in [Datasets -> Nat] /\ mart \in Tables
         /\ Surroundings
  BY DEF PublicationInv, Typed, Exclusive, Surroundings

\* An op that changes neither files nor tables is done.
LEMMA DonePreserves ==
  ASSUME PublicationInv, NEW s \in Slots, run[s] # Idle, NEW o \in Ops,
         Startable(s, o), Done(s, o), o # "marts", o = "gate" => run[s].tested # Nothing,
         UNCHANGED <<lake, reported, mart, writer, manual, queue, daemon>>,
         views' \subseteq {"staging", "intermediate"}
  PROVE  PublicationInv'
<1> DEFINE r == [run[s] EXCEPT !.done = @ \cup {o}]
<1>1. run' = [run EXCEPT ![s] = r]
  BY DEF Done
<1>2. CanStart(run[s], o)
  BY DEF Startable, CanStart
<1>3. r \in RunRecords /\ RunInv(r, lake, mart)
  BY <1>2, RunOf, DoneInv
<1>4. ContentTypeOK(r.tested) /\ r.left = {}
  BY <1>2, RunOf DEF RunRecords, CanStart
<1>5. Surroundings'
  BY RunOf DEF Surroundings, ContentTypeOK
<1> HIDE DEF r
<1> QED
  BY <1>1, <1>3, <1>4, <1>5, RunStep

LEMMA MaterializePreserves ==
  ASSUME PublicationInv, NEW s \in Slots, NEW d \in Datasets, Materialize(s, d)
  PROVE  PublicationInv'
<1> DEFINE r == [run[s] EXCEPT !.done = @ \cup {d}, !.floor[d] = lake'[d]]
<1>1. /\ run[s] # Idle /\ Startable(s, d) /\ run' = [run EXCEPT ![s] = r]
      /\ UNCHANGED <<views, mart, writer, manual, queue, daemon>>
  BY DEF Materialize, Running, database
<1>2. /\ lake' \in [Datasets -> Nat] /\ reported' \subseteq Datasets
      /\ \A e \in Datasets : lake[e] <= lake'[e] /\ lake'[e] <= MaxLake[e]
  <2>1. /\ lake \in [Datasets -> Nat] /\ reported \subseteq Datasets
        /\ \A e \in Datasets : lake[e] \in Nat /\ lake[e] <= MaxLake[e]
    BY RunOf DEF Surroundings
  <2>2. CASE UNCHANGED files
    BY <2>1, <2>2 DEF files
  <2>3. CASE ~UNCHANGED files
    BY <2>1, <2>3 DEF Materialize
  <2> QED
    BY <2>2, <2>3
<1>3. Surroundings'
  BY <1>1, <1>2, RunOf DEF Surroundings, ContentTypeOK
<1>4. CanStart(run[s], d)
  BY <1>1 DEF Startable, CanStart
<1>5. RunInv(run[s], lake', mart)
  BY <1>2, RunOf, GrowInv
<1>6. /\ r \in RunRecords /\ r.job = run[s].job /\ r.done = run[s].done \cup {d}
      /\ r.failed = run[s].failed /\ r.left = {} /\ r.tested = run[s].tested
      /\ r.disturbed = run[s].disturbed /\ r.floor[d] = lake'[d]
      /\ \A e \in Datasets \ {d} : r.floor[e] = run[s].floor[e]
  BY <1>2, <1>4, RunOf DEF RunRecords, CanStart, Ops
<1> HIDE DEF r
<1>7. Ordered(r)
  BY <1>4, <1>5, <1>6 DEF RunInv, Ordered, CanStart
<1>8. TestedIn(r, mart)
  BY <1>4, <1>5, <1>6, DistinctNames DEF RunInv, TestedIn
<1>9. "marts" \notin r.done
  <2>1. SUFFICES ASSUME "marts" \in run[s].done
                 PROVE  FALSE
    BY <1>6, DistinctNames
  <2>2. Selection(run[s].job) = Ops
    BY <1>4, <1>5, <2>1, Selections, RunOf DEF RunInv, Ordered, CanStart, RunRecords
  <2>3. "staging" \in run[s].done
    BY <1>5, <2>1, <2>2, UpstreamOf DEF RunInv, Ordered, Ops
  <2>4. d \in run[s].done
    BY <1>5, <2>2, <2>3, UpstreamOf DEF RunInv, Ordered, Ops
  <2> QED
    BY <1>4, <2>4 DEF CanStart
<1>10. CoveredIn(r, lake', mart)
  <2>1. \A e \in Datasets : r.floor[e] <= lake'[e] /\ (r.floor[e] = 0 \/ e \in r.done)
    BY <1>2, <1>5, <1>6 DEF RunInv, CoveredIn
  <2> QED
    BY <1>6, <1>9, <2>1 DEF CoveredIn
<1>11. RunInv(r, lake', mart') /\ ContentTypeOK(r.tested)
  BY <1>1, <1>6, <1>7, <1>8, <1>10, RunOf DEF RunInv
<1> QED
  BY <1>1, <1>3, <1>6, <1>11, RunStep DEF Surroundings

\* An op fails; the lake may have grown, the database is released.
LEMMA FailedPreserves ==
  ASSUME PublicationInv, NEW s \in Slots, run[s] # Idle, NEW o \in Ops,
         Startable(s, o) \/ (o = "marts" /\ run[s].left # {}),
         run' = [run EXCEPT ![s] = [run[s] EXCEPT !.failed = @ \cup {o}, !.left = {}]],
         UNCHANGED <<lake, views, mart, manual, queue, daemon>>, reported' \subseteq Datasets,
         writer' = writer \/ (writer = s /\ writer' = "nobody")
  PROVE  PublicationInv'
<1> DEFINE r == [run[s] EXCEPT !.failed = @ \cup {o}, !.left = {}]
<1>1. CanStart(run[s], o) \/ (o = "marts" /\ run[s].left # {})
  BY DEF Startable, CanStart
<1>2. r \in RunRecords /\ RunInv(r, lake, mart)
  BY <1>1, RunOf, FailedInv
<1>3. r.left = {} /\ ContentTypeOK(r.tested)
  BY RunOf DEF RunRecords
<1>4. Surroundings'
  BY RunOf, DistinctNames DEF Surroundings, ContentTypeOK
<1> HIDE DEF r
<1> QED
  BY <1>2, <1>3, <1>4, RunStep DEF r

LEMMA FailRawPreserves ==
  ASSUME PublicationInv, NEW s \in Slots, NEW d \in Datasets, FailRaw(s, d)
  PROVE  PublicationInv'
<1>1. /\ run[s] # Idle /\ Startable(s, d) /\ run[s].left = {}
      /\ UNCHANGED <<lake, views, mart, writer, manual, queue, daemon>>
      /\ reported' \subseteq Datasets
  BY DEF FailRaw, Running, Startable, database, PublicationInv, Typed
<1>2. CASE Failed(s, d)
  <2>1. [run[s] EXCEPT !.failed = @ \cup {d}] = [run[s] EXCEPT !.failed = @ \cup {d}, !.left = {}]
    BY <1>1, RunOf DEF RunRecords
  <2> QED
    BY <1>1, <1>2, <2>1, FailedPreserves DEF Failed, Ops
<1>3. CASE run' = run
  <2>1. Surroundings'
    BY <1>1, RunOf DEF Surroundings, ContentTypeOK
  <2>2. \A e \in Datasets : lake[e] <= lake'[e]
    BY <1>1, RunOf
  <2>3. Scheduled' /\ queue' \in Seq(Jobs) /\ \A t \in Slots : run[t].left # {} => writer' = t
    BY <1>1, SamePlan DEF PublicationInv, Typed, Exclusive
  <2> QED
    BY <1>1, <1>3, <2>1, <2>2, <2>3, OutsideStep
<1> QED
  BY <1>2, <1>3 DEF FailRaw

LEMMA BuildViewsPreserves ==
  ASSUME PublicationInv, NEW s \in Slots, NEW o \in {"staging", "intermediate"}, BuildViews(s, o)
  PROVE  PublicationInv'
<1>1. views' \subseteq {"staging", "intermediate"}
  BY RunOf DEF BuildViews, Surroundings
<1> QED
  BY <1>1, DonePreserves DEF BuildViews, Running, Ops, files

LEMMA CheckSourcesPreserves ==
  ASSUME PublicationInv, NEW s \in Slots, CheckSources(s)
  PROVE  PublicationInv'
<1>1. views' \subseteq {"staging", "intermediate"}
  BY RunOf DEF CheckSources, Surroundings, database
<1> QED
  BY <1>1, DonePreserves DEF CheckSources, Running, Ops, files, database

LEMMA MarkReadyPreserves ==
  ASSUME PublicationInv, NEW s \in Slots, MarkReady(s)
  PROVE  PublicationInv'
<1>1. views' \subseteq {"staging", "intermediate"}
  BY RunOf DEF MarkReady, Surroundings, database
<1> QED
  BY <1>1, DonePreserves DEF MarkReady, Running, Ops, files, database

LEMMA FailDbtPreserves ==
  ASSUME PublicationInv, NEW s \in Slots, NEW o \in Ops, FailDbt(s, o)
  PROVE  PublicationInv'
<1>1. reported' \subseteq Datasets
  BY RunOf DEF FailDbt, Surroundings, files
<1>2. writer' = writer \/ (writer = s /\ writer' = "nobody")
  BY DEF FailDbt
<1> QED
  BY <1>1, <1>2, FailedPreserves DEF FailDbt, Running, files

\* The database is taken; the marts are still as they were.
LEMMA BeginMartsPreserves ==
  ASSUME PublicationInv, NEW s \in Slots, BeginMarts(s)
  PROVE  PublicationInv'
<1> DEFINE r == [run[s] EXCEPT !.left = Marts]
<1>1. /\ run[s] # Idle /\ run' = [run EXCEPT ![s] = r] /\ writer = "nobody" /\ writer' = s
      /\ UNCHANGED <<lake, reported, views, mart, manual, queue, daemon>>
      /\ CanStart(run[s], "marts")
  BY DEF BeginMarts, Running, Startable, DbtSucceeds, CanStart, files
<1>2. Surroundings'
  BY <1>1, RunOf DEF Surroundings, ContentTypeOK
<1>3. /\ r \in RunRecords /\ r.job = run[s].job /\ r.done = run[s].done
      /\ r.failed = run[s].failed /\ r.left = Marts /\ r.tested = run[s].tested
      /\ r.disturbed = run[s].disturbed /\ r.floor = run[s].floor
  BY RunOf DEF RunRecords
<1> HIDE DEF r
<1>4. Ordered(r)
  BY <1>1, <1>3, RunOf DEF RunInv, Ordered, CanStart
<1>5. TestedIn(r, mart)
  BY <1>1, <1>3, RunOf DEF RunInv, TestedIn, CanStart
<1>6. CoveredIn(r, lake, mart)
  BY <1>1, <1>3, RunOf DEF RunInv, CoveredIn, CanStart
<1>7. RunInv(r, lake', mart') /\ ContentTypeOK(r.tested)
  BY <1>1, <1>3, <1>4, <1>5, <1>6, RunOf DEF RunInv
<1> QED
  BY <1>1, <1>2, <1>3, <1>7, RunStep

LEMMA BuildMartPreserves ==
  ASSUME PublicationInv, NEW s \in Slots, NEW m \in Marts, BuildMart(s, m)
  PROVE  PublicationInv'
<1>1. /\ m \in run[s].left /\ run[s] # Idle /\ writer = s
      /\ mart' = [mart EXCEPT ![m] = Reading(m)]
      /\ UNCHANGED <<lake, reported, views, manual, queue, daemon>>
  BY DEF BuildMart, PublicationInv, Exclusive, Idle, files
<1>2. /\ mart' \in Tables /\ ContentTypeOK(mart)' /\ mart'[m] = Reading(m)
      /\ \A n \in Marts \ {m} : mart'[n] = mart[n]
      /\ \A d \in Reads[m] : d \in Datasets /\ mart'[m][d] = lake[d]
  BY <1>1, Replaced, ReadingTyped DEF PublicationInv
<1>3. /\ "marts" \in Selection(run[s].job) \ (run[s].done \cup run[s].failed)
      /\ Upstream("marts") \cap Selection(run[s].job) \subseteq run[s].done
      /\ run[s].tested = Nothing
  BY <1>1, RunOf DEF RunInv, Ordered, TestedIn
<1>4. manual = {} /\ "marts" \in Ops
  BY <1>1, DistinctNames DEF PublicationInv, Exclusive, Ops
<1>5. ASSUME NEW r \in RunRecords, NEW done,
             r.left = run[s].left \ {m}, r.done = done, r.job = run[s].job,
             done = IF run[s].left = {m} THEN run[s].done \cup {"marts"} ELSE run[s].done,
             r.failed = run[s].failed, r.tested = run[s].tested, r.floor = run[s].floor
      PROVE  RunInv(r, lake, mart') /\ ContentTypeOK(r.tested)
  <2>1. Ordered(r)
    BY <1>1, <1>3, <1>5, RunOf DEF RunInv, Ordered
  <2>2. TestedIn(r, mart')
    BY <1>3, <1>5, RunOf DEF RunInv, TestedIn
  <2>3. \A n \in Marts \ r.left : \A d \in Reads[n] : r.floor[d] <= mart'[n][d]
    BY <1>1, <1>2, <1>5, RunOf DEF RunInv, CoveredIn
  <2>4. CoveredIn(r, lake, mart')
    BY <1>5, <2>3, RunOf DEF RunInv, CoveredIn
  <2> QED
    BY <1>5, <2>1, <2>2, <2>4, RunOf DEF RunInv
<1>6. CASE run[s].left = {m}
  <2> DEFINE r == [run[s] EXCEPT !.left = {}, !.done = @ \cup {"marts"}]
  <2>1. run' = [run EXCEPT ![s] = r] /\ writer' = "nobody"
    BY <1>6 DEF BuildMart
  <2>2. /\ r \in RunRecords /\ r.left = {} /\ r.done = run[s].done \cup {"marts"}
        /\ r.job = run[s].job /\ r.failed = run[s].failed /\ r.tested = run[s].tested
        /\ r.floor = run[s].floor
    BY <1>4, RunOf DEF RunRecords
  <2> HIDE DEF r
  <2>3. RunInv(r, lake', mart') /\ ContentTypeOK(r.tested)
    BY <1>1, <1>5, <1>6, <2>2
  <2>4. Surroundings'
    BY <1>1, <1>2, <1>4, <2>1, RunOf DEF Surroundings
  <2> QED
    BY <1>1, <2>1, <2>2, <2>3, <2>4, RunStep DEF Surroundings
<1>7. CASE run[s].left # {m}
  <2> DEFINE r == [run[s] EXCEPT !.left = @ \ {m}]
  <2>1. run' = [run EXCEPT ![s] = r] /\ writer' = writer
    BY <1>7 DEF BuildMart
  <2>2. /\ r \in RunRecords /\ r.left = run[s].left \ {m} /\ r.done = run[s].done
        /\ r.job = run[s].job /\ r.failed = run[s].failed /\ r.tested = run[s].tested
        /\ r.floor = run[s].floor
    BY RunOf DEF RunRecords
  <2> HIDE DEF r
  <2>3. RunInv(r, lake', mart') /\ ContentTypeOK(r.tested)
    BY <1>1, <1>5, <1>7, <2>2
  <2>4. Surroundings'
    BY <1>1, <1>2, <1>4, <2>1, RunOf DEF Surroundings
  <2> QED
    BY <1>1, <2>1, <2>2, <2>3, <2>4, RunStep DEF Surroundings
<1> QED
  BY <1>6, <1>7

LEMMA TestMartsPreserves ==
  ASSUME PublicationInv, NEW s \in Slots, TestMarts(s)
  PROVE  PublicationInv'
<1> DEFINE r == [run[s] EXCEPT !.tested = mart, !.disturbed = FALSE]
<1>1. /\ run[s] # Idle /\ run' = [run EXCEPT ![s] = r] /\ CanStart(run[s], "gate")
      /\ UNCHANGED <<lake, reported, views, mart, writer, manual, queue, daemon>>
      /\ \A m \in Marts : mart[m] # NoTable
      /\ "gate" \notin run[s].done /\ run[s].left = {}
  BY DEF TestMarts, Running, Startable, CanStart, DbtSucceeds, Testable, files, database
<1>2. Surroundings'
  BY <1>1, RunOf DEF Surroundings, ContentTypeOK
<1>3. /\ r \in RunRecords /\ r.job = run[s].job /\ r.done = run[s].done
      /\ r.failed = run[s].failed /\ r.left = {} /\ r.tested = mart /\ r.floor = run[s].floor
  BY <1>1, RunOf DEF RunRecords
<1> HIDE DEF r
<1>4. Ordered(r)
  BY <1>1, <1>3, RunOf DEF RunInv, Ordered
<1>5. TestedIn(r, mart)
  <2>1. "marts" \in Selection(r.job) => "marts" \in r.done
    BY <1>1, <1>3, UpstreamOf DEF CanStart
  <2> QED
    BY <1>1, <1>3, <2>1 DEF TestedIn
<1>6. CoveredIn(r, lake, mart)
  BY <1>1, <1>3, RunOf DEF RunInv, CoveredIn
<1>7. RunInv(r, lake', mart') /\ ContentTypeOK(r.tested)
  BY <1>1, <1>3, <1>4, <1>5, <1>6, RunOf DEF RunInv, Surroundings
<1> QED
  BY <1>1, <1>2, <1>3, <1>7, RunStep

LEMMA EndPreserves ==
  ASSUME PublicationInv, NEW s \in Slots, EndRun(s) \/ KillRun(s)
  PROVE  PublicationInv'
<1>1. /\ run[s] # Idle /\ run' = [run EXCEPT ![s] = Idle]
      /\ UNCHANGED <<lake, reported, views, mart, manual, queue, daemon>>
      /\ writer' = writer \/ (writer = s /\ writer' = "nobody")
  BY DEF EndRun, KillRun, Running, files, database
<1>2. Surroundings'
  BY <1>1, RunOf, DistinctNames DEF Surroundings, ContentTypeOK
<1>3. Idle \in RunRecords /\ ContentTypeOK(Idle.tested) /\ Idle.left = {}
  BY IdleTyped DEF Idle
<1>4. RunInv(Idle, lake', mart')
  BY <1>2, IdleInv DEF Surroundings
<1> QED
  BY <1>1, <1>2, <1>3, <1>4, RunStep

\* Commands outside the queue that land files.
LEMMA IngestPreserves ==
  ASSUME PublicationInv, NEW d \in Datasets, Ingest(d)
  PROVE  PublicationInv'
<1>1. /\ lake' = [lake EXCEPT ![d] = @ + 1] /\ lake[d] < MaxLake[d]
      /\ reported' \subseteq Datasets
      /\ UNCHANGED <<views, mart, writer, manual, queue, run, daemon>>
  BY RunOf DEF Ingest, database, PublicationInv, Typed
<1>2. /\ lake \in [Datasets -> Nat] /\ \A e \in Datasets : lake[e] <= MaxLake[e]
      /\ MaxLake \in [Datasets -> Nat]
  BY PublicationBounds DEF PublicationInv, Typed
<1>3. /\ lake' \in [Datasets -> Nat]
      /\ \A e \in Datasets : lake[e] <= lake'[e] /\ lake'[e] <= MaxLake[e]
  BY <1>1, <1>2
<1>4. Surroundings'
  BY <1>1, <1>3 DEF Surroundings, ContentTypeOK, PublicationInv, Typed, Exclusive
<1> QED
  BY <1>1, <1>3, <1>4, SamePlan, OutsideStep DEF PublicationInv, Typed, Exclusive

LEMMA BackfillPreserves ==
  ASSUME PublicationInv, NEW d \in Datasets, BackfillAndRebuild(d)
  PROVE  PublicationInv'
<1>1. /\ lake' \in {lake, [lake EXCEPT ![d] = @ + 1]} /\ lake'[d] <= MaxLake[d]
      /\ reported' \subseteq Datasets /\ manual' \subseteq Marts /\ writer = "nobody"
      /\ writer' = IF manual' = {} THEN "nobody" ELSE "manual"
      /\ UNCHANGED <<views, mart, queue, run, daemon>>
  BY DEF BackfillAndRebuild, PublicationInv, Typed
<1>2. /\ lake \in [Datasets -> Nat] /\ \A e \in Datasets : lake[e] <= MaxLake[e]
  BY DEF PublicationInv, Typed
<1>3. /\ lake' \in [Datasets -> Nat]
      /\ \A e \in Datasets : lake[e] <= lake'[e] /\ lake'[e] <= MaxLake[e]
  BY <1>1, <1>2
<1>4. Surroundings'
  BY <1>1, <1>3 DEF Surroundings, ContentTypeOK, PublicationInv, Typed
<1>5. \A s \in Slots : run[s].left = {}
  BY <1>1, DistinctNames DEF PublicationInv, Exclusive
<1> QED
  BY <1>1, <1>3, <1>4, <1>5, SamePlan, OutsideStep DEF PublicationInv, Typed

LEMMA AbandonPreserves ==
  ASSUME PublicationInv, AbandonRebuild
  PROVE  PublicationInv'
<1>1. /\ manual # {} /\ manual' = {} /\ writer' = "nobody"
      /\ UNCHANGED <<lake, reported, views, mart, queue, run, daemon>>
  BY DEF AbandonRebuild, files
<1>2. Surroundings'
  BY <1>1 DEF Surroundings, ContentTypeOK, PublicationInv, Typed
<1>3. \A s \in Slots : run[s].left = {}
  BY <1>1, DistinctNames DEF PublicationInv, Exclusive
<1>4. \A e \in Datasets : lake[e] <= lake'[e]
  BY <1>1 DEF PublicationInv, Typed
<1> QED
  BY <1>1, <1>2, <1>3, <1>4, SamePlan, OutsideStep DEF PublicationInv, Typed

\* A table is replaced behind the back of the run that executes.
LEMMA RebuildMartPreserves ==
  ASSUME PublicationInv, NEW m \in Marts, RebuildMart(m)
  PROVE  PublicationInv'
<1>1. /\ m \in manual /\ mart' = [mart EXCEPT ![m] = Reading(m)] /\ manual' = manual \ {m}
      /\ writer' = IF manual' = {} THEN "nobody" ELSE writer
      /\ run' = [s \in Slots |-> IF run[s] = Idle THEN Idle ELSE [run[s] EXCEPT !.disturbed = TRUE]]
      /\ UNCHANGED <<lake, reported, views, queue, daemon>>
  BY DEF RebuildMart, files
<1>2. /\ mart' \in Tables /\ ContentTypeOK(mart)' /\ mart'[m] = Reading(m)
      /\ mart'[m] # NoTable /\ \A n \in Marts \ {m} : mart'[n] = mart[n]
      /\ \A d \in Reads[m] : d \in Datasets /\ mart'[m][d] = lake[d]
  BY <1>1, Replaced, ReadingTyped DEF PublicationInv
<1>3. writer = "manual" /\ \A s \in Slots : run[s].left = {}
  BY <1>1, DistinctNames DEF PublicationInv, Exclusive
<1>4. ASSUME NEW s \in Slots
      PROVE  /\ run'[s] \in RunRecords /\ run'[s].left = {} /\ (run'[s] # Idle => run[s] # Idle)
             /\ ContentTypeOK(run'[s].tested) /\ RunInv(run'[s], lake', mart')
  <2>1. CASE run[s] = Idle
    <3>1. run'[s] = Idle /\ lake' \in [Datasets -> Nat]
      BY <1>1, <2>1, RunOf
    <3>2. Idle.left = {}
      BY DEF Idle
    <3>3. RunInv(Idle, lake', mart')
      BY <3>1, IdleInv
    <3> QED
      BY <2>1, <3>1, <3>2, <3>3, IdleTyped
  <2>2. CASE run[s] # Idle
    <3> DEFINE r == [run[s] EXCEPT !.disturbed = TRUE]
    <3>1. run'[s] = r
      BY <1>1, <2>2
    <3>2. /\ r \in RunRecords /\ r.job = run[s].job /\ r.done = run[s].done
          /\ r.failed = run[s].failed /\ r.left = {} /\ r.tested = run[s].tested
          /\ r.floor = run[s].floor /\ r.disturbed
      BY <1>3, RunOf DEF RunRecords
    <3> HIDE DEF r
    <3>3. Ordered(r)
      BY <3>2, RunOf DEF RunInv, Ordered
    <3>4. TestedIn(r, mart')
      BY <1>2, <3>2, RunOf DEF RunInv, TestedIn
    <3>5. CoveredIn(r, lake, mart')
      BY <1>2, <1>3, <3>2, RunOf DEF RunInv, CoveredIn
    <3> QED
      BY <1>1, <2>2, <3>1, <3>2, <3>3, <3>4, <3>5, RunOf DEF RunInv
  <2> QED
    BY <2>1, <2>2
<1>5. Typed'
  <2>1. run' \in [Slots -> RunRecords] /\ \A s \in Slots : ContentTypeOK(run'[s].tested)
    BY <1>1, <1>4
  <2>2. writer' \in Slots \cup {"nobody", "manual"} /\ manual' \subseteq Marts
    BY <1>1 DEF PublicationInv, Typed
  <2> QED
    BY <1>1, <1>2, <2>1, <2>2 DEF PublicationInv, Typed, ContentTypeOK
<1>6. Exclusive'
  <2>1. manual' # {} => writer' = "manual"
    BY <1>1, <1>3
  <2> QED
    BY <1>4, <2>1 DEF PublicationInv, Exclusive
<1> QED
  BY <1>1, <1>4, <1>5, <1>6, SamePlan DEF PublicationInv

LEMMA BuildStorePreserves ==
  ASSUME PublicationInv, BuildAuditStore
  PROVE  PublicationInv'
<1>1. UNCHANGED <<lake, reported, views, mart, writer, manual, queue, run, daemon>>
  BY DEF BuildAuditStore, database
<1>2. Surroundings'
  BY <1>1 DEF Surroundings, ContentTypeOK, PublicationInv, Typed, Exclusive
<1>3. \A e \in Datasets : lake[e] <= lake'[e]
  BY <1>1 DEF PublicationInv, Typed
<1> QED
  BY <1>1, <1>2, <1>3, SamePlan, OutsideStep DEF PublicationInv, Typed, Exclusive

LEMMA StepPreserves ==
  ASSUME PublicationInv, [Next]_vars
  PROVE  PublicationInv'
<1>1. CASE Daemon
  BY <1>1, TickPreserves, EvaluatePreserves DEF Daemon
<1>2. CASE CommandLine
  BY <1>2, IngestPreserves, BackfillPreserves, RebuildMartPreserves, AbandonPreserves,
     BuildStorePreserves DEF CommandLine
<1>3. CASE \E job \in Requested : Request(job)
  BY <1>3, RequestPreserves
<1>4. ASSUME NEW s \in Slots, Launch(s) \/ Succeed(s) \/ Fail(s)
      PROVE  PublicationInv'
  <2>1. CASE Launch(s)
    BY <2>1, LaunchPreserves
  <2>2. CASE Succeed(s)
    BY <2>2, MaterializePreserves, BuildViewsPreserves, BeginMartsPreserves, BuildMartPreserves,
       TestMartsPreserves, CheckSourcesPreserves, MarkReadyPreserves, EndPreserves DEF Succeed
  <2>3. CASE Fail(s)
    BY <2>3, FailRawPreserves, FailDbtPreserves, EndPreserves DEF Fail
  <2> QED
    BY <1>4, <2>1, <2>2, <2>3
<1>5. CASE UNCHANGED vars
  <2>0. UNCHANGED daemon
    BY <1>5 DEF vars
  <2>1. Surroundings' /\ Scheduled'
    BY <1>5, <2>0, SamePlan
       DEF vars, files, database, Surroundings, ContentTypeOK, PublicationInv, Typed, Exclusive
  <2>2. \A d \in Datasets : lake[d] <= lake'[d]
    BY <1>5 DEF vars, files, PublicationInv, Typed
  <2> QED
    BY <1>5, <2>1, <2>2, OutsideStep DEF vars, database, PublicationInv, Typed, Exclusive
<1> QED
  BY <1>1, <1>2, <1>3, <1>4, <1>5 DEF Next

-----------------------------------------------------------------------------
(* Theorems. *)

\* The inductive invariant: types, schedules with their keys, one run and one writer at
\* a time, and for the run its order, what it tested and what its marts were built from.
THEOREM PublicationInvariant == Spec => []PublicationInv
<1>1. Init => PublicationInv
  BY InitInv
<1>2. PublicationInv /\ [Next]_vars => PublicationInv'
  BY StepPreserves
<1> QED
  BY <1>1, <1>2, PTL DEF Spec

LEMMA InvTypeOK ==
  ASSUME PublicationInv, indexed \in BOOLEAN
  PROVE  TypeOK
<1>1. LakeTypeOK(lake)
  BY DEF PublicationInv, Typed, LakeTypeOK
<1>2. ASSUME NEW s \in Slots
      PROVE  RunTypeOK(run[s])
  <2>1. /\ run[s] \in RunRecords /\ RunInv(run[s], lake, mart) /\ ContentTypeOK(run[s].tested)
        /\ lake \in [Datasets -> Nat]
    BY RunOf
  <2>2. \A d \in Datasets : run[s].floor[d] <= MaxLake[d]
    <3> SUFFICES ASSUME NEW d \in Datasets
                 PROVE  run[s].floor[d] <= MaxLake[d]
      OBVIOUS
    <3>1. run[s].floor[d] \in Nat /\ lake[d] \in Nat /\ MaxLake[d] \in Nat
      BY <2>1, PublicationBounds DEF RunRecords
    <3>2. run[s].floor[d] <= lake[d] /\ lake[d] <= MaxLake[d]
      BY <1>1, <2>1 DEF RunInv, CoveredIn, LakeTypeOK
    <3> QED
      BY <3>1, <3>2
  <2>3. LakeTypeOK(run[s].floor)
    BY <2>1, <2>2 DEF RunRecords, LakeTypeOK
  <2> QED
    BY <2>1, <2>3 DEF RunRecords, RunInv, Ordered, RunTypeOK
<1>3. reported \subseteq Datasets /\ views \subseteq {"staging", "intermediate"}
      /\ ContentTypeOK(mart) /\ writer \in Slots \cup {"nobody", "manual"}
      /\ manual \subseteq Marts /\ queue \in Seq(Jobs)
  BY DEF PublicationInv, Typed
<1>4. now \in Ticks /\ marked \subseteq DOMAIN TicksAt
      /\ ledger \subseteq (DOMAIN TicksAt) \X (Ticks \cup {0}) /\ launches \in [DOMAIN TicksAt -> Nat]
  BY DEF PublicationInv, Scheduled
<1>5. (\A s \in Slots : run[s].left # {} => writer = s) /\ (manual # {} => writer = "manual")
  BY DEF PublicationInv, Exclusive
<1> QED
  BY <1>1, <1>2, <1>3, <1>4, <1>5 DEF TypeOK

\* Once built, the audit store stays.
LEMMA StoreStays ==
  ASSUME indexed \in BOOLEAN, [Next]_vars
  PROVE  indexed' \in BOOLEAN
<1>1. CASE Daemon
  BY <1>1 DEF Daemon, Tick, Evaluate, files
<1>2. CASE CommandLine
  BY <1>2 DEF CommandLine, Ingest, BackfillAndRebuild, RebuildMart, AbandonRebuild,
              BuildAuditStore, files
<1>3. CASE \E job \in Requested : Request(job)
  BY <1>3 DEF Request, files
<1>4. ASSUME NEW s \in Slots, Launch(s) \/ Succeed(s) \/ Fail(s)
      PROVE  UNCHANGED indexed
  <2>1. CASE Launch(s)
    BY <2>1 DEF Launch, files
  <2>2. CASE Succeed(s)
    BY <2>2 DEF Succeed, Materialize, BuildViews, BeginMarts, BuildMart, TestMarts, CheckSources,
                MarkReady, EndRun, files
  <2>3. CASE Fail(s)
    BY <2>3 DEF Fail, FailRaw, FailDbt, KillRun, files
  <2> QED
    BY <1>4, <2>1, <2>2, <2>3
<1>5. CASE UNCHANGED vars
  BY <1>5 DEF vars, files
<1> QED
  BY <1>1, <1>2, <1>3, <1>4, <1>5 DEF Next

\* Types, and whoever replaces tables has the database.
THEOREM PublicationTypesCorrect == Spec => []TypeOK
<1>1. Init => indexed \in BOOLEAN
  BY DEF Init
<1>2. PublicationInv /\ indexed \in BOOLEAN => TypeOK
  BY InvTypeOK
<1>3. indexed \in BOOLEAN /\ [Next]_vars => (indexed \in BOOLEAN)'
  BY StoreStays
<1> QED
  BY <1>1, <1>2, <1>3, PublicationInvariant, PTL DEF Spec

\* Every tick the daemon has dealt with launched exactly one run, for any set of
\* schedules and times, wherever the daemon stopped.
THEOREM TicksLaunchOnce == Spec => []OneRunPerTick
<1>1. PublicationInv => OneRunPerTick
  BY ScheduleAssumption DEF PublicationInv, Scheduled, OneRunPerTick
<1> QED
  BY <1>1, PublicationInvariant, PTL

\* A run that has passed its gate finds every mart in the database.
LEMMA PassedGate ==
  ASSUME PublicationInv, NEW s \in Slots,
         "ready" \in run[s].done \/ CanStart(run[s], "ready")
  PROVE  /\ "gate" \in run[s].done /\ \A m \in Marts : mart[m] # NoTable
         /\ run[s].tested = mart \/ run[s].disturbed
<1>1. /\ run[s] \in RunRecords /\ Ordered(run[s]) /\ TestedIn(run[s], mart)
  BY RunOf DEF RunInv
<1>2. "ready" \in Selection(run[s].job) /\ "gate" \in Selection(run[s].job)
  BY <1>1, Selections DEF Ordered, CanStart, RunRecords
<1>3. "gate" \in run[s].done
  BY <1>1, <1>2, UpstreamOf DEF Ordered, CanStart
<1> QED
  BY <1>1, <1>3 DEF TestedIn

\* When anything is marked ready, every mart that the readiness probe asks for exists:
\* it answers 503 only while dbt is writing or when nobody has built the audit store.
THEOREM ReadyIsHealthy == Spec => []ReadyMeansHealthy
<1>1. PublicationInv => ReadyMeansHealthy
  BY PassedGate DEF ReadyMeansHealthy, Publishing, Healthy
<1> QED
  BY <1>1, PublicationInvariant, PTL

\* What is marked ready is what the same run's gate tested, unless a command outside the
\* queue replaced a table in between.
THEOREM ReadyWasTested == Spec => PublishedWasTested
<1>1. PublicationInv /\ [Next]_vars =>
         [\A s \in Slots : MarkReady(s) => run[s].tested = mart \/ run[s].disturbed]_vars
  <2> SUFFICES ASSUME PublicationInv, NEW s \in Slots, MarkReady(s)
               PROVE  run[s].tested = mart \/ run[s].disturbed
    OBVIOUS
  <2>1. CanStart(run[s], "ready")
    BY DEF MarkReady, Startable, CanStart
  <2> QED
    BY <2>1, PassedGate
<1> QED
  BY <1>1, PublicationInvariant, PTL DEF Spec, PublishedWasTested

\* The marts that a run marks ready hold every batch its raw assets reported.
THEOREM ReadyCoversObserved == Spec => PublishedCoversObserved
<1>1. PublicationInv /\ [Next]_vars =>
         [\A s \in Slots : MarkReady(s) =>
             \A m \in Marts : \A d \in Reads[m] : run[s].floor[d] <= mart[m][d]]_vars
  <2> SUFFICES ASSUME PublicationInv, NEW s \in Slots, MarkReady(s),
                      NEW m \in Marts, NEW d \in Reads[m]
               PROVE  run[s].floor[d] <= mart[m][d]
    OBVIOUS
  <2>1. CanStart(run[s], "ready")
    BY DEF MarkReady, Startable, CanStart
  <2>2. /\ run[s] \in RunRecords /\ Ordered(run[s]) /\ CoveredIn(run[s], lake, mart)
        /\ d \in Datasets
    BY RunOf, GraphAssumption DEF RunInv
  <2>3. mart[m] \in [Reads[m] -> Nat]
    BY <2>1, PassedGate DEF PublicationInv, Typed, ContentTypeOK
  <2>4. CASE run[s].floor[d] = 0
    BY <2>3, <2>4
  <2>5. CASE d \in run[s].done
    <3>1. Selection(run[s].job) = Ops /\ "marts" \in Ops
      BY <2>1, <2>2, <2>5, Selections DEF Ordered, CanStart, RunRecords, Ops
    <3>2. "marts" \in run[s].done
      BY <2>1, <3>1, UpstreamOf DEF CanStart
    <3> QED
      BY <2>1, <2>2, <3>2 DEF CoveredIn, CanStart
  <2> QED
    BY <2>2, <2>4, <2>5 DEF CoveredIn
<1> QED
  BY <1>1, PublicationInvariant, PTL DEF Spec, PublishedCoversObserved
=================================================================================
