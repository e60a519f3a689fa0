-------------------------- MODULE KafkaMicrobatchProofs --------------------------
(***************************************************************************)
(* Theorems about KafkaMicrobatch, for every number of consumers, batch size *)
(* and log: what is committed is accounted for, and one row per event as long *)
(* as no unfinished batch lost its partition.                                 *)
(***************************************************************************)
EXTENDS KafkaMicrobatch, TLAPS, SequenceTheorems, FiniteSetTheorems, WellFoundedInduction

Messages == EventIds \cup {Malformed, Tombstone}

\* What a consumer holds: messages of the log, all that a commit would cover; what it
\* has parsed is diagnosed, what it has read is stored or fresh, and what is fresh is new.
ConsumerInv(c) ==
    /\ batch[c] \subseteq DOMAIN log
    /\ owner = c => committed + 1 .. position[c] \subseteq batch[c]
    /\ pc[c] \in {"read", "write", "commit"} => Rejected(c) \subseteq diagnosed
    /\ fresh[c] \subseteq Accepted(c) /\ (pc[c] # "write" => fresh[c] = {})
    /\ pc[c] \in {"write", "commit"} =>
          \A o \in Accepted(c) : log[o] \in StoredIds \/ \E p \in fresh[c] : log[p] = log[o]
    /\ ~overlapped =>
          /\ batch[c] # {} => owner = c
          /\ \A o \in fresh[c] : /\ log[o] \notin StoredIds
                                 /\ \A p \in fresh[c] : log[p] = log[o] => p = o

KafkaInv ==
    /\ TypeOK /\ CommittedAccounted /\ OneRowPerEvent
    /\ \A o \in Offsets : stored[o] > 0 => o \in DOMAIN log
    /\ \A c \in Consumers : ConsumerInv(c)

-----------------------------------------------------------------------------
(* A set of offsets has a first one, by the well-foundedness of finite sets. *)

LEMMA FirstOf ==
  ASSUME NEW S \in SUBSET Offsets, S # {}
  PROVE  \E o \in S : \A p \in S : o <= p
<1>1. IsFiniteSet(S) /\ S \subseteq Nat
  <2>1. Offsets \subseteq Nat
    BY BatchAssumption DEF Offsets
  <2>2. IsFiniteSet(1 .. MaxLog)
    <3>1. 1 \in Int /\ MaxLog \in Int
      BY BatchAssumption
    <3> QED
      BY <3>1, FS_Interval
  <2>3. IsFiniteSet(Offsets)
    BY <2>2 DEF Offsets
  <2>4. IsFiniteSet(S)
    BY <2>3, FS_Subset
  <2> QED
    BY <2>1, <2>4
<1> DEFINE UpTo(o) == {p \in S : p <= o}
           T == {UpTo(o) : o \in S}
<1>2. T \subseteq FiniteSubsetsOf(S) /\ T # {}
  <2>1. \A o \in S : UpTo(o) \in SUBSET S
    OBVIOUS
  <2>2. FiniteSubsetsOf(S) = SUBSET S
    BY <1>1, FS_FiniteSubsetsOfFinite
  <2>3. T \subseteq SUBSET S /\ T # {}
    BY <2>1
  <2> QED
    BY <2>2, <2>3
<1>3. IsWellFoundedOn(StrictSubsetOrdering(S), FiniteSubsetsOf(S))
  BY FS_StrictSubsetOrderingWellFounded
<1> HIDE DEF T
<1>4. PICK least \in T : \A other \in T : <<other, least>> \notin StrictSubsetOrdering(S)
  BY <1>2, <1>3, WFMin
<1>5. PICK o \in S : least = UpTo(o)
  BY <1>4 DEF T
<1>6. ASSUME NEW p \in S, p < o
      PROVE  FALSE
  <2>1. o \in Nat /\ p \in Nat
    BY <1>1
  <2>2. UpTo(p) \subseteq UpTo(o) /\ UpTo(p) # UpTo(o)
    <3>1. \A q \in S : q <= p => q <= o
      BY <1>1, <1>6, <2>1
    <3>2. o \in UpTo(o) /\ o \notin UpTo(p)
      BY <1>6, <2>1
    <3> QED
      BY <3>1, <3>2
  <2>3. <<UpTo(p), UpTo(o)>> \in StrictSubsetOrdering(S)
    BY <2>2 DEF StrictSubsetOrdering
  <2>4. UpTo(p) \in T
    BY DEF T
  <2> QED
    BY <1>4, <1>5, <2>3, <2>4
<1>7. \A p \in S : o <= p
  BY <1>1, <1>6
<1> QED
  BY <1>7

-----------------------------------------------------------------------------
(* Initially, and the steps outside of a batch. *)

LEMMA InitKafka ==
  ASSUME Init
  PROVE  KafkaInv
<1>1. TypeOK
  <2>1. log \in Seq(Messages) /\ Len(log) = 0 /\ committed \in 0 .. Len(log) /\ 0 <= MaxLog
    BY BatchAssumption DEF Init
  <2>2. position \in [Consumers -> 0 .. Len(log)] /\ stored \in [Offsets -> Nat]
    BY <2>1 DEF Init
  <2>3. pc \in [Consumers -> {"idle", "poll", "parse", "read", "write", "commit"}]
    BY DEF Init
  <2>4. batch \in [Consumers -> SUBSET Offsets] /\ fresh \in [Consumers -> SUBSET Offsets]
        /\ \A c \in Consumers : batch[c] = {} /\ fresh[c] = {}
    BY DEF Init
  <2>5. owner \in Consumers \cup {Nobody} /\ diagnosed \subseteq Offsets /\ overlapped \in BOOLEAN
    BY DEF Init
  <2> QED
    BY <2>1, <2>2, <2>3, <2>4, <2>5 DEF TypeOK, Messages
<1>2. CommittedAccounted /\ OneRowPerEvent
  BY DEF Init, CommittedAccounted, OneRowPerEvent
<1>3. \A c \in Consumers : ConsumerInv(c)
  BY NobodyAssumption DEF Init, ConsumerInv, Accepted, Rejected
<1>4. \A o \in Offsets : stored[o] > 0 => o \in DOMAIN log
  BY DEF Init
<1> QED
  BY <1>1, <1>2, <1>3, <1>4 DEF KafkaInv

\* The stored ids do not depend on what is appended.
LEMMA ProducePreserves ==
  ASSUME KafkaInv, Produce
  PROVE  KafkaInv'
<1>1. PICK m \in Messages : log' = Append(log, m)
  BY DEF Produce, Messages
<1>2. /\ log \in Seq(Messages) /\ Len(log) < MaxLog /\ Len(log) \in Nat /\ MaxLog \in Nat
      /\ UNCHANGED <<owner, committed, stored, diagnosed, pc, position, batch, fresh, overlapped>>
  BY BatchAssumption DEF Produce, KafkaInv, TypeOK, Messages, local
<1>3. /\ log' \in Seq(Messages) /\ Len(log') = Len(log) + 1
      /\ DOMAIN log = 1 .. Len(log) /\ DOMAIN log' = 1 .. Len(log) + 1
      /\ \A o \in DOMAIN log : log'[o] = log[o]
  BY <1>1, <1>2
<1>4. StoredIds' = StoredIds
  <2>1. \A o \in DOMAIN log' : stored[o] > 0 => o \in DOMAIN log
    <3>1. DOMAIN log' \subseteq Offsets
      BY <1>2, <1>3 DEF Offsets
    <3> QED
      BY <3>1 DEF KafkaInv
  <2> QED
    BY <1>2, <1>3, <2>1 DEF StoredIds
<1>5. TypeOK'
  <2>1. Len(log') <= MaxLog /\ committed \in 0 .. Len(log') /\ position \in [Consumers -> 0 .. Len(log')]
    BY <1>2, <1>3 DEF KafkaInv, TypeOK
  <2> QED
    BY <1>2, <1>3, <2>1 DEF KafkaInv, TypeOK, Messages
<1>6. CommittedAccounted'
  <2>1. 1 .. committed \subseteq DOMAIN log
    BY <1>2, <1>3 DEF KafkaInv, TypeOK
  <2> QED
    BY <1>2, <1>3, <1>4, <2>1 DEF KafkaInv, CommittedAccounted
<1>7. OneRowPerEvent'
  <2>1. \A o \in DOMAIN log' : stored[o] > 0 => o \in DOMAIN log
    BY <1>2, <1>3 DEF KafkaInv, Offsets
  <2> QED
    BY <1>2, <1>3, <2>1 DEF KafkaInv, OneRowPerEvent
<1>8. ASSUME NEW c \in Consumers
      PROVE  ConsumerInv(c)'
  <2>1. batch[c] \subseteq DOMAIN log
    BY DEF KafkaInv, ConsumerInv
  <2>2. Accepted(c)' = Accepted(c) /\ Rejected(c)' = Rejected(c)
    BY <1>2, <1>3, <2>1 DEF Accepted, Rejected
  <2>3. \A o \in Accepted(c) : log'[o] = log[o] /\ fresh[c] \subseteq Accepted(c)
    BY <1>3, <2>1 DEF Accepted, KafkaInv, ConsumerInv
  <2> QED
    BY <1>2, <1>3, <1>4, <2>1, <2>2, <2>3 DEF KafkaInv, ConsumerInv
<1>9. \A o \in Offsets : stored'[o] > 0 => o \in DOMAIN log'
  BY <1>2, <1>3 DEF KafkaInv
<1> QED
  BY <1>5, <1>6, <1>7, <1>8, <1>9 DEF KafkaInv

\* The log and what is stored stay; one consumer moves on and no commit happens.
LEMMA QuietStep ==
  ASSUME KafkaInv, NEW c \in Consumers, TypeOK',
         UNCHANGED <<log, committed, stored>>, diagnosed \subseteq diagnosed',
         overlapped => overlapped',
         \A d \in Consumers \ {c} :
            /\ pc'[d] = pc[d] /\ position'[d] = position[d]
            /\ batch'[d] = batch[d] /\ fresh'[d] = fresh[d]
            /\ owner' = d => owner = d
            /\ ~overlapped' /\ batch[d] # {} /\ owner = d => owner' = d,
         ConsumerInv(c)'
  PROVE  KafkaInv'
<1>1. StoredIds' = StoredIds
  BY DEF StoredIds
<1>2. CommittedAccounted' /\ OneRowPerEvent'
  BY <1>1 DEF KafkaInv, CommittedAccounted, OneRowPerEvent
<1>3. ASSUME NEW d \in Consumers \ {c}
      PROVE  ConsumerInv(d)'
  <2>1. Accepted(d)' = Accepted(d) /\ Rejected(d)' = Rejected(d)
    BY DEF Accepted, Rejected
  <2> QED
    BY <1>1, <2>1 DEF KafkaInv, ConsumerInv
<1>4. \A o \in Offsets : stored'[o] > 0 => o \in DOMAIN log'
  BY DEF KafkaInv
<1> QED
  BY <1>2, <1>3, <1>4 DEF KafkaInv

-----------------------------------------------------------------------------
(* Polling. *)

\* The parts of TypeOK about consumer c and what it may do to them.
LEMMA Held ==
  ASSUME KafkaInv, NEW c \in Consumers
  PROVE  /\ Len(log) \in Nat /\ DOMAIN log = 1 .. Len(log) /\ DOMAIN log \subseteq Offsets
         /\ committed \in 0 .. Len(log) /\ position[c] \in 0 .. Len(log)
         /\ batch[c] \subseteq DOMAIN log /\ fresh[c] \subseteq Accepted(c)
         /\ \A o \in DOMAIN log : log[o] \in Messages
<1>1. log \in Seq(Messages) /\ Len(log) <= MaxLog /\ MaxLog \in Nat
  BY BatchAssumption DEF KafkaInv, TypeOK, Messages
<1>2. Len(log) \in Nat /\ DOMAIN log = 1 .. Len(log) /\ \A o \in DOMAIN log : log[o] \in Messages
  BY <1>1
<1>3. DOMAIN log \subseteq Offsets
  BY <1>1, <1>2 DEF Offsets
<1> QED
  BY <1>2, <1>3 DEF KafkaInv, TypeOK, ConsumerInv

LEMMA AssignPreserves ==
  ASSUME KafkaInv, NEW c \in Consumers, Assign(c)
  PROVE  KafkaInv'
<1>1. /\ pc[c] = "poll" /\ owner # c /\ owner' = c /\ position' = [position EXCEPT ![c] = committed]
      /\ UNCHANGED <<log, committed, stored, diagnosed, pc, batch, fresh>>
      /\ overlapped' = (overlapped \/ \E d \in Consumers \ {c} : batch[d] # {})
  BY DEF Assign
<1>2. TypeOK'
  <2>1. position' \in [Consumers -> 0 .. Len(log)] /\ overlapped' \in BOOLEAN
    BY <1>1 DEF KafkaInv, TypeOK
  <2> QED
    BY <1>1, <2>1 DEF KafkaInv, TypeOK
<1>3. ConsumerInv(c)'
  <2>1. position'[c] = committed' /\ committed' + 1 .. position'[c] = {}
    <3>1. position'[c] = committed
      BY <1>1 DEF KafkaInv, TypeOK
    <3> QED
      BY <1>1, <3>1, Held
  <2>2. Accepted(c)' = Accepted(c) /\ Rejected(c)' = Rejected(c) /\ StoredIds' = StoredIds
    BY <1>1 DEF Accepted, Rejected, StoredIds
  <2> QED
    BY <1>1, <2>1, <2>2 DEF KafkaInv, ConsumerInv
<1>4. \A d \in Consumers \ {c} :
         /\ pc'[d] = pc[d] /\ position'[d] = position[d]
         /\ batch'[d] = batch[d] /\ fresh'[d] = fresh[d]
         /\ owner' # d /\ (~overlapped' => batch[d] = {})
  BY <1>1 DEF KafkaInv, TypeOK
<1> QED
  BY <1>1, <1>2, <1>3, <1>4, QuietStep

LEMMA PollPreserves ==
  ASSUME KafkaInv, NEW c \in Consumers, Poll(c)
  PROVE  KafkaInv'
<1>1. /\ pc[c] = "poll" /\ owner = c /\ position[c] < Len(log)
      /\ position' = [position EXCEPT ![c] = @ + 1]
      /\ batch' = [batch EXCEPT ![c] = @ \cup {position[c] + 1}]
      /\ UNCHANGED <<log, owner, committed, stored, diagnosed, pc, fresh, overlapped>>
  BY DEF Poll
<1>2. /\ position[c] + 1 \in DOMAIN log /\ position[c] \in Nat
      /\ position'[c] = position[c] + 1 /\ batch'[c] = batch[c] \cup {position[c] + 1}
  BY <1>1, Held DEF KafkaInv, TypeOK
<1>3. TypeOK'
  <2>1. position' \in [Consumers -> 0 .. Len(log)]
    BY <1>1, <1>2, Held DEF KafkaInv, TypeOK
  <2>2. position[c] + 1 \in Offsets
    BY <1>2, Held
  <2>3. batch' \in [Consumers -> SUBSET Offsets]
    BY <1>1, <2>2 DEF KafkaInv, TypeOK
  <2>4. \A d \in Consumers : fresh'[d] \subseteq batch'[d] /\ (pc'[d] = "idle" => batch'[d] = {})
    BY <1>1 DEF KafkaInv, TypeOK
  <2> QED
    BY <1>1, <2>1, <2>3, <2>4 DEF KafkaInv, TypeOK
<1>4. ConsumerInv(c)'
  <2>1. committed' + 1 .. position'[c] \subseteq batch'[c]
    <3>1. committed + 1 .. position[c] \subseteq batch[c]
      BY <1>1 DEF KafkaInv, ConsumerInv
    <3> QED
      BY <1>1, <1>2, <3>1, Held
  <2>2. batch'[c] \subseteq DOMAIN log' /\ fresh'[c] = {}
    BY <1>1, <1>2, Held DEF KafkaInv, ConsumerInv
  <2> QED
    BY <1>1, <2>1, <2>2 DEF ConsumerInv
<1> QED
  BY <1>1, <1>3, <1>4, QuietStep DEF KafkaInv, TypeOK

\* Steps that only move c on, to a step at which it has nothing more to show.
LEMMA GotoPreserves ==
  ASSUME KafkaInv, NEW c \in Consumers, NEW step \in {"poll", "parse"},
         pc[c] \in {"idle", "poll"}, Goto(c, step),
         UNCHANGED <<log, owner, committed, stored, diagnosed, position, batch, fresh, overlapped>>
  PROVE  KafkaInv'
<1>1. TypeOK' /\ pc'[c] = step
  BY DEF KafkaInv, TypeOK, Goto
<1>2. Accepted(c)' = Accepted(c) /\ Rejected(c)' = Rejected(c) /\ StoredIds' = StoredIds
  BY DEF Accepted, Rejected, StoredIds
<1>3. ConsumerInv(c)'
  BY <1>1, <1>2 DEF KafkaInv, ConsumerInv
<1>4. \A d \in Consumers \ {c} : pc'[d] = pc[d]
  BY DEF KafkaInv, TypeOK, Goto
<1> QED
  BY <1>1, <1>3, <1>4, QuietStep

-----------------------------------------------------------------------------
(* Parsing, and reading what is retained. *)

LEMMA ParsePreserves ==
  ASSUME KafkaInv, NEW c \in Consumers, Parse(c)
  PROVE  KafkaInv'
<1>1. /\ pc[c] = "parse" /\ diagnosed' = diagnosed \cup Rejected(c) /\ Goto(c, "read")
      /\ UNCHANGED <<log, owner, committed, stored, position, batch, fresh, overlapped>>
  BY DEF Parse, QuarantineRejected
<1>2. TypeOK' /\ pc'[c] = "read"
  <2>1. Rejected(c) \subseteq Offsets
    BY Held DEF Rejected
  <2> QED
    BY <1>1, <2>1 DEF KafkaInv, TypeOK, Goto
<1>3. Accepted(c)' = Accepted(c) /\ Rejected(c)' = Rejected(c) /\ StoredIds' = StoredIds
  BY <1>1 DEF Accepted, Rejected, StoredIds
<1>4. ConsumerInv(c)'
  BY <1>1, <1>2, <1>3 DEF KafkaInv, ConsumerInv
<1>5. \A d \in Consumers \ {c} : pc'[d] = pc[d]
  BY <1>1 DEF KafkaInv, TypeOK, Goto
<1> QED
  BY <1>1, <1>2, <1>4, <1>5, QuietStep

\* Every accepted event is retained, or the first message of the batch with its id is new.
LEMMA FirstIsNew ==
  ASSUME KafkaInv, NEW c \in Consumers, NEW o \in Accepted(c), log[o] \notin StoredIds
  PROVE  \E p \in NewEvents(c) : log[p] = log[o]
<1> DEFINE Same == {p \in Accepted(c) : log[p] = log[o]}
<1>1. Same \subseteq DOMAIN log /\ Same \subseteq Offsets /\ o \in Same
  BY Held DEF Accepted
<1>2. PICK p \in Same : \A q \in Same : p <= q
  BY <1>1, FirstOf
<1>3. stored[p] = 0
  <2>1. p \in DOMAIN log /\ log[p] \notin StoredIds
    BY <1>1
  <2>2. stored[p] \in Nat
    BY <1>1 DEF KafkaInv, TypeOK
  <2> QED
    BY <2>1, <2>2 DEF StoredIds
<1>4. ASSUME NEW q \in Accepted(c), q < p
      PROVE  log[q] # log[p]
  <2>1. q \in Nat /\ p \in Nat
    BY <1>1, Held DEF Accepted
  <2> QED
    BY <1>2, <1>4, <2>1
<1> QED
  BY <1>3, <1>4 DEF NewEvents

LEMMA ReadExistingPreserves ==
  ASSUME KafkaInv, NEW c \in Consumers, ReadExisting(c)
  PROVE  KafkaInv'
<1>1. /\ pc[c] = "read" /\ fresh' = [fresh EXCEPT ![c] = NewEvents(c)]
      /\ Goto(c, IF NewEvents(c) = {} THEN "commit" ELSE "write")
      /\ UNCHANGED <<log, owner, committed, stored, diagnosed, position, batch, overlapped>>
  BY DEF ReadExisting
<1>2. /\ fresh'[c] = NewEvents(c) /\ NewEvents(c) \subseteq Accepted(c)
      /\ Accepted(c) \subseteq batch[c] /\ batch[c] \subseteq DOMAIN log /\ DOMAIN log \subseteq Offsets
  BY <1>1, Held DEF KafkaInv, TypeOK, NewEvents, Accepted
<1>3. pc'[c] = IF NewEvents(c) = {} THEN "commit" ELSE "write"
  BY <1>1 DEF KafkaInv, TypeOK, Goto
<1>4. TypeOK'
  <2>1. fresh' \in [Consumers -> SUBSET Offsets]
    BY <1>1, <1>2 DEF KafkaInv, TypeOK
  <2>2. pc' \in [Consumers -> {"idle", "poll", "parse", "read", "write", "commit"}]
    BY <1>1 DEF KafkaInv, TypeOK, Goto
  <2>3. \A d \in Consumers : fresh'[d] \subseteq batch'[d] /\ (pc'[d] = "idle" => batch'[d] = {})
    <3>1. fresh'[c] \subseteq batch'[c] /\ pc'[c] # "idle"
      BY <1>1, <1>2, <1>3
    <3>2. \A d \in Consumers \ {c} : fresh'[d] = fresh[d] /\ pc'[d] = pc[d]
      BY <1>1 DEF KafkaInv, TypeOK, Goto
    <3> QED
      BY <1>1, <3>1, <3>2 DEF KafkaInv, TypeOK
  <2> QED
    BY <1>1, <2>1, <2>2, <2>3 DEF KafkaInv, TypeOK
<1>5. Accepted(c)' = Accepted(c) /\ Rejected(c)' = Rejected(c) /\ StoredIds' = StoredIds
  BY <1>1 DEF Accepted, Rejected, StoredIds
<1>6. ConsumerInv(c)'
  <2>1. /\ batch'[c] \subseteq DOMAIN log' /\ (owner' = c => committed' + 1 .. position'[c] \subseteq batch'[c])
        /\ Rejected(c) \subseteq diagnosed /\ (~overlapped => (batch'[c] # {} => owner' = c))
    BY <1>1 DEF KafkaInv, ConsumerInv
  <2>2. fresh'[c] \subseteq Accepted(c)' /\ (pc'[c] # "write" => fresh'[c] = {})
    BY <1>2, <1>3, <1>5
  <2>3. \A o \in Accepted(c)' : log'[o] \in StoredIds' \/ \E p \in fresh'[c] : log'[p] = log'[o]
    BY <1>1, <1>2, <1>5, FirstIsNew
  <2>4. \A o \in fresh'[c] : /\ log'[o] \notin StoredIds'
                             /\ \A p \in fresh'[c] : log'[p] = log'[o] => p = o
    <3>1. \A o \in NewEvents(c) : log[o] \notin StoredIds
      BY DEF NewEvents
    <3>2. ASSUME NEW o \in NewEvents(c), NEW p \in NewEvents(c), log[p] = log[o]
          PROVE  p = o
      <4>1. ~(p < o) /\ ~(o < p)
        BY <3>2 DEF NewEvents
      <4>2. o \in Nat /\ p \in Nat
        BY <1>2, Held
      <4> QED
        BY <4>1, <4>2
    <3> QED
      BY <1>1, <1>2, <1>5, <3>1, <3>2
  <2> QED
    BY <1>1, <1>5, <2>1, <2>2, <2>3, <2>4 DEF ConsumerInv
<1>7. \A d \in Consumers \ {c} : pc'[d] = pc[d] /\ fresh'[d] = fresh[d]
  BY <1>1 DEF KafkaInv, TypeOK, Goto
<1> QED
  BY <1>1, <1>4, <1>6, <1>7, QuietStep

-----------------------------------------------------------------------------
(* Writing the files of an hour. *)

LEMMA WriteHourPreserves ==
  ASSUME KafkaInv, NEW c \in Consumers, WriteHour(c)
  PROVE  KafkaInv'
<1> DEFINE Rows(h) == {o \in fresh[c] : HourOf[log[o]] = h}
<1>1. PICK h \in Hours :
         /\ stored' = [o \in Offsets |-> IF o \in Rows(h) THEN stored[o] + 1 ELSE stored[o]]
         /\ fresh' = [fresh EXCEPT ![c] = @ \ Rows(h)]
         /\ Goto(c, AfterHour(fresh[c] \ Rows(h)))
  BY DEF WriteHour
<1> DEFINE rows == Rows(h)
<1>2. /\ pc[c] = "write" /\ rows \subseteq fresh[c]
      /\ UNCHANGED <<log, owner, committed, diagnosed, position, batch, overlapped>>
  BY DEF WriteHour
<1> HIDE DEF Rows
<1>3. /\ fresh[c] \subseteq Accepted(c) /\ Accepted(c) \subseteq batch[c]
      /\ batch[c] \subseteq DOMAIN log /\ DOMAIN log \subseteq Offsets
      /\ stored \in [Offsets -> Nat]
  BY Held DEF Accepted, KafkaInv, TypeOK
<1>4. /\ fresh'[c] = fresh[c] \ rows /\ pc'[c] = AfterHour(fresh'[c])
      /\ \A d \in Consumers \ {c} : fresh'[d] = fresh[d] /\ pc'[d] = pc[d]
      /\ \A o \in Offsets : stored'[o] = IF o \in rows THEN stored[o] + 1 ELSE stored[o]
  BY <1>1 DEF KafkaInv, TypeOK, Goto
<1>5. StoredIds' = StoredIds \cup {log[o] : o \in rows}
  <2>1. \A o \in DOMAIN log : stored'[o] > 0 <=> stored[o] > 0 \/ o \in rows
    BY <1>3, <1>4
  <2> QED
    BY <1>2, <1>3, <2>1 DEF StoredIds
<1>6. Accepted(c)' = Accepted(c) /\ Rejected(c)' = Rejected(c)
  BY <1>2 DEF Accepted, Rejected
<1>7. TypeOK'
  <2>1. stored' \in [Offsets -> Nat]
    <3>1. \A o \in Offsets : stored'[o] \in Nat
      BY <1>3, <1>4
    <3> QED
      BY <1>1, <3>1
  <2>2. fresh' \in [Consumers -> SUBSET Offsets]
    BY <1>1 DEF KafkaInv, TypeOK
  <2>3. pc' \in [Consumers -> {"idle", "poll", "parse", "read", "write", "commit"}]
    BY <1>1 DEF KafkaInv, TypeOK, Goto, AfterHour
  <2>4. \A d \in Consumers : fresh'[d] \subseteq batch'[d] /\ (pc'[d] = "idle" => batch'[d] = {})
    <3>1. fresh'[c] \subseteq batch'[c] /\ pc'[c] # "idle"
      BY <1>2, <1>3, <1>4 DEF AfterHour
    <3> QED
      BY <1>2, <1>4, <3>1 DEF KafkaInv, TypeOK
  <2> QED
    BY <1>2, <2>1, <2>2, <2>3, <2>4 DEF KafkaInv, TypeOK
<1>8. CommittedAccounted'
  BY <1>2, <1>5 DEF KafkaInv, CommittedAccounted
\* Without an overlap a batch with fresh events is the only one, and they are new.
<1>9. ASSUME ~overlapped, rows # {}
      PROVE  /\ \A d \in Consumers \ {c} : batch[d] = {}
             /\ \A o \in fresh[c] : /\ log[o] \notin StoredIds
                                    /\ \A p \in fresh[c] : log[p] = log[o] => p = o
  BY <1>2, <1>3, <1>9 DEF KafkaInv, ConsumerInv
<1>10. OneRowPerEvent'
  <2> SUFFICES ASSUME ~overlapped, NEW o \in DOMAIN log, NEW p \in DOMAIN log,
                      stored'[o] > 0, stored'[p] > 0, log[o] = log[p]
               PROVE  o = p /\ stored'[o] = 1
    BY <1>2 DEF OneRowPerEvent
  <2>1. \A q \in DOMAIN log : /\ stored[q] \in Nat
                              /\ stored'[q] = IF q \in rows THEN stored[q] + 1 ELSE stored[q]
                              /\ stored[q] > 0 => log[q] \in StoredIds
    BY <1>3, <1>4 DEF StoredIds
  <2>2. CASE o \in rows \/ p \in rows
    <3>1. log[o] \notin StoredIds /\ log[p] \notin StoredIds
      BY <1>2, <1>9, <2>2
    <3>2. stored[o] = 0 /\ stored[p] = 0
      BY <2>1, <3>1
    <3>3. o \in rows /\ p \in rows
      BY <2>1, <3>2
    <3>4. o = p
      BY <1>2, <1>9, <3>3
    <3> QED
      BY <2>1, <3>2, <3>3, <3>4
  <2>3. CASE o \notin rows /\ p \notin rows
    <3>1. stored[o] > 0 /\ stored[p] > 0 /\ stored'[o] = stored[o]
      BY <2>1, <2>3
    <3> QED
      BY <3>1 DEF KafkaInv, OneRowPerEvent
  <2> QED
    BY <2>2, <2>3
<1>11. ConsumerInv(c)'
  <2>1. /\ batch'[c] \subseteq DOMAIN log' /\ (owner' = c => committed' + 1 .. position'[c] \subseteq batch'[c])
        /\ Rejected(c) \subseteq diagnosed /\ (~overlapped => (batch'[c] # {} => owner' = c))
    BY <1>2 DEF KafkaInv, ConsumerInv
  <2>2. fresh'[c] \subseteq Accepted(c)' /\ (pc'[c] # "write" => fresh'[c] = {})
    BY <1>3, <1>4, <1>6 DEF AfterHour
  <2>3. \A o \in Accepted(c)' : log'[o] \in StoredIds' \/ \E p \in fresh'[c] : log'[p] = log'[o]
    <3>1. \A o \in Accepted(c) : log[o] \in StoredIds \/ \E p \in fresh[c] : log[p] = log[o]
      BY <1>2 DEF KafkaInv, ConsumerInv
    <3> QED
      BY <1>2, <1>4, <1>5, <1>6, <3>1
  <2>4. ~overlapped => \A o \in fresh'[c] : /\ log'[o] \notin StoredIds'
                                            /\ \A p \in fresh'[c] : log'[p] = log'[o] => p = o
    <3> SUFFICES ASSUME ~overlapped, NEW o \in fresh[c], o \notin rows
                 PROVE  /\ log[o] \notin StoredIds'
                        /\ \A p \in fresh[c] : log[p] = log[o] => p = o
      BY <1>2, <1>4
    <3>1. /\ log[o] \notin StoredIds /\ \A p \in fresh[c] : log[p] = log[o] => p = o
      BY <1>2 DEF KafkaInv, ConsumerInv
    <3> QED
      BY <1>2, <1>5, <3>1
  <2> QED
    BY <1>2, <1>6, <2>1, <2>2, <2>3, <2>4 DEF ConsumerInv
<1>12. ASSUME NEW d \in Consumers \ {c}
       PROVE  ConsumerInv(d)'
  <2>1. Accepted(d)' = Accepted(d) /\ Rejected(d)' = Rejected(d)
    BY <1>2 DEF Accepted, Rejected
  <2>2. CASE rows = {}
    BY <1>2, <1>4, <1>5, <2>1, <2>2 DEF KafkaInv, ConsumerInv
  <2>3. CASE rows # {}
    <3>1. ~overlapped => batch[d] = {} /\ fresh[d] = {}
      BY <1>9, <2>3 DEF KafkaInv, TypeOK
    <3> QED
      BY <1>2, <1>4, <1>5, <2>1, <3>1 DEF KafkaInv, ConsumerInv
  <2> QED
    BY <2>2, <2>3
<1>13. \A o \in Offsets : stored'[o] > 0 => o \in DOMAIN log'
  <2>1. \A o \in Offsets : o \notin rows => stored'[o] = stored[o]
    BY <1>4
  <2> QED
    BY <1>2, <1>3, <2>1 DEF KafkaInv
<1> QED
  BY <1>7, <1>8, <1>10, <1>11, <1>12, <1>13 DEF KafkaInv

-----------------------------------------------------------------------------
(* The end of a process: with its commit, or without. *)

LEMMA EndPreserves ==
  ASSUME KafkaInv, NEW c \in Consumers, End(c),
         UNCHANGED <<log, stored, diagnosed, overlapped>>,
         committed' \in 0 .. Len(log), committed' = committed \/ owner = c,
         CommittedAccounted'
  PROVE  KafkaInv'
<1>1. /\ pc'[c] = "idle" /\ position'[c] = 0 /\ batch'[c] = {} /\ fresh'[c] = {}
      /\ owner' = IF owner = c THEN Nobody ELSE owner
      /\ \A d \in Consumers \ {c} : /\ pc'[d] = pc[d] /\ position'[d] = position[d]
                                    /\ batch'[d] = batch[d] /\ fresh'[d] = fresh[d]
  BY DEF End, Goto, KafkaInv, TypeOK
<1>2. TypeOK'
  <2>1. 0 \in 0 .. Len(log)
    BY Held
  <2>2. /\ position' \in [Consumers -> 0 .. Len(log)] /\ batch' \in [Consumers -> SUBSET Offsets]
        /\ fresh' \in [Consumers -> SUBSET Offsets]
        /\ pc' \in [Consumers -> {"idle", "poll", "parse", "read", "write", "commit"}]
    BY <2>1 DEF End, Goto, KafkaInv, TypeOK
  <2>3. \A d \in Consumers : fresh'[d] \subseteq batch'[d] /\ (pc'[d] = "idle" => batch'[d] = {})
    BY <1>1 DEF KafkaInv, TypeOK
  <2> QED
    BY <1>1, <2>2, <2>3 DEF KafkaInv, TypeOK
<1>3. StoredIds' = StoredIds /\ OneRowPerEvent'
  BY DEF StoredIds, KafkaInv, OneRowPerEvent
<1>4. ConsumerInv(c)'
  <2>1. owner' # c
    BY <1>1, NobodyAssumption
  <2> QED
    BY <1>1, <2>1 DEF ConsumerInv, Accepted, Rejected
<1>5. ASSUME NEW d \in Consumers \ {c}
      PROVE  ConsumerInv(d)'
  <2>1. Accepted(d)' = Accepted(d) /\ Rejected(d)' = Rejected(d)
    BY <1>1 DEF Accepted, Rejected
  <2>2. owner' = d <=> owner = d
    BY <1>1, NobodyAssumption
  <2>3. owner = d => committed' = committed
    OBVIOUS
  <2> QED
    BY <1>1, <1>3, <2>1, <2>2, <2>3 DEF KafkaInv, ConsumerInv
<1>6. \A o \in Offsets : stored'[o] > 0 => o \in DOMAIN log'
  BY DEF KafkaInv
<1> QED
  BY <1>2, <1>3, <1>4, <1>5, <1>6 DEF KafkaInv

LEMMA GiveUpPreserves ==
  ASSUME KafkaInv, NEW c \in Consumers, End(c), Close(c),
         UNCHANGED <<log, stored, diagnosed, overlapped>>
  PROVE  KafkaInv'
<1>1. committed' = committed /\ committed \in 0 .. Len(log)
  BY Held DEF Close
<1>2. CommittedAccounted'
  BY <1>1 DEF KafkaInv, CommittedAccounted, StoredIds
<1> QED
  BY <1>1, <1>2, EndPreserves

LEMMA CommitPreserves ==
  ASSUME KafkaInv, NEW c \in Consumers, Commit(c)
  PROVE  KafkaInv'
<1>1. /\ pc[c] = "commit" /\ owner = c /\ committed' = position[c] /\ End(c)
      /\ UNCHANGED <<log, stored, diagnosed, overlapped>>
  BY DEF Commit, OwnsPartition
<1>2. ASSUME NEW o \in 1 .. committed'
      PROVE  (log[o] \in EventIds => log[o] \in StoredIds) /\ (log[o] = Malformed => o \in diagnosed)
  <2>1. CASE o <= committed
    BY <2>1, Held DEF KafkaInv, CommittedAccounted
  <2>2. CASE o > committed
    <3>1. o \in batch[c]
      BY <1>1, <2>2, Held DEF KafkaInv, ConsumerInv
    <3>2. (o \in Accepted(c) => log[o] \in StoredIds) /\ Rejected(c) \subseteq diagnosed
      BY <1>1 DEF KafkaInv, ConsumerInv
    <3> QED
      BY <3>1, <3>2 DEF Accepted, Rejected
  <2> QED
    BY <1>1, <2>1, <2>2, Held
<1>3. CommittedAccounted'
  BY <1>1, <1>2 DEF CommittedAccounted, StoredIds
<1> QED
  BY <1>1, <1>3, Held, EndPreserves

-----------------------------------------------------------------------------
(* The theorems. *)

LEMMA KafkaStep ==
  ASSUME KafkaInv, [Next]_vars
  PROVE  KafkaInv'
<1>1. CASE Produce
  BY <1>1, ProducePreserves
<1>2. ASSUME NEW c \in Consumers, Assign(c) \/ Start(c) \/ Poll(c) \/ Step(c) \/ Kill(c)
      PROVE  KafkaInv'
  <2>1. CASE Start(c) \/ StopPolling(c)
    BY <2>1, GotoPreserves DEF Start, StopPolling
  <2>2. CASE FailOnTombstone(c) \/ FailCommit(c) \/ Kill(c)
    BY <2>2, GiveUpPreserves DEF FailOnTombstone, FailCommit, Kill
  <2> QED
    BY <1>2, <2>1, <2>2, AssignPreserves, PollPreserves, ParsePreserves,
       ReadExistingPreserves, WriteHourPreserves, CommitPreserves DEF Step
<1>3. CASE UNCHANGED vars
  BY <1>3 DEF vars, local, KafkaInv, TypeOK, CommittedAccounted, OneRowPerEvent, ConsumerInv,
              StoredIds, Accepted, Rejected
<1> QED
  BY <1>1, <1>2, <1>3 DEF Next

\* KafkaInv is inductive, for every number of consumers and every batch size.
THEOREM KafkaInvariant == Spec => []KafkaInv
<1> QED
  BY InitKafka, KafkaStep, PTL DEF Spec

\* Types; an ended process holds no batch.
THEOREM KafkaTypesCorrect == Spec => []TypeOK
<1>1. KafkaInv => TypeOK
  BY DEF KafkaInv
<1> QED
  BY <1>1, KafkaInvariant, PTL

\* Behind the committed offset every event has a row and every malformed message a
\* diagnostic, whatever is killed, rebalanced or sent again.
THEOREM CommittedHasLanded == Spec => []CommittedAccounted
<1>1. KafkaInv => CommittedAccounted
  BY DEF KafkaInv
<1> QED
  BY <1>1, KafkaInvariant, PTL

\* Redelivery, crashes between two files and producer retries leave one row per event,
\* unless the partition was taken from a consumer with an unfinished batch.
THEOREM EventsUnique == Spec => []OneRowPerEvent
<1>1. KafkaInv => OneRowPerEvent
  BY DEF KafkaInv
<1> QED
  BY <1>1, KafkaInvariant, PTL
=================================================================================
