----------------------------- MODULE KafkaMicrobatch -----------------------------
(***************************************************************************)
(* consume_microbatch (ingestion/streaming/kafka.py) run by the processes   *)
(* of scripts/consume_streamalpha.py: one bounded batch per process, offsets*)
(* committed only after the files are written.  One topic partition; the    *)
(* broker's group coordinator is external.                                  *)
(***************************************************************************)
EXTENDS Integers, Sequences, FiniteSets

CONSTANTS
    Consumers,      \* processes of the consumer group
    EventIds,       \* event_id of well-formed events
    HourOf,         \* the (day, hour) file group of an event
    Malformed,      \* a value that _event rejects with a caught exception
    Tombstone,      \* a message without a value
    Nobody,         \* no consumer
    MaxRecords,     \* max_records
    MaxLog          \* bound: messages ever produced

ASSUME BatchAssumption == MaxRecords \in Nat \ {0} /\ MaxLog \in Nat
ASSUME KindsAssumption == {Malformed, Tombstone} \cap EventIds = {}
ASSUME NobodyAssumption == Nobody \notin Consumers

Offsets == 1 .. MaxLog
Hours == {HourOf[e] : e \in EventIds}

VARIABLES
    log,         \* the topic partition: log[o] is the message at offset o
    owner,       \* the consumer the partition is assigned to
    committed,   \* offsets up to this one are committed
    stored,      \* stored[o]: rows of final files that came from offset o
    diagnosed,   \* offsets in some quarantine file
    pc,          \* what each consumer does next
    position,    \* last offset each consumer was handed
    batch,       \* offsets each consumer holds
    fresh,       \* offsets among them still to be written
    overlapped   \* history: reassigned while another consumer held a batch

local == <<pc, position, batch, fresh>>
vars == <<log, owner, committed, stored, diagnosed, local, overlapped>>

TypeOK ==
    /\ log \in Seq(EventIds \cup {Malformed, Tombstone}) /\ Len(log) <= MaxLog
    /\ owner \in Consumers \cup {Nobody}
    /\ committed \in 0 .. Len(log)
    /\ stored \in [Offsets -> Nat]
    /\ diagnosed \subseteq Offsets
    /\ pc \in [Consumers -> {"idle", "poll", "parse", "read", "write", "commit"}]
    /\ position \in [Consumers -> 0 .. Len(log)]
    /\ batch \in [Consumers -> SUBSET Offsets]
    /\ fresh \in [Consumers -> SUBSET Offsets]
    /\ \A c \in Consumers : fresh[c] \subseteq batch[c] /\ (pc[c] = "idle" => batch[c] = {})
    /\ overlapped \in BOOLEAN

Init ==
    /\ log = <<>>
    /\ owner = Nobody
    /\ committed = 0
    /\ stored = [o \in Offsets |-> 0]
    /\ diagnosed = {}
    /\ pc = [c \in Consumers |-> "idle"]
    /\ position = [c \in Consumers |-> 0]
    /\ batch = [c \in Consumers |-> {}]
    /\ fresh = [c \in Consumers |-> {}]
    /\ overlapped = FALSE

Goto(c, step) == pc' = [pc EXCEPT ![c] = step]

\* consumer.close(): enable.auto.commit is off, so nothing is committed.
Close(c) == UNCHANGED committed

\* Variant: the next process inherits the messages of this one.
EndKeepingBatch(c) ==
    /\ Goto(c, "idle")
    /\ position' = [position EXCEPT ![c] = 0]
    /\ owner' = IF owner = c THEN Nobody ELSE owner
    /\ UNCHANGED <<batch, fresh>>

\* The process ends and leaves the group.
End(c) ==
    /\ Goto(c, "idle")
    /\ position' = [position EXCEPT ![c] = 0]
    /\ batch' = [batch EXCEPT ![c] = {}]
    /\ fresh' = [fresh EXCEPT ![c] = {}]
    /\ owner' = IF owner = c THEN Nobody ELSE owner

-----------------------------------------------------------------------------
(* Producer and group coordinator (external). *)

\* StreamAlpha publishes a message; a producer retry repeats an event_id.
Produce ==
    /\ Len(log) < MaxLog
    /\ \E m \in EventIds \cup {Malformed, Tombstone} : log' = Append(log, m)
    /\ UNCHANGED <<owner, committed, stored, diagnosed, local, overlapped>>

\* The partition is (re)assigned to a member that polls; it resumes at the
\* committed offset.
Assign(c) ==
    /\ pc[c] = "poll" /\ owner # c
    /\ owner' = c
    /\ position' = [position EXCEPT ![c] = committed]
    /\ overlapped' = (overlapped \/ \E d \in Consumers \ {c} : batch[d] # {})
    /\ UNCHANGED <<log, committed, stored, diagnosed, pc, batch, fresh>>

-----------------------------------------------------------------------------
(* One process: main of consume_streamalpha.py around consume_microbatch. *)

Start(c) ==
    /\ pc[c] = "idle"
    /\ Goto(c, "poll")
    /\ UNCHANGED <<log, owner, committed, stored, diagnosed, position, batch, fresh, overlapped>>

\* consumer.poll hands out the next message of an assigned partition.
Poll(c) ==
    /\ pc[c] = "poll" /\ owner = c
    /\ Cardinality(batch[c]) < MaxRecords
    /\ position[c] < Len(log)
    /\ position' = [position EXCEPT ![c] = @ + 1]
    /\ batch' = [batch EXCEPT ![c] = @ \cup {position[c] + 1}]
    /\ UNCHANGED <<log, owner, committed, stored, diagnosed, pc, fresh, overlapped>>

\* The batch is full, the deadline passed, or poll returned None.
StopPolling(c) ==
    /\ pc[c] = "poll"
    /\ Goto(c, "parse")
    /\ UNCHANGED <<log, owner, committed, stored, diagnosed, position, batch, fresh, overlapped>>

Rejected(c) == {o \in batch[c] : log[o] = Malformed}
Accepted(c) == {o \in batch[c] : log[o] \in EventIds}

\* Variant: no exception of _event is caught.
FatalOnceRejected(m) == m \notin EventIds

\* None has no decode: AttributeError is not among the exceptions caught.
Fatal(m) == m = Tombstone

\* The quarantine file of the run; a new UUID names it.
QuarantineRejected(c) == diagnosed' = diagnosed \cup Rejected(c)

\* _event on every message; the rejected ones go to quarantine.
Parse(c) ==
    /\ pc[c] = "parse"
    /\ \A o \in batch[c] : ~Fatal(log[o])
    /\ QuarantineRejected(c)
    /\ Goto(c, "read")
    /\ UNCHANGED <<log, owner, committed, stored, position, batch, fresh, overlapped>>

\* The exception leaves consume_microbatch before anything is written.
FailOnTombstone(c) ==
    /\ pc[c] = "parse"
    /\ \E o \in batch[c] : Fatal(log[o])
    /\ End(c) /\ Close(c)
    /\ UNCHANGED <<log, stored, diagnosed, overlapped>>

\* event_id and coordinate sets of the final files.
StoredIds == {log[o] : o \in {p \in DOMAIN log : stored[p] > 0}}

\* Variant: duplicates are looked for by coordinate only.
NewCoordinates(c) == {o \in Accepted(c) : stored[o] = 0}

\* Neither the event_id nor the coordinate is retained or earlier in the batch.
NewEvents(c) ==
    {o \in Accepted(c) : /\ log[o] \notin StoredIds /\ stored[o] = 0
                         /\ \A p \in Accepted(c) : p < o => log[p] # log[o]}

\* _existing, then the partition of accepted events into new and duplicate.
ReadExisting(c) ==
    /\ pc[c] = "read"
    /\ fresh' = [fresh EXCEPT ![c] = NewEvents(c)]
    /\ Goto(c, IF NewEvents(c) = {} THEN "commit" ELSE "write")
    /\ UNCHANGED <<log, owner, committed, stored, diagnosed, position, batch, overlapped>>

\* Variant: offsets are committed once the first file is written.
AfterFirstHour(rest) == "commit"

AfterHour(rest) == IF rest = {} THEN "commit" ELSE "write"

\* The file of one hour: temporary file, then os.replace.
WriteHour(c) ==
    /\ pc[c] = "write"
    /\ \E h \in Hours :
          LET rows == {o \in fresh[c] : HourOf[log[o]] = h}
          IN  /\ rows # {}
              /\ stored' = [o \in Offsets |-> IF o \in rows THEN stored[o] + 1 ELSE stored[o]]
              /\ fresh' = [fresh EXCEPT ![c] = @ \ rows]
              /\ Goto(c, AfterHour(fresh[c] \ rows))
    /\ UNCHANGED <<log, owner, committed, diagnosed, position, batch, overlapped>>

\* The coordinator accepts a commit from the current owner only.
OwnsPartition(c) == owner = c

\* consumer.commit of everything handed out; metadata and exit.
Commit(c) ==
    /\ pc[c] = "commit" /\ OwnsPartition(c)
    /\ committed' = position[c]
    /\ End(c)
    /\ UNCHANGED <<log, stored, diagnosed, overlapped>>

\* The partition went to another consumer: commit raises.
FailCommit(c) ==
    /\ pc[c] = "commit" /\ ~OwnsPartition(c)
    /\ End(c) /\ Close(c)
    /\ UNCHANGED <<log, stored, diagnosed, overlapped>>

\* SIGKILL, a broker error raised by poll, a full disk.
Kill(c) ==
    /\ pc[c] # "idle"
    /\ End(c) /\ Close(c)
    /\ UNCHANGED <<log, stored, diagnosed, overlapped>>

-----------------------------------------------------------------------------
Step(c) ==
    \/ StopPolling(c) \/ Parse(c) \/ FailOnTombstone(c)
    \/ ReadExisting(c) \/ WriteHour(c) \/ Commit(c) \/ FailCommit(c)

Next == Produce \/ \E c \in Consumers : Assign(c) \/ Start(c) \/ Poll(c) \/ Step(c) \/ Kill(c)

Spec == Init /\ [][Next]_vars

\* A running consumer that nobody competes with is given the partition.
AssignFree(c) == owner = Nobody /\ Assign(c)

(***************************************************************************)
(* The script is run again and again, an assigned consumer is handed        *)
(* messages before its deadline often enough, and in the end processes are  *)
(* neither killed nor robbed of the partition.                              *)
(***************************************************************************)
Fairness ==
    /\ \A c \in Consumers : /\ WF_vars(Start(c)) /\ WF_vars(Step(c))
                            /\ SF_vars(AssignFree(c)) /\ SF_vars(Poll(c))
    /\ <>[][\A c \in Consumers : Kill(c) => Step(c)]_vars
    /\ <>[][\A c \in Consumers : Assign(c) => owner = Nobody]_vars

FairSpec == Spec /\ Fairness

-----------------------------------------------------------------------------
(* Properties. *)

\* "Offsets are acknowledged only after every final file is durable": behind the
\* committed offset every event has a row and every bad message a diagnostic.
CommittedAccounted ==
    \A o \in 1 .. committed :
        /\ log[o] \in EventIds => log[o] \in StoredIds
        /\ log[o] = Malformed => o \in diagnosed

\* Redelivery and producer retries leave one row per event_id, as long as the
\* partition was never taken from a consumer that held an unfinished batch.
OneRowPerEvent ==
    ~overlapped =>
        \A o, p \in DOMAIN log :
            stored[o] > 0 /\ stored[p] > 0 /\ log[o] = log[p] => o = p /\ stored[o] = 1

\* "preventing a poison message from blocking the local consumer forever"
\* (docs/streamalpha_kafka.md): every message is passed in the end.
EveryMessagePassed == \A o \in Offsets : (o <= Len(log)) ~> (o <= committed)

\* The same for a topic on which no tombstone is ever published.
WellFormedTopicPassed ==
    [](\A o \in DOMAIN log : log[o] # Tombstone) => EveryMessagePassed
==================================================================================
