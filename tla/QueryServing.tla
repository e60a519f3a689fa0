------------------------------- MODULE QueryServing -------------------------------
(***************************************************************************)
(* Requests of the read API: QueryService._cached (backend/services/query.py)*)
(* over the shared QueryCache (backend/services/cache.py), while dbt builds  *)
(* replace what the marts hold.  A client is a request thread of the server; *)
(* the cache's lock covers the lookup and the store, never the query.       *)
(***************************************************************************)
EXTENDS Integers, FiniteSets, SequencesExt

CONSTANTS
    Clients,       \* request threads
    Endpoints,     \* cached mart endpoints with their normalized parameters
    Unasked,       \* no endpoint
    MaxEntries,    \* capacity of the cache
    MaxStamp,      \* bound: file versions
    MaxRequests    \* bound: cache lookups

ASSUME ClientsAssumption == IsFiniteSet(Clients)
ASSUME EndpointsAssumption == Unasked \notin Endpoints
ASSUME CapacityAssumption == MaxEntries \in Nat \ {0}
ASSUME ServingBounds == MaxStamp \in Nat /\ MaxRequests \in Nat

\* A cache key: the endpoint and the version hashed from the files' stat.
CacheKeys == Endpoints \X (0 .. MaxStamp)

VARIABLES
    content,    \* how often the published marts have changed; 0: no database file
    writer,     \* "dbt" while a build has the database open for writing
    stamp,      \* what stat says of the database and the build manifests
    values,     \* cached value per key; a value is the content it was read from
    order,      \* keys of values, least recently used first
    hits, misses, evictions,
    pc,         \* what each request does next
    request,    \* endpoint and version of each request
    answer,     \* the value each request has
    since       \* history: the content published when the request came in

files == <<content, writer, stamp>>
cache == <<values, order, hits, misses, evictions>>
threads == <<pc, request, answer, since>>
vars == <<files, cache, threads>>

NoRequest == <<Unasked, 0>>

ServiceTypeOK ==
    /\ content \in Nat /\ writer \in {"none", "dbt"} /\ stamp \in 0 .. MaxStamp
    /\ DOMAIN values \subseteq CacheKeys /\ \A k \in DOMAIN values : values[k] \in Nat
    /\ pc \in [Clients -> {"idle", "lookup", "compute", "store", "return"}]
    /\ request \in [Clients -> CacheKeys \cup {NoRequest}]
    /\ \A c \in Clients :
          IF pc[c] = "idle" THEN request[c] = NoRequest ELSE request[c] \in CacheKeys
    /\ answer \in [Clients -> Nat]
    /\ since \in [Clients -> Nat]

TypeOK ==
    /\ ServiceTypeOK
    /\ order \in Seq(CacheKeys)
    /\ hits \in Nat /\ misses \in Nat /\ evictions \in Nat

Init ==
    /\ content = 0 /\ writer = "none" /\ stamp = 0
    /\ values = [k \in {} |-> 0] /\ order = <<>>
    /\ hits = 0 /\ misses = 0 /\ evictions = 0
    /\ pc = [c \in Clients |-> "idle"]
    /\ request = [c \in Clients |-> NoRequest]
    /\ answer = [c \in Clients |-> 0]
    /\ since = [c \in Clients |-> 0]

Goto(c, step) == pc' = [pc EXCEPT ![c] = step]

\* Variant: the thread of a finished request keeps it.
EndKeepingRequest(c) == Goto(c, "idle") /\ UNCHANGED <<request, answer, since>>

\* The response is sent, and the request's thread is free again.
End(c) ==
    /\ Goto(c, "idle")
    /\ request' = [request EXCEPT ![c] = NoRequest]
    /\ answer' = [answer EXCEPT ![c] = 0]
    /\ since' = [since EXCEPT ![c] = 0]

-----------------------------------------------------------------------------
(* dbt and the build manifests (external to the server). *)

\* A build opens the database for writing; its first write changes the file.
StartBuild ==
    /\ writer = "none" /\ stamp < MaxStamp
    /\ writer' = "dbt" /\ stamp' = stamp + 1
    /\ UNCHANGED <<content, cache, threads>>

\* The build ends, complete or not; what it committed becomes readable.  Its
\* last writes may have changed the file once more.
FinishBuild ==
    /\ writer = "dbt" /\ writer' = "none"
    /\ content' = content + 1
    /\ stamp' \in {s \in {stamp, stamp + 1} : s <= MaxStamp}
    /\ UNCHANGED <<cache, threads>>

\* create_build_manifest adds a file to builds_root.
RecordBuild ==
    /\ stamp < MaxStamp
    /\ stamp' = stamp + 1
    /\ UNCHANGED <<content, writer, cache, threads>>

-----------------------------------------------------------------------------
(* One request. *)

\* Variant: the version is not part of the key.
EndpointOnly(e) == <<e, 0>>

\* _cached: the key holds the version of the files as they are now.
KeyNow(e) == <<e, stamp>>

Begin(c, e) ==
    /\ pc[c] = "idle"
    /\ hits + misses + Cardinality({d \in Clients : pc[d] = "lookup"}) < MaxRequests
    /\ request' = [request EXCEPT ![c] = KeyNow(e)]
    /\ since' = [since EXCEPT ![c] = content]
    /\ Goto(c, "lookup")
    /\ UNCHANGED <<files, cache, answer>>

\* The order of the keys when k is taken out; a key has one place in it.
Without(s, k) ==
    IF k \in ToSet(s) THEN RemoveAt(s, CHOOSE i \in DOMAIN s : s[i] = k) ELSE s

\* The entry is there and has not expired: move_to_end.
Hit(c) ==
    /\ pc[c] = "lookup" /\ request[c] \in DOMAIN values
    /\ answer' = [answer EXCEPT ![c] = values[request[c]]]
    /\ order' = Append(Without(order, request[c]), request[c])
    /\ hits' = hits + 1
    /\ Goto(c, "return")
    /\ UNCHANGED <<files, values, misses, evictions, request, since>>

\* There is no entry, or its time to live is over: it is deleted.
Miss(c) ==
    /\ pc[c] = "lookup"
    /\ values' = [k \in DOMAIN values \ {request[c]} |-> values[k]]
    /\ order' = Without(order, request[c])
    /\ misses' = misses + 1
    /\ Goto(c, "compute")
    /\ UNCHANGED <<files, hits, evictions, request, answer, since>>

\* Variant: the query also runs against a database that is being built.
ReadableAlways == content > 0

\* duckdb.connect(read_only) finds the file and no writer.
Readable == content > 0 /\ writer = "none"

\* compute(), outside the lock.
Compute(c) ==
    /\ pc[c] = "compute" /\ Readable
    /\ answer' = [answer EXCEPT ![c] = content]
    /\ Goto(c, "store")
    /\ UNCHANGED <<files, cache, request, since>>

\* MartUnavailable: the response is 503 and nothing is stored.
FailCompute(c) ==
    /\ pc[c] = "compute" /\ ~Readable
    /\ End(c)
    /\ UNCHANGED <<files, cache>>

\* Variant: room is made before the new entry is added.
ExcessBefore(s) == IF Len(s) - 1 > MaxEntries THEN Len(s) - 1 - MaxEntries ELSE 0

\* How many entries popitem(last=False) removes from the front.
Excess(s) == IF Len(s) > MaxEntries THEN Len(s) - MaxEntries ELSE 0

\* The second critical section: insert or overwrite, move to the end, evict.
Store(c) ==
    /\ pc[c] = "store"
    /\ LET k == request[c]
           entered == Append(Without(order, k), k)
           evicted == {entered[i] : i \in 1 .. Excess(entered)}
       IN  /\ order' = SubSeq(entered, Excess(entered) + 1, Len(entered))
           /\ values' = [j \in (DOMAIN values \cup {k}) \ evicted |->
                           IF j = k THEN answer[c] ELSE values[j]]
           /\ evictions' = evictions + Excess(entered)
    /\ Goto(c, "return")
    /\ UNCHANGED <<files, hits, misses, request, answer, since>>

Return(c) ==
    /\ pc[c] = "return"
    /\ End(c)
    /\ UNCHANGED <<files, cache>>

-----------------------------------------------------------------------------
Build == StartBuild \/ FinishBuild \/ RecordBuild

Serve(c) ==
    \/ \E e \in Endpoints : Begin(c, e)
    \/ Hit(c) \/ Miss(c) \/ Compute(c) \/ FailCompute(c) \/ Store(c) \/ Return(c)

Next == Build \/ \E c \in Clients : Serve(c)

Spec == Init /\ [][Next]_vars

-----------------------------------------------------------------------------
(* Properties. *)

\* "A new mart or dataset build therefore cannot reuse a stale result"
\* (docs/query_serving.md:48): what a request returns, cached or computed, by
\* whichever thread, was published no earlier than what was current when the
\* request came in.  So the answers of successive requests never go back.
AnswersCurrent ==
    \A c \in Clients : pc[c] = "return" => since[c] <= answer[c] /\ answer[c] <= content

\* The counters of /health/ready account for the entries, and the cache stays
\* within its capacity, when misses for one key overlap: every entry, eviction
\* and query in progress comes from a miss of its own.
CacheAccounted ==
    /\ Len(order) <= MaxEntries
    /\ ToSet(order) = DOMAIN values
    /\ Len(order) + evictions + Cardinality({c \in Clients : pc[c] \in {"compute", "store"}})
         <= misses
===================================================================================
