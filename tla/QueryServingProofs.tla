---------------------------- MODULE QueryServingProofs ----------------------------
(***************************************************************************)
(* No request is answered with a result older than what was published when  *)
(* it came in, and the cache's counters account for its entries, for any     *)
(* number of request threads and any cache capacity.                        *)
(***************************************************************************)
EXTENDS QueryServing, FiniteSetTheorems, SequenceTheorems, TLAPS

\* A value a that was read under version v is not newer than what is published, and
\* a value of the current version is exactly that.  While a build holds the database
\* no value has the current version, for the build has changed the file.
FromVersion(v, a) ==
    /\ v <= stamp /\ a <= content
    /\ v = stamp => writer = "none" /\ a = content

\* Requests with the version v came in no later than a became current.
Covers(v, a) ==
    \A c \in Clients : pc[c] # "idle" /\ request[c][2] = v => since[c] <= a

Sound(v, a) == FromVersion(v, a) /\ Covers(v, a)

\* The same of the next state, for fixed v and a.
SoundNext(v, a) ==
    /\ v <= stamp' /\ a <= content'
    /\ v = stamp' => writer' = "none" /\ a = content'
    /\ \A c \in Clients : pc'[c] # "idle" /\ request'[c][2] = v => since'[c] <= a

ServingInv ==
    /\ \A k \in DOMAIN values : Sound(k[2], values[k])
    /\ \A c \in Clients : pc[c] = "store" => Sound(request[c][2], answer[c])
    /\ \A c \in Clients : pc[c] # "idle" => request[c][2] <= stamp /\ since[c] <= content
    /\ AnswersCurrent

LEMMA InvNext ==
  ASSUME \A k \in DOMAIN values' : SoundNext(k[2], values'[k]),
         \A c \in Clients : pc'[c] = "store" => SoundNext(request'[c][2], answer'[c]),
         \A c \in Clients : pc'[c] # "idle" => request'[c][2] <= stamp' /\ since'[c] <= content',
         AnswersCurrent'
  PROVE  ServingInv'
  BY DEF ServingInv, Sound, SoundNext, FromVersion, Covers

-----------------------------------------------------------------------------
LEMMA ServiceTypes == ASSUME ServiceTypeOK, [Next]_vars PROVE ServiceTypeOK'
<1> USE DEF ServiceTypeOK, Goto
<1>1. CASE Build
  <2>1. /\ stamp' \in 0 .. MaxStamp /\ content' \in Nat /\ writer' \in {"none", "dbt"}
        /\ UNCHANGED <<cache, threads>>
    BY <1>1, ServingBounds DEF Build, StartBuild, FinishBuild, RecordBuild
  <2> QED
    BY <2>1 DEF cache, threads
<1>2. ASSUME NEW c \in Clients, Serve(c) PROVE ServiceTypeOK'
  <2>1. ASSUME NEW e \in Endpoints, Begin(c, e) PROVE ServiceTypeOK'
    BY <2>1 DEF Begin, KeyNow, CacheKeys, files, cache
  <2>2. CASE Hit(c)
    BY <2>2 DEF Hit, files
  <2>3. CASE Miss(c)
    BY <2>3 DEF Miss, files
  <2>4. CASE Compute(c)
    BY <2>4 DEF Compute, files, cache
  <2>5. CASE FailCompute(c) \/ Return(c)
    BY <2>5 DEF FailCompute, Return, End, files, cache
  <2>6. CASE Store(c)
    BY <2>6 DEF Store, files
  <2> QED
    BY <1>2, <2>1, <2>2, <2>3, <2>4, <2>5, <2>6 DEF Serve
<1>3. CASE UNCHANGED vars
  BY <1>3 DEF vars, files, cache, threads
<1> QED
  BY <1>1, <1>2, <1>3 DEF Next

\* The types of everything but the order and the counters of the cache.
THEOREM ServiceTyped == Spec => []ServiceTypeOK
<1>1. Init => ServiceTypeOK
  <2> SUFFICES ASSUME Init PROVE ServiceTypeOK
    OBVIOUS
  <2>1. stamp \in 0 .. MaxStamp /\ content \in Nat /\ writer \in {"none", "dbt"}
    BY ServingBounds DEF Init
  <2>2. DOMAIN values = {}
    BY DEF Init
  <2>3. /\ pc \in [Clients -> {"idle", "lookup", "compute", "store", "return"}]
        /\ request \in [Clients -> CacheKeys \cup {NoRequest}]
        /\ \A c \in Clients : pc[c] = "idle" /\ request[c] = NoRequest
        /\ answer \in [Clients -> Nat] /\ since \in [Clients -> Nat]
    BY DEF Init
  <2> QED
    BY <2>1, <2>2, <2>3 DEF ServiceTypeOK
<1> QED
  BY <1>1, ServiceTypes, PTL DEF Spec

-----------------------------------------------------------------------------
LEMMA Versions ==
  ASSUME ServiceTypeOK
  PROVE  /\ stamp \in Nat /\ content \in Nat
         /\ \A k \in DOMAIN values : k[2] \in Nat /\ values[k] \in Nat
         /\ \A c \in Clients : pc[c] # "idle" => request[c][2] \in Nat
         /\ \A c \in Clients : answer[c] \in Nat /\ since[c] \in Nat
  BY ServingBounds DEF ServiceTypeOK, CacheKeys

\* A build only raises the version and the content.
LEMMA BuildSound ==
  ASSUME ServiceTypeOK, ServingInv, Build
  PROVE  ServingInv'
<1>1. /\ UNCHANGED <<values, pc, request, answer, since>>
      /\ stamp' \in Nat /\ stamp <= stamp' /\ content' \in Nat /\ content <= content'
      /\ stamp < stamp' \/ (writer = "dbt" /\ stamp' = stamp)
  BY Versions, ServingBounds DEF Build, StartBuild, FinishBuild, RecordBuild, cache, threads
<1>2. ASSUME NEW v \in Nat, NEW a \in Nat, Sound(v, a) PROVE SoundNext(v, a)
  BY <1>1, <1>2, Versions DEF Sound, FromVersion, Covers, SoundNext
<1>3. \A k \in DOMAIN values' : SoundNext(k[2], values'[k])
  BY <1>1, <1>2, Versions DEF ServingInv
<1>4. \A c \in Clients : pc'[c] = "store" => SoundNext(request'[c][2], answer'[c])
  BY <1>1, <1>2, Versions DEF ServingInv
<1>5. \A c \in Clients : pc'[c] # "idle" => request'[c][2] <= stamp' /\ since'[c] <= content'
  BY <1>1, Versions DEF ServingInv
<1>6. AnswersCurrent'
  BY <1>1, Versions DEF ServingInv, AnswersCurrent
<1> QED
  BY <1>3, <1>4, <1>5, <1>6, InvNext

\* The steps of one request.
LEMMA ServeSound ==
  ASSUME ServiceTypeOK, ServingInv, NEW c \in Clients, Serve(c)
  PROVE  ServingInv'
<1> USE DEF ServiceTypeOK
<1>1. /\ stamp' = stamp /\ content' = content /\ writer' = writer
      /\ \A d \in Clients \ {c} : /\ pc'[d] = pc[d] /\ request'[d] = request[d]
                                  /\ answer'[d] = answer[d] /\ since'[d] = since[d]
  BY DEF Serve, Begin, Hit, Miss, Compute, FailCompute, Store, Return, End, Goto, files
<1>2. ASSUME NEW e \in Endpoints, Begin(c, e) PROVE ServingInv'
  <2>1. /\ UNCHANGED values /\ pc'[c] = "lookup"
        /\ request'[c] = <<e, stamp>> /\ since'[c] = content
    BY <1>2 DEF Begin, Goto, KeyNow, cache
  <2>2. ASSUME NEW v \in Nat, NEW a \in Nat, Sound(v, a) PROVE SoundNext(v, a)
    BY <1>1, <2>1, <2>2, Versions DEF Sound, FromVersion, Covers, SoundNext
  <2>3. \A k \in DOMAIN values' : SoundNext(k[2], values'[k])
    BY <2>1, <2>2, Versions DEF ServingInv
  <2>4. \A d \in Clients : pc'[d] = "store" => SoundNext(request'[d][2], answer'[d])
    BY <1>1, <2>1, <2>2, Versions DEF ServingInv
  <2>5. \A d \in Clients : pc'[d] # "idle" => request'[d][2] <= stamp' /\ since'[d] <= content'
    BY <1>1, <2>1, Versions DEF ServingInv
  <2>6. AnswersCurrent'
    BY <1>1, <2>1 DEF ServingInv, AnswersCurrent
  <2> QED
    BY <2>3, <2>4, <2>5, <2>6, InvNext
<1>3. CASE Hit(c) \/ Miss(c) \/ Compute(c) \/ FailCompute(c) \/ Store(c) \/ Return(c)
  <2>1. /\ pc[c] # "idle"
        /\ pc'[c] # "idle" => request'[c] = request[c] /\ since'[c] = since[c]
    BY <1>3 DEF Hit, Miss, Compute, FailCompute, Store, Return, End, Goto
  <2>2. ASSUME NEW v \in Nat, NEW a \in Nat, Sound(v, a) PROVE SoundNext(v, a)
    BY <1>1, <2>1, <2>2 DEF Sound, FromVersion, Covers, SoundNext
  <2>3. \A d \in Clients : pc'[d] # "idle" => request'[d][2] <= stamp' /\ since'[d] <= content'
    BY <1>1, <2>1 DEF ServingInv
  <2>4. ASSUME NEW d \in Clients, pc'[d] = "store" PROVE SoundNext(request'[d][2], answer'[d])
    <3>1. CASE d # c
      BY <1>1, <2>2, <2>4, <3>1, Versions DEF ServingInv
    <3>2. CASE d = c
      <4>1. Compute(c)
        BY <1>3, <2>4, <3>2 DEF Hit, Miss, Compute, FailCompute, Store, Return, End, Goto
      <4>2. answer'[c] = content /\ writer = "none"
        BY <4>1 DEF Compute, Readable
      <4>3. Sound(request[c][2], content)
        BY <2>1, <4>2, Versions DEF ServingInv, Sound, FromVersion, Covers
      <4> QED
        BY <2>1, <2>2, <2>4, <3>2, <4>2, <4>3, Versions
    <3> QED
      BY <3>1, <3>2
  <2>5. ASSUME NEW k \in DOMAIN values' PROVE SoundNext(k[2], values'[k])
    <3>1. CASE k \in DOMAIN values /\ values'[k] = values[k]
      BY <2>2, <3>1, Versions DEF ServingInv
    <3>2. CASE ~(k \in DOMAIN values /\ values'[k] = values[k])
      <4>1. pc[c] = "store" /\ k = request[c] /\ values'[k] = answer[c]
        BY <1>3, <2>5, <3>2 DEF Hit, Miss, Compute, FailCompute, Store, Return, End, cache
      <4> QED
        BY <2>2, <4>1, Versions DEF ServingInv
    <3> QED
      BY <3>1, <3>2
  <2>6. AnswersCurrent'
    <3>1. ASSUME NEW d \in Clients, pc'[d] = "return"
          PROVE  since'[d] <= answer'[d] /\ answer'[d] <= content'
      <4>1. CASE d # c
        BY <1>1, <3>1, <4>1 DEF ServingInv, AnswersCurrent
      <4>2. CASE d = c
        <5>1. \/ Hit(c) /\ answer'[c] = values[request[c]] /\ request[c] \in DOMAIN values
              \/ Store(c) /\ answer'[c] = answer[c] /\ pc[c] = "store"
          BY <1>3, <3>1, <4>2 DEF Hit, Miss, Compute, FailCompute, Store, Return, End, Goto
        <5>2. Sound(request[c][2], answer'[c])
          BY <5>1 DEF ServingInv
        <5> QED
          BY <1>1, <2>1, <3>1, <4>2, <5>2 DEF Sound, FromVersion, Covers
      <4> QED
        BY <4>1, <4>2
    <3> QED
      BY <3>1 DEF AnswersCurrent
  <2> QED
    BY <2>3, <2>4, <2>5, <2>6, InvNext
<1> QED
  BY <1>2, <1>3 DEF Serve

\* What a request returns, cached or computed, is no older than what was
\* published when it came in (AnswersCurrent).
THEOREM AnswersNeverStale == Spec => []AnswersCurrent
<1>1. Init => ServingInv
  BY DEF Init, ServingInv, AnswersCurrent
<1>2. ServiceTypeOK /\ ServingInv /\ [Next]_vars => ServingInv'
  <2> SUFFICES ASSUME ServiceTypeOK, ServingInv, [Next]_vars PROVE ServingInv'
    OBVIOUS
  <2>1. CASE UNCHANGED vars
    BY <2>1 DEF vars, files, cache, threads, ServingInv, AnswersCurrent, Sound, FromVersion, Covers
  <2> QED
    BY <2>1, BuildSound, ServeSound DEF Next
<1>3. ServingInv => AnswersCurrent
  BY DEF ServingInv
<1> QED
  BY <1>1, <1>2, <1>3, ServiceTyped, PTL DEF Spec

-----------------------------------------------------------------------------
(* The order of the cache's keys. *)

Distinct(s) == \A i, j \in 1 .. Len(s) : s[i] = s[j] => i = j

LEMMA InOrder ==
  ASSUME NEW S, NEW s \in Seq(S)
  PROVE  /\ Len(s) \in Nat /\ DOMAIN s = 1 .. Len(s) /\ \A i \in 1 .. Len(s) : s[i] \in S
         /\ \A x : x \in ToSet(s) <=> \E i \in 1 .. Len(s) : x = s[i]
  BY DEF ToSet

LEMMA WithoutKey ==
  ASSUME NEW S, NEW s \in Seq(S), Distinct(s), NEW k
  PROVE  /\ Without(s, k) \in Seq(S) /\ Distinct(Without(s, k))
         /\ ToSet(Without(s, k)) = ToSet(s) \ {k}
         /\ Len(Without(s, k)) = IF k \in ToSet(s) THEN Len(s) - 1 ELSE Len(s)
<1>1. CASE k \notin ToSet(s)
  BY <1>1 DEF Without
<1>2. CASE k \in ToSet(s)
  <2>1. PICK i \in 1 .. Len(s) : s[i] = k /\ Without(s, k) = RemoveAt(s, i)
    <3>1. \E i \in DOMAIN s : s[i] = k
      BY <1>2, InOrder
    <3>2. (CHOOSE i \in DOMAIN s : s[i] = k) \in DOMAIN s /\ s[CHOOSE i \in DOMAIN s : s[i] = k] = k
      BY <3>1
    <3> QED
      BY <1>2, <3>2, InOrder DEF Without
  <2> DEFINE front == SubSeq(s, 1, i - 1)
             back == SubSeq(s, i + 1, Len(s))
             rest == front \o back
  <2>2. i \in Nat /\ i >= 1 /\ i <= Len(s) /\ Len(s) \in Nat
    BY InOrder
  <2>3. /\ front \in Seq(S) /\ Len(front) = i - 1
        /\ \A j \in 1 .. i - 1 : front[j] = s[j]
    BY <2>2, InOrder
  <2>4. /\ back \in Seq(S) /\ Len(back) = Len(s) - i
        /\ \A j \in 1 .. Len(s) - i : back[j] = s[i + j]
    BY <2>2, InOrder
  <2>5. Without(s, k) = rest
    BY <2>1 DEF RemoveAt
  <2> HIDE DEF front, back
  <2>6. /\ rest \in Seq(S) /\ Len(rest) = Len(s) - 1
        /\ \A j \in 1 .. Len(s) - 1 : rest[j] = IF j < i THEN s[j] ELSE s[j + 1]
    <3>1. /\ rest \in Seq(S) /\ Len(rest) = Len(front) + Len(back)
          /\ \A j \in 1 .. Len(front) + Len(back) :
                rest[j] = IF j <= Len(front) THEN front[j] ELSE back[j - Len(front)]
      BY <2>3, <2>4, ConcatProperties
    <3>2. Len(rest) = Len(s) - 1
      BY <2>2, <2>3, <2>4, <3>1
    <3>3. ASSUME NEW j \in 1 .. Len(s) - 1
          PROVE  rest[j] = IF j < i THEN s[j] ELSE s[j + 1]
      <4>1. CASE j < i
        BY <2>2, <2>3, <2>4, <3>1, <4>1
      <4>2. CASE ~(j < i)
        <5>1. rest[j] = back[j - (i - 1)] /\ j - (i - 1) \in 1 .. Len(s) - i
          BY <2>2, <2>3, <2>4, <3>1, <4>2
        <5>2. back[j - (i - 1)] = s[i + (j - (i - 1))] /\ i + (j - (i - 1)) = j + 1
          BY <2>2, <2>4, <5>1
        <5> QED
          BY <4>2, <5>1, <5>2
      <4> QED
        BY <4>1, <4>2
    <3> QED
      BY <3>1, <3>2, <3>3
  <2> HIDE DEF rest
  <2>7. Distinct(rest)
    <3> SUFFICES ASSUME NEW j \in 1 .. Len(s) - 1, NEW m \in 1 .. Len(s) - 1, rest[j] = rest[m]
                 PROVE  j = m
      BY <2>6 DEF Distinct
    <3> QED
      BY <2>2, <2>6 DEF Distinct
  <2>8. ToSet(rest) = ToSet(s) \ {k}
    <3>1. ASSUME NEW x \in ToSet(rest) PROVE x \in ToSet(s) \ {k}
      <4>1. PICK j \in 1 .. Len(s) - 1 : x = IF j < i THEN s[j] ELSE s[j + 1]
        BY <2>6, <3>1, InOrder
      <4>2. PICK m \in 1 .. Len(s) : x = s[m] /\ m # i
        BY <2>2, <4>1
      <4> QED
        BY <2>1, <4>2, InOrder DEF Distinct
    <3>2. ASSUME NEW x \in ToSet(s) \ {k} PROVE x \in ToSet(rest)
      <4>1. PICK j \in 1 .. Len(s) : x = s[j] /\ j # i
        BY <2>1, <3>2, InOrder
      <4>2. PICK m \in 1 .. Len(s) - 1 : x = rest[m]
        <5>1. CASE j < i
          BY <2>2, <2>6, <4>1, <5>1
        <5>2. CASE j > i
          <6>1. j - 1 \in 1 .. Len(s) - 1 /\ rest[j - 1] = s[j]
            BY <2>2, <2>6, <4>1, <5>2
          <6> QED
            BY <4>1, <6>1
        <5> QED
          BY <2>2, <4>1, <5>1, <5>2
      <4> QED
        BY <2>6, <4>2, InOrder
    <3> QED
      BY <3>1, <3>2
  <2> QED
    BY <1>2, <2>5, <2>6, <2>7, <2>8
<1> QED
  BY <1>1, <1>2

\* move_to_end, and an insertion at the end.
LEMMA MovedToEnd ==
  ASSUME NEW S, NEW s \in Seq(S), Distinct(s), NEW k \in S
  PROVE  /\ Append(Without(s, k), k) \in Seq(S)
         /\ Distinct(Append(Without(s, k), k))
         /\ ToSet(Append(Without(s, k), k)) = ToSet(s) \cup {k}
         /\ Len(Append(Without(s, k), k)) = IF k \in ToSet(s) THEN Len(s) ELSE Len(s) + 1
<1>1. PICK rest, moved : rest = Without(s, k) /\ moved = Append(Without(s, k), k)
  OBVIOUS
<1>2. /\ rest \in Seq(S) /\ Distinct(rest) /\ ToSet(rest) = ToSet(s) \ {k}
      /\ Len(rest) = IF k \in ToSet(s) THEN Len(s) - 1 ELSE Len(s)
  BY <1>1, WithoutKey
<1>3. /\ moved \in Seq(S) /\ Len(moved) = Len(rest) + 1 /\ moved[Len(rest) + 1] = k
      /\ \A i \in 1 .. Len(rest) : moved[i] = rest[i]
  BY <1>1, <1>2, AppendProperties
<1>4. Len(rest) \in Nat /\ Len(s) \in Nat
  BY <1>2, InOrder
<1>5. \A i \in 1 .. Len(moved) : i \in 1 .. Len(rest) \/ i = Len(rest) + 1
  BY <1>3, <1>4
<1>6. \A i \in 1 .. Len(rest) : rest[i] # k
  BY <1>2, InOrder
<1>7. Distinct(moved)
  BY <1>2, <1>3, <1>5, <1>6 DEF Distinct
<1>8. ToSet(moved) = ToSet(rest) \cup {k}
  <2>1. ASSUME NEW x \in ToSet(moved) PROVE x \in ToSet(rest) \cup {k}
    <3>1. PICK i \in 1 .. Len(moved) : x = moved[i]
      BY <1>3, <2>1, InOrder
    <3>2. i \in 1 .. Len(rest) => moved[i] \in ToSet(rest)
      BY <1>2, <1>3, InOrder
    <3> QED
      BY <1>3, <1>5, <3>1, <3>2
  <2>2. ASSUME NEW x \in ToSet(rest) PROVE x \in ToSet(moved)
    <3>1. PICK i \in 1 .. Len(rest) : x = rest[i]
      BY <1>2, <2>2, InOrder
    <3>2. i \in 1 .. Len(moved) /\ moved[i] = x
      BY <1>3, <1>4, <3>1
    <3> QED
      BY <1>3, <3>2, InOrder
  <2>3. k \in ToSet(moved)
    <3>1. Len(rest) + 1 \in 1 .. Len(moved)
      BY <1>3, <1>4
    <3> QED
      BY <1>3, <3>1, InOrder
  <2> QED
    BY <2>1, <2>2, <2>3
<1>9. Len(moved) = IF k \in ToSet(s) THEN Len(s) ELSE Len(s) + 1
  BY <1>2, <1>3, <1>4
<1>10. ToSet(moved) = ToSet(s) \cup {k}
  BY <1>2, <1>8
<1> QED
  BY <1>1, <1>3, <1>7, <1>9, <1>10

\* Dropping the first n keys.
LEMMA Evicted ==
  ASSUME NEW S, NEW s \in Seq(S), Distinct(s), NEW n \in Nat, n <= Len(s)
  PROVE  /\ SubSeq(s, n + 1, Len(s)) \in Seq(S)
         /\ Distinct(SubSeq(s, n + 1, Len(s)))
         /\ Len(SubSeq(s, n + 1, Len(s))) = Len(s) - n
         /\ ToSet(SubSeq(s, n + 1, Len(s))) = ToSet(s) \ {s[i] : i \in 1 .. n}
<1>0. PICK left : left = SubSeq(s, n + 1, Len(s))
  OBVIOUS
<1>1. left \in Seq(S) /\ Len(left) = Len(s) - n /\ \A i \in 1 .. Len(s) - n : left[i] = s[n + i]
  BY <1>0, InOrder
<1>2. Len(s) \in Nat
  BY InOrder
<1>3. Distinct(left)
  <2> SUFFICES ASSUME NEW i \in 1 .. Len(s) - n, NEW j \in 1 .. Len(s) - n, left[i] = left[j]
               PROVE  i = j
    BY <1>1 DEF Distinct
  <2>1. n + i \in 1 .. Len(s) /\ n + j \in 1 .. Len(s) /\ s[n + i] = s[n + j]
    BY <1>1, <1>2
  <2> QED
    BY <2>1 DEF Distinct
<1>4. ToSet(left) = ToSet(s) \ {s[i] : i \in 1 .. n}
  <2>1. ASSUME NEW x \in ToSet(left) PROVE x \in ToSet(s) \ {s[i] : i \in 1 .. n}
    <3>0. left \in Seq(S)
      BY <1>1
    <3>1. PICK i \in 1 .. Len(left) : x = left[i]
      BY <2>1, <3>0, InOrder
    <3>2. i \in 1 .. Len(s) - n /\ x = s[n + i]
      BY <1>1, <3>1
    <3>3. n + i \in 1 .. Len(s) /\ \A j \in 1 .. n : j \in 1 .. Len(s) /\ j # n + i
      BY <1>2, <3>2
    <3>4. \A j \in 1 .. n : s[j] # s[n + i]
      BY <3>3 DEF Distinct
    <3> QED
      BY <3>2, <3>3, <3>4, InOrder
  <2>2. ASSUME NEW x \in ToSet(s), x \notin {s[i] : i \in 1 .. n} PROVE x \in ToSet(left)
    <3>1. PICK i \in 1 .. Len(s) : x = s[i]
      BY <2>2, InOrder
    <3>2. i > n
      BY <1>2, <2>2, <3>1
    <3>3. i - n \in 1 .. Len(s) - n /\ left[i - n] = s[i]
      BY <1>1, <1>2, <3>2
    <3> QED
      BY <1>1, <3>1, <3>3, InOrder
  <2> QED
    BY <2>1, <2>2
<1> QED
  BY <1>0, <1>1, <1>3, <1>4

-----------------------------------------------------------------------------
(* Entries and counters. *)

\* Requests between their miss and their store.
Computing == {c \in Clients : pc[c] \in {"compute", "store"}}

CacheInv ==
    /\ order \in Seq(CacheKeys) /\ Distinct(order)
    /\ hits \in Nat /\ misses \in Nat /\ evictions \in Nat
    /\ CacheAccounted

LEMMA ComputingFinite ==
  /\ IsFiniteSet(Computing) /\ Cardinality(Computing) \in Nat
  /\ IsFiniteSet(Computing)' /\ Cardinality(Computing)' \in Nat
<1>1. Computing \in SUBSET Clients /\ Computing' \in SUBSET Clients
  BY DEF Computing
<1>2. IsFiniteSet(Computing) /\ IsFiniteSet(Computing')
  BY <1>1, ClientsAssumption, FS_Subset
<1> QED
  BY <1>2, FS_CardinalityType

LEMMA ComputingCount ==
  ASSUME NEW c
  PROVE  /\ Computing' \subseteq Computing => Cardinality(Computing)' <= Cardinality(Computing)
         /\ Computing' = Computing \cup {c} => Cardinality(Computing)' <= Cardinality(Computing) + 1
         /\ Computing' = Computing \ {c} /\ c \in Computing =>
               Cardinality(Computing)' = Cardinality(Computing) - 1
<1>1. Computing' \subseteq Computing => Cardinality(Computing)' <= Cardinality(Computing)
  BY ComputingFinite, FS_Subset
<1>2. Cardinality(Computing \cup {c}) <= Cardinality(Computing) + 1
  <2>1. Cardinality(Computing \cup {c}) =
           IF c \in Computing THEN Cardinality(Computing) ELSE Cardinality(Computing) + 1
    BY ComputingFinite, FS_AddElement
  <2> QED
    BY <2>1, ComputingFinite
<1>3. c \in Computing => Cardinality(Computing \ {c}) = Cardinality(Computing) - 1
  BY ComputingFinite, FS_RemoveElement
<1> QED
  BY <1>1, <1>2, <1>3

LEMMA CacheStep == ASSUME ServiceTypeOK, CacheInv, [Next]_vars PROVE CacheInv'
<1> DEFINE Count == Cardinality(Computing)
<1>2. /\ order \in Seq(CacheKeys) /\ Len(order) \in Nat /\ Distinct(order)
      /\ Len(order) <= MaxEntries /\ ToSet(order) = DOMAIN values
      /\ hits \in Nat /\ misses \in Nat /\ evictions \in Nat /\ MaxEntries \in Nat \ {0}
      /\ Count \in Nat /\ Len(order) + evictions + Count <= misses
  BY ComputingFinite, CapacityAssumption, InOrder DEF CacheInv, CacheAccounted, Computing
<1> HIDE DEF Count
<1> SUFFICES /\ order' \in Seq(CacheKeys) /\ Distinct(order')
             /\ hits' \in Nat /\ misses' \in Nat /\ evictions' \in Nat
             /\ Len(order') <= MaxEntries /\ ToSet(order') = DOMAIN values'
             /\ Len(order') + evictions' + Count' <= misses'
  BY DEF CacheInv, CacheAccounted, Computing, Count
<1>3. CASE Build \/ UNCHANGED vars
  <2>1. UNCHANGED <<values, order, hits, misses, evictions, pc>>
    BY <1>3 DEF Build, StartBuild, FinishBuild, RecordBuild, vars, cache, threads
  <2> QED
    BY <1>2, <2>1 DEF Computing, Distinct, Count
<1>4. ASSUME NEW c \in Clients, Serve(c)
      PROVE  /\ order' \in Seq(CacheKeys) /\ Distinct(order')
             /\ hits' \in Nat /\ misses' \in Nat /\ evictions' \in Nat
             /\ Len(order') <= MaxEntries /\ ToSet(order') = DOMAIN values'
             /\ Len(order') + evictions' + Count' <= misses'
  <2> DEFINE k == request[c]
  <2>1. /\ pc[c] # "idle" => k \in CacheKeys
        /\ \A d \in Clients : pc'[d] = IF d = c THEN pc'[c] ELSE pc[d]
    BY <1>4 DEF ServiceTypeOK, Serve, Begin, Hit, Miss, Compute, FailCompute,
                Store, Return, End, Goto
  <2>2. /\ pc[c] \in {"compute", "store"} <=> c \in Computing
        /\ pc'[c] \in {"compute", "store"} => Computing' = Computing \cup {c}
        /\ pc'[c] \notin {"compute", "store"} => Computing' = Computing \ {c}
    BY <2>1 DEF Computing
  <2>3. CASE (\E e \in Endpoints : Begin(c, e)) \/ Compute(c) \/ FailCompute(c) \/ Return(c)
    <3>1. UNCHANGED cache /\ Computing' \subseteq Computing
      BY <2>2, <2>3 DEF Begin, Compute, FailCompute, Return, End, Goto, ServiceTypeOK
    <3>2. Count' \in Nat /\ Count' <= Count
      BY <3>1, ComputingFinite, ComputingCount DEF Count
    <3> QED
      BY <1>2, <3>1, <3>2 DEF cache, Distinct
  <2>4. CASE Hit(c)
    <3>1. /\ order' = Append(Without(order, k), k) /\ k \in DOMAIN values
          /\ hits' = hits + 1 /\ UNCHANGED <<values, misses, evictions>>
          /\ Computing' = Computing
      BY <2>2, <2>4 DEF Hit, Goto, ServiceTypeOK
    <3>2. /\ order' \in Seq(CacheKeys) /\ Distinct(order') /\ Len(order') = Len(order)
          /\ ToSet(order') = ToSet(order)
      <4>1. PICK keys, key, next : keys = order /\ key = k /\ next = order'
        OBVIOUS
      <4>2. key \in CacheKeys /\ next = Append(Without(keys, key), key) /\ key \in ToSet(keys)
        BY <1>2, <2>1, <2>4, <3>1, <4>1 DEF Hit
      <4>3. keys \in Seq(CacheKeys) /\ Distinct(keys)
        BY <1>2, <4>1
      <4>4. /\ next \in Seq(CacheKeys) /\ Distinct(next) /\ ToSet(next) = ToSet(keys) \cup {key}
            /\ Len(next) = Len(keys)
        BY <4>2, <4>3, MovedToEnd
      <4> QED
        BY <4>1, <4>2, <4>4
    <3>3. Count' = Count
      BY <3>1 DEF Count
    <3> QED
      BY <1>2, <3>1, <3>2, <3>3
  <2>5. CASE Miss(c)
    <3>1. /\ order' = Without(order, k) /\ DOMAIN values' = DOMAIN values \ {k}
          /\ misses' = misses + 1 /\ UNCHANGED <<hits, evictions>>
          /\ Computing' = Computing \cup {c}
      BY <2>2, <2>5 DEF Miss, Goto, ServiceTypeOK
    <3>2. /\ order' \in Seq(CacheKeys) /\ Distinct(order') /\ Len(order') <= Len(order)
          /\ Len(order') \in Nat /\ ToSet(order') = ToSet(order) \ {k}
      <4>1. PICK keys, key, next : keys = order /\ key = k /\ next = order'
        OBVIOUS
      <4>2. next = Without(keys, key)
        BY <3>1, <4>1
      <4>3. /\ next \in Seq(CacheKeys) /\ Distinct(next) /\ ToSet(next) = ToSet(keys) \ {key}
            /\ Len(next) = IF key \in ToSet(keys) THEN Len(keys) - 1 ELSE Len(keys)
        BY <1>2, <4>1, <4>2, WithoutKey
      <4>4. Len(next) \in Nat
        BY <4>3, InOrder
      <4> QED
        BY <1>2, <4>1, <4>3, <4>4
    <3>3. Count' <= Count + 1 /\ Count' \in Nat
      BY <3>1, ComputingFinite, ComputingCount DEF Count
    <3> QED
      BY <1>2, <3>1, <3>2, <3>3
  <2>6. CASE Store(c)
    <3>1. PICK keys, key, next : keys = order /\ key = k /\ next = order'
      OBVIOUS
    <3>2. PICK entered, n : entered = Append(Without(keys, key), key) /\ n = Excess(entered)
      OBVIOUS
    <3>3. /\ next = SubSeq(entered, n + 1, Len(entered))
          /\ DOMAIN values' = (DOMAIN values \cup {key}) \ {entered[i] : i \in 1 .. n}
          /\ evictions' = evictions + n /\ UNCHANGED <<hits, misses>>
      BY <2>6, <3>1, <3>2 DEF Store
    <3>4. Computing' = Computing \ {c} /\ c \in Computing
      BY <2>2, <2>6 DEF Store, Goto, ServiceTypeOK
    <3>5. key \in CacheKeys
      BY <2>1, <2>6, <3>1 DEF Store
    <3>6. keys \in Seq(CacheKeys) /\ Distinct(keys)
      BY <1>2, <3>1
    <3>7. /\ entered \in Seq(CacheKeys) /\ Distinct(entered)
          /\ ToSet(entered) = ToSet(keys) \cup {key}
          /\ Len(entered) = IF key \in ToSet(keys) THEN Len(keys) ELSE Len(keys) + 1
      BY <3>2, <3>5, <3>6, MovedToEnd
    <3>8. n \in Nat /\ n <= Len(entered) /\ Len(entered) - n <= MaxEntries /\ Len(entered) \in Nat
      BY <1>2, <3>1, <3>2, <3>7, InOrder DEF Excess
    <3>9. /\ next \in Seq(CacheKeys) /\ Distinct(next) /\ Len(next) = Len(entered) - n
          /\ ToSet(next) = ToSet(entered) \ {entered[i] : i \in 1 .. n}
      <4>1. /\ entered \in Seq(CacheKeys) /\ Distinct(entered)
            /\ n \in Nat /\ n <= Len(entered)
        BY <3>7, <3>8
      <4>2. /\ SubSeq(entered, n + 1, Len(entered)) \in Seq(CacheKeys)
            /\ Distinct(SubSeq(entered, n + 1, Len(entered)))
            /\ Len(SubSeq(entered, n + 1, Len(entered))) = Len(entered) - n
            /\ ToSet(SubSeq(entered, n + 1, Len(entered)))
                 = ToSet(entered) \ {entered[i] : i \in 1 .. n}
        BY <4>1, Evicted
      <4> QED
        BY <3>3, <4>2
    <3>10. Count' = Count - 1
      BY <3>4, ComputingCount DEF Count
    <3>11. MaxEntries \in Nat /\ Len(keys) \in Nat /\ Len(keys) + evictions + Count <= misses
      BY <1>2, <3>1
    <3>12. /\ Len(next) + (evictions + n) + (Count - 1) <= misses
           /\ Len(next) <= MaxEntries /\ evictions + n \in Nat
      <4>1. PICK count, missed, gone, l, m : count = Count /\ missed = misses /\ gone = evictions
                                             /\ l = Len(keys) /\ m = Len(entered)
        OBVIOUS
      <4>2. /\ count \in Nat /\ missed \in Nat /\ gone \in Nat /\ l \in Nat /\ m \in Nat
            /\ m <= l + 1 /\ l + gone + count <= missed /\ n \in Nat /\ n <= m
            /\ m - n <= MaxEntries /\ MaxEntries \in Nat
        BY <1>2, <3>7, <3>8, <3>11, <4>1
      <4>3. (m - n) + (gone + n) + (count - 1) <= missed /\ gone + n \in Nat
        BY <4>2
      <4> QED
        BY <3>9, <4>1, <4>2, <4>3
    <3>13. ToSet(next) = DOMAIN values'
      BY <1>2, <3>1, <3>3, <3>7, <3>9
    <3> QED
      BY <1>2, <3>1, <3>3, <3>9, <3>10, <3>12, <3>13
  <2> QED
    BY <1>4, <2>3, <2>4, <2>5, <2>6 DEF Serve
<1> QED
  BY <1>3, <1>4 DEF Next

\* Every key of the cache has one place in its order, and each entry, eviction and query
\* in progress is the work of a miss of its own.
THEOREM CacheInvariant == Spec => []CacheInv
<1>1. Init => CacheInv
  <2> SUFFICES ASSUME Init PROVE CacheInv
    OBVIOUS
  <2>1. order = <<>> /\ DOMAIN values = {} /\ Len(order) = 0 /\ ToSet(order) = {}
    BY DEF Init, ToSet
  <2>2. Computing = {} /\ Cardinality(Computing) = 0
    BY FS_EmptySet DEF Init, Computing
  <2> QED
    BY <2>1, <2>2, CapacityAssumption DEF Init, CacheInv, Distinct, CacheAccounted, Computing
<1> QED
  BY <1>1, CacheStep, ServiceTyped, PTL DEF Spec

\* The server's state, its cache and its counters keep their types.
THEOREM ServingTypesCorrect == Spec => []TypeOK
<1>1. ServiceTypeOK /\ CacheInv => TypeOK
  BY DEF CacheInv, TypeOK
<1> QED
  BY <1>1, CacheInvariant, ServiceTyped, PTL

\* However misses for one key overlap, the cache stays within its capacity, its map and
\* its order agree, and entries, evictions and queries in progress have misses of their own.
THEOREM EntriesAccounted == Spec => []CacheAccounted
<1>1. CacheInv => CacheAccounted
  BY DEF CacheInv
<1> QED
  BY <1>1, CacheInvariant, PTL
===================================================================================
