-------------------------- MODULE TextureCache_proofs --------------------------
(***************************************************************************)
(* For any cards, textures, failing files and caps: the lookup is what is  *)
(* queued or being loaded, locked textures stay in the cache, no item is   *)
(* replaced by another, and the worker finds the request it comes for.     *)
(***************************************************************************)
EXTENDS TextureCache, SequenceTheorems, TLAPS

-----------------------------------------------------------------------------
(* Lemmas about queues without duplicates. *)

LEMMA Appended ==
  ASSUME NEW S, NEW q \in Seq(S), NEW x \in S, IsInjective(q), x \notin ToSet(q)
  PROVE  /\ Append(q, x) \in Seq(S)
         /\ Len(Append(q, x)) = Len(q) + 1
         /\ ToSet(Append(q, x)) = ToSet(q) \cup {x}
         /\ IsInjective(Append(q, x))
<1>. DEFINE r == Append(q, x)
<1>1. PICK n \in Nat : n = Len(q)
  BY LenProperties
<1>2. r \in Seq(S) /\ Len(r) = n + 1 /\ r[n + 1] = x /\ \A i \in 1..n : r[i] = q[i]
  BY <1>1, AppendProperties
<1>3. DOMAIN q = 1..n /\ DOMAIN r = 1..(n + 1)
  BY <1>1, <1>2, LenProperties
<1>4. ToSet(r) = ToSet(q) \cup {x}
  BY <1>2, <1>3 DEF ToSet
<1>5. IsInjective(r)
  <2>. SUFFICES ASSUME NEW i \in 1..(n + 1), NEW j \in 1..(n + 1), r[i] = r[j]
                PROVE  i = j
    BY <1>3 DEF IsInjective
  <2>1. \A k \in 1..n : r[k] # x
    BY <1>2, <1>3 DEF ToSet
  <2>2. CASE i \in 1..n /\ j \in 1..n
    BY <1>2, <1>3, <2>2 DEF IsInjective
  <2>. QED
    BY <1>2, <2>1, <2>2
<1>. QED
  BY <1>1, <1>2, <1>4, <1>5

LEMMA Dropped ==
  ASSUME NEW S, NEW q \in Seq(S), IsInjective(q),
         NEW n \in Nat, n < Len(q)
  PROVE  /\ SubSeq(q, 1 + n, Len(q)) \in Seq(S)
         /\ SubSeq(q, 1 + n, Len(q)) # <<>>
         /\ ToSet(SubSeq(q, 1 + n, Len(q))) = ToSet(q) \ {q[i] : i \in 1..n}
         /\ IsInjective(SubSeq(q, 1 + n, Len(q)))
<1>. DEFINE r == SubSeq(q, 1 + n, Len(q))
<1>1. PICK m \in Nat : m = Len(q)
  BY LenProperties
<1>2. PICK k \in Nat : n + k = m /\ k > 0
  <2>1. m - n \in Nat /\ n + (m - n) = m /\ m - n > 0
    BY <1>1
  <2>. QED
    BY <2>1
<1>3. DOMAIN q = 1..m /\ \A i \in 1..m : q[i] \in S
  BY <1>1, LenProperties, ElementOfSeq
<1>4. /\ r \in Seq(S)
      /\ DOMAIN r = 1..k
      /\ Len(r) = k
      /\ \A i \in 1..k : r[i] = q[n + i]
  <2>1. 1 + n \in Int /\ m \in Int /\ \A i \in (1 + n)..m : q[i] \in S
    BY <1>1, <1>3
  <2>2. /\ r \in Seq(S)
        /\ Len(r) = IF 1 + n <= m THEN m - (1 + n) + 1 ELSE 0
        /\ \A i \in 1..(m - (1 + n) + 1) : r[i] = q[(1 + n) + i - 1]
    BY <1>1, <2>1, SubSeqProperties
  <2>3. 1 + n <= m /\ m - (1 + n) + 1 = k
    BY <1>1, <1>2
  <2>4. Len(r) = k
    BY <2>2, <2>3
  <2>5. \A i \in 1..k : r[i] = q[n + i]
    <3>1. \A i \in 1..k : (1 + n) + i - 1 = n + i
      OBVIOUS
    <3>. QED
      BY <2>2, <2>3, <3>1
  <2>. QED
    BY <2>2, <2>4, <2>5, LenProperties
<1>5. r # <<>>
  <2>1. r # <<>> \/ Len(r) = 0
    BY EmptySeq
  <2>. QED
    BY <1>2, <1>4, <2>1
<1>6. IsInjective(r)
  <2>. SUFFICES ASSUME NEW i \in 1..k, NEW j \in 1..k, r[i] = r[j] PROVE i = j
    BY <1>4 DEF IsInjective
  <2>1. n + i \in 1..m /\ n + j \in 1..m /\ q[n + i] = q[n + j]
    BY <1>2, <1>4
  <2>2. n + i = n + j
    BY <1>3, <2>1 DEF IsInjective
  <2>. QED
    BY <2>2
<1>7. ToSet(r) = ToSet(q) \ {q[i] : i \in 1..n}
  <2>1. ASSUME NEW x \in ToSet(r) PROVE x \in ToSet(q) \ {q[i] : i \in 1..n}
    <3>1. PICK i \in 1..k : x = q[n + i]
      BY <1>4, <2>1 DEF ToSet
    <3>2. n + i \in 1..m
      BY <1>2
    <3>3. \A j \in 1..n : j \in 1..m /\ j # n + i
      BY <1>2
    <3>. QED
      BY <1>3, <3>1, <3>2, <3>3 DEF ToSet, IsInjective
  <2>2. ASSUME NEW x \in ToSet(q) \ {q[i] : i \in 1..n} PROVE x \in ToSet(r)
    <3>1. PICK i \in 1..m : x = q[i]
      BY <1>3, <2>2 DEF ToSet
    <3>2. i \notin 1..n
      BY <2>2, <3>1
    <3>3. i - n \in 1..k /\ n + (i - n) = i
      BY <1>2, <3>2
    <3>. QED
      BY <1>4, <3>1, <3>3 DEF ToSet
  <2>. QED
    BY <2>1, <2>2
<1>. QED
  BY <1>4, <1>5, <1>6, <1>7

LEMMA Popped ==
  ASSUME NEW S, NEW q \in Seq(S), IsInjective(q), q # <<>>
  PROVE  /\ Head(q) \in S
         /\ Tail(q) \in Seq(S)
         /\ ToSet(q) = {Head(q)} \cup ToSet(Tail(q))
         /\ Head(q) \notin ToSet(Tail(q))
         /\ IsInjective(Tail(q))
<1>. DEFINE r == Tail(q)
<1>1. PICK m \in Nat : m + 1 = Len(q)
  <2>1. Len(q) \in Nat \ {0}
    BY EmptySeq
  <2>2. Len(q) - 1 \in Nat /\ (Len(q) - 1) + 1 = Len(q)
    BY <2>1
  <2>. QED
    BY <2>2
<1>2. DOMAIN q = 1..(m + 1) /\ Head(q) = q[1] /\ Head(q) \in S
  BY <1>1, LenProperties, HeadTailProperties
<1>3. r \in Seq(S) /\ DOMAIN r = 1..m /\ \A i \in 1..m : r[i] = q[i + 1]
  <2>1. r \in Seq(S) /\ Len(r) = Len(q) - 1 /\ \A i \in 1..Len(r) : r[i] = q[i + 1]
    BY HeadTailProperties
  <2>2. Len(r) = m
    BY <1>1, <2>1
  <2>. QED
    BY <2>1, <2>2, LenProperties
<1>4. ToSet(q) = {Head(q)} \cup ToSet(r)
  <2>1. \A i \in 1..m : i + 1 \in 1..(m + 1)
    BY <1>1
  <2>2. \A i \in 1..(m + 1) : i = 1 \/ (i - 1 \in 1..m /\ (i - 1) + 1 = i)
    BY <1>1
  <2>3. 1 \in 1..(m + 1)
    BY <1>1
  <2>4. \A i \in 1..(m + 1) : q[i] = q[1] \/ \E j \in 1..m : q[i] = r[j]
    BY <1>3, <2>2
  <2>5. \A j \in 1..m : \E i \in 1..(m + 1) : r[j] = q[i]
    BY <1>3, <2>1
  <2>6. ASSUME NEW x \in ToSet(q) PROVE x \in {Head(q)} \cup ToSet(r)
    <3>1. PICK i \in 1..(m + 1) : x = q[i]
      BY <1>2, <2>6 DEF ToSet
    <3>2. CASE q[i] = q[1]
      BY <1>2, <3>1, <3>2
    <3>3. CASE \E j \in 1..m : q[i] = r[j]
      BY <1>3, <3>1, <3>3 DEF ToSet
    <3>. QED
      BY <2>4, <3>2, <3>3
  <2>7. ASSUME NEW x \in {Head(q)} \cup ToSet(r) PROVE x \in ToSet(q)
    <3>1. CASE x = Head(q)
      BY <1>2, <2>3, <3>1 DEF ToSet
    <3>2. CASE x \in ToSet(r)
      <4>1. PICK j \in 1..m : x = r[j]
        BY <1>3, <3>2 DEF ToSet
      <4>2. PICK i \in 1..(m + 1) : r[j] = q[i]
        BY <2>5
      <4>. QED
        BY <1>2, <4>1, <4>2 DEF ToSet
    <3>. QED
      BY <2>7, <3>1, <3>2
  <2>. QED
    BY <2>6, <2>7
<1>5. Head(q) \notin ToSet(r)
  <2>1. \A i \in 1..m : i + 1 \in 1..(m + 1) /\ i + 1 # 1
    BY <1>1
  <2>2. 1 \in 1..(m + 1)
    BY <1>1
  <2>. QED
    BY <1>2, <1>3, <2>1, <2>2 DEF ToSet, IsInjective
<1>6. IsInjective(r)
  <2>. SUFFICES ASSUME NEW i \in 1..m, NEW j \in 1..m, r[i] = r[j] PROVE i = j
    BY <1>3 DEF IsInjective
  <2>1. i + 1 \in 1..(m + 1) /\ j + 1 \in 1..(m + 1)
    BY <1>1
  <2>2. i + 1 = j + 1
    BY <1>2, <1>3, <2>1 DEF IsInjective
  <2>. QED
    BY <2>2
<1>. QED
  BY <1>2, <1>3, <1>4, <1>5, <1>6

-----------------------------------------------------------------------------
(* The inductive invariant. *)

\* The worker has a request exactly while it works on it.
RequestInHand ==
  request # None <=> worker \in {"popped", "loaded", "inserting", "erasing"}

\* What is asked for is not in the cache: only the worker puts cards there,
\* and only the one it has in hand.
AskedIsAbsent ==
  /\ \A id \in ToSet(mRequestQueue) : cache[id] = "absent"
  /\ worker \in {"popped", "loaded", "inserting"} => cache[request] = "absent"

\* What the main thread has missed and is going to load is still missing.
MissedIsAbsent ==
  /\ ui = "missed" => wanted \in Ids
  /\ ui = "queueing" => wanted \in Cards
  /\ ui = "loading" => wanted \in Others
  /\ ui \in {"missed", "loading"} /\ wanted \in Others => cache[wanted] = "absent"

InFlight == LookupIsInFlight /\ RequestInHand /\ AskedIsAbsent

IInv == TypeOK /\ InFlight /\ MissedIsAbsent /\ RequestToPop

LEMMA Initially == Init => IInv
<1>. SUFFICES ASSUME Init PROVE IInv
  OBVIOUS
<1>1. mRequestQueue = <<>> /\ ToSet(mRequestQueue) = {} /\ IsInjective(mRequestQueue)
  BY DEF Init, ToSet, IsInjective
<1>2. <<>> \in Seq(Cards) /\ 0 \in 0..MaxLocks
  BY LimitsAssumption, EmptySeq
<1>3. /\ cache \in [Ids -> {"absent", "miss", "item"}]
      /\ locks \in [Others -> 0..MaxLocks]
      /\ \A id \in Others : locks[id] = 0
  BY <1>2 DEF Init
<1>4. \A id \in Others : ~(locks[id] > 0)
  BY <1>3
<1>5. mRequestQueue \in Seq(Cards)
  BY <1>1, <1>2
<1>6. TypeOK
  BY <1>3, <1>4, <1>5 DEF Init, TypeOK
<1>. QED
  BY <1>1, <1>6 DEF Init, IInv, InFlight, LookupIsInFlight, Loading, RequestInHand,
                    AskedIsAbsent, MissedIsAbsent, RequestToPop

\* The steps of the main thread that leave the requests alone: they only need
\* to keep the cache and the locks right, and to add no card to the cache.
LEMMA MainThreadStep ==
  ASSUME IInv, UNCHANGED <<requests, workerVars>>,
         mProcessing' \in BOOLEAN,
         mError' \in {"none", "404", "bad"},
         cache' \in [Ids -> {"absent", "miss", "item"}],
         locks' \in [Others -> 0..MaxLocks],
         \A id \in Others : locks'[id] > 0 => cache'[id] = "item",
         \A id \in Cards : cache[id] = "absent" => cache'[id] = "absent",
         ui' \in {"idle", "missed", "queueing", "loading", "clearing", "joining"},
         wanted' \in Ids \cup {None},
         MissedIsAbsent'
  PROVE  IInv'
<1>1. TypeOK'
  BY DEF IInv, TypeOK, requests, workerVars
<1>2. ToSet(mRequestQueue) \subseteq Cards
  BY DEF IInv, InFlight, LookupIsInFlight, TypeOK
<1>3. request # None => request \in Cards
  BY DEF IInv, TypeOK
<1>4. InFlight' /\ RequestToPop'
  BY <1>2, <1>3 DEF IInv, InFlight, LookupIsInFlight, Loading, RequestInHand,
                    AskedIsAbsent, RequestToPop, requests, workerVars
<1>. QED
  BY <1>1, <1>4 DEF IInv

\* The steps of the worker that change neither the cache nor the requests.
LEMMA WorkerStep ==
  ASSUME IInv, UNCHANGED <<store, requests, mProcessing, uiVars, request>>,
         mError' \in {"none", "404", "bad"}, loaded' \in BOOLEAN,
         worker' \in {"idle", "scanning", "popping", "popped", "loaded", "inserting",
                      "erasing", "ended"},
         RequestInHand', RequestToPop',
         worker' \in {"popped", "loaded", "inserting"} =>
           worker \in {"popped", "loaded", "inserting"}
  PROVE  IInv'
<1>1. TypeOK'
  BY DEF IInv, TypeOK, store, requests, uiVars
<1>2. InFlight' /\ MissedIsAbsent'
  BY DEF IInv, InFlight, LookupIsInFlight, Loading, AskedIsAbsent, MissedIsAbsent,
         store, requests, uiVars
<1>. QED
  BY <1>1, <1>2 DEF IInv

-----------------------------------------------------------------------------
(* The steps of the main thread. *)

LEMMA RetrieveKeeps ==
  ASSUME IInv, NEW id \in Ids, Retrieve(id)
  PROVE  IInv'
<1>. USE DEF IInv, TypeOK, MissedIsAbsent, store, uiVars, requests, workerVars
<1>1. CASE RetrieveHit(id)
  <2>1. locks' \in [Others -> 0..MaxLocks]
    BY <1>1, LimitsAssumption DEF RetrieveHit
  <2>2. \A other \in Others : locks'[other] > 0 => cache'[other] = "item"
    BY <1>1 DEF RetrieveHit
  <2>3. mError' \in {"none", "404", "bad"}
    BY <1>1 DEF RetrieveHit
  <2>. QED
    BY <1>1, <2>1, <2>2, <2>3, MainThreadStep DEF RetrieveHit
<1>2. CASE RetrieveMissing(id)
  BY <1>2, MainThreadStep DEF RetrieveMissing
<1>. QED
  BY <1>1, <1>2 DEF Retrieve

\* Removing textures that nobody locks.
LEMMA WithoutUnlocked ==
  ASSUME IInv, NEW S \in SUBSET Unlocked
  PROVE  /\ Without(S) \in [Ids -> {"absent", "miss", "item"}]
         /\ \A id \in Ids : cache[id] = "absent" => Without(S)[id] = "absent"
         /\ \A id \in Others : locks[id] > 0 => Without(S)[id] = "item"
<1>1. \A id \in Others : id \in Ids /\ (id \in S => locks[id] = 0)
  BY DEF Unlocked, Ids
<1>2. \A id \in Others : locks[id] > 0 => id \notin S
  BY <1>1 DEF IInv, TypeOK
<1>. QED
  BY <1>1, <1>2 DEF IInv, TypeOK, Without

LEMMA CleanupKeeps ==
  ASSUME IInv, Cleanup
  PROVE  IInv'
<1>1. PICK S \in SUBSET Unlocked : cache' = Without(S)
  BY DEF Cleanup
<1>2. /\ cache' \in [Ids -> {"absent", "miss", "item"}]
      /\ \A id \in Ids : cache[id] = "absent" => cache'[id] = "absent"
      /\ \A id \in Others : locks[id] > 0 => cache'[id] = "item"
  BY <1>1, WithoutUnlocked
<1>3. \A id \in Cards \cup Others : id \in Ids
  BY DEF Ids
<1>4. MissedIsAbsent'
  BY <1>2, <1>3 DEF Cleanup, IInv, MissedIsAbsent, Ids
<1>. QED
  BY <1>2, <1>3, <1>4, MainThreadStep
     DEF Cleanup, IInv, TypeOK, store, requests, workerVars

LEMMA LoadNowKeeps ==
  ASSUME IInv, LoadNow
  PROVE  IInv'
<1>. USE DEF IInv, TypeOK, store, requests, workerVars
<1>1. wanted \in Others /\ wanted \in Ids /\ wanted \notin Cards
  BY IdsAssumption DEF LoadNow, MissedIsAbsent, Ids
<1>2. locks[wanted] = 0
  BY <1>1 DEF LoadNow, MissedIsAbsent
<1>3. mError' \in {"none", "404", "bad"}
  BY DEF LoadNow, Outcomes
<1>4. /\ cache' \in [Ids -> {"absent", "miss", "item"}]
      /\ locks' \in [Others -> 0..MaxLocks]
      /\ \A id \in Others : locks'[id] > 0 => cache'[id] = "item"
      /\ \A id \in Cards : cache[id] = "absent" => cache'[id] = "absent"
  <2>1. CASE mError' = "none"
    <3>1. /\ cache' = [cache EXCEPT ![wanted] = "item"]
          /\ locks' = [locks EXCEPT ![wanted] = 1]
      BY <2>1 DEF LoadNow
    <3>2. 1 \in 0..MaxLocks
      BY LimitsAssumption
    <3>. QED
      BY <1>1, <3>1, <3>2 DEF Ids
  <2>2. CASE mError' = "404"
    BY <1>1, <1>2, <2>2 DEF LoadNow, Ids
  <2>3. CASE mError' = "bad"
    BY <2>3 DEF LoadNow
  <2>. QED
    BY <1>3, <2>1, <2>2, <2>3
<1>5. MissedIsAbsent'
  BY DEF LoadNow, MissedIsAbsent
<1>. QED
  BY <1>3, <1>4, <1>5, MainThreadStep DEF LoadNow

LEMMA DiscardKeeps ==
  ASSUME IInv, Discard
  PROVE  IInv'
<1>. USE DEF IInv, TypeOK, store, requests, workerVars, Discard
<1>0. \A id \in Cards \cup Others : id \in Ids
  BY DEF Ids
<1>1. CASE ClearUnlocked
  <2>1. CASE ui = "idle"
    BY <1>1, <2>1, MainThreadStep DEF ClearUnlocked, MissedIsAbsent
  <2>2. CASE ui = "clearing"
    <3>1. PICK S \in SUBSET Unlocked : cache' = Without(S)
      BY <1>1, <2>2 DEF ClearUnlocked
    <3>2. /\ cache' \in [Ids -> {"absent", "miss", "item"}]
          /\ \A id \in Ids : cache[id] = "absent" => cache'[id] = "absent"
          /\ \A id \in Others : locks[id] > 0 => cache'[id] = "item"
      BY <3>1, WithoutUnlocked
    <3>3. ui' = "idle" /\ locks' = locks
      BY <1>1, <2>2 DEF ClearUnlocked
    <3>4. MissedIsAbsent'
      BY <3>3 DEF MissedIsAbsent
    <3>. QED
      BY <1>0, <3>2, <3>3, <3>4, MainThreadStep
  <2>. QED
    BY <1>1, <2>1, <2>2 DEF ClearUnlocked
<1>2. ASSUME NEW id \in Others, Release(id), UNCHANGED ui PROVE IInv'
  <2>1. /\ locks' = [locks EXCEPT ![id] = locks[id] - 1] /\ locks[id] > 0
        /\ cache' = IF locks[id] = 1 THEN Without({id}) ELSE cache
        /\ ui = "idle"
    BY <1>2 DEF Release, Released
  <2>2. locks' \in [Others -> 0..MaxLocks]
    BY <2>1, LimitsAssumption
  <2>3. /\ cache' \in [Ids -> {"absent", "miss", "item"}]
        /\ \A i \in Ids : cache[i] = "absent" => cache'[i] = "absent"
    BY <2>1 DEF Without
  <2>4. \A i \in Others : locks'[i] > 0 => cache'[i] = "item"
    <3>. SUFFICES ASSUME NEW i \in Others, locks'[i] > 0 PROVE cache'[i] = "item"
      OBVIOUS
    <3>1. CASE i = id
      <4>1. locks[id] # 1
        BY <2>1, <3>1
      <4>. QED
        BY <2>1, <3>1, <4>1
    <3>2. CASE i # id
      BY <1>0, <2>1, <3>2 DEF Without
    <3>. QED
      BY <3>1, <3>2
  <2>5. MissedIsAbsent'
    BY <1>2, <2>1 DEF MissedIsAbsent
  <2>. QED
    BY <1>0, <1>2, <2>2, <2>3, <2>4, <2>5, MainThreadStep
<1>. QED
  BY <1>1, <1>2

LEMMA TearDownKeeps ==
  ASSUME IInv, TearDown
  PROVE  IInv'
<1>1. MissedIsAbsent'
  BY DEF TearDown, MissedIsAbsent
<1>. QED
  BY <1>1, MainThreadStep DEF TearDown, IInv, TypeOK, store, requests, workerVars

LEMMA QueueRequestKeeps ==
  ASSUME IInv, QueueRequest
  PROVE  IInv'
<1>. DEFINE queue == Append(mRequestQueue, wanted)
            lookup == mRequestLookup \cup {wanted}
<1>1. CASE wanted \in mRequestLookup \/ cache[wanted] # "absent"
  <2>1. UNCHANGED requests /\ MissedIsAbsent'
    BY <1>1 DEF QueueRequest, MissedIsAbsent
  <2>. QED
    BY <2>1, MainThreadStep DEF QueueRequest, IInv, TypeOK, store, workerVars
<1>2. CASE wanted \notin mRequestLookup /\ cache[wanted] = "absent"
  <2>1. wanted \in Cards /\ mRequestQueue \in Seq(Cards)
    BY DEF QueueRequest, IInv, TypeOK, MissedIsAbsent
  <2>2. wanted \notin ToSet(mRequestQueue) /\ IsInjective(mRequestQueue)
    BY <1>2 DEF IInv, InFlight, LookupIsInFlight
  <2>3. /\ queue \in Seq(Cards) /\ Len(queue) = Len(mRequestQueue) + 1
        /\ ToSet(queue) = ToSet(mRequestQueue) \cup {wanted}
        /\ IsInjective(queue)
    BY <2>1, <2>2, Appended
  <2>4. lookup = ToSet(queue) \cup Loading /\ ToSet(queue) \cap Loading = {}
    BY <1>2, <2>3 DEF IInv, InFlight, LookupIsInFlight
  <2>5. \A id \in ToSet(queue) : cache[id] = "absent"
    BY <1>2, <2>3 DEF IInv, InFlight, AskedIsAbsent
  \* With or without the cap, what is left is a queue of such requests.
  <2>6. /\ mRequestQueue' \in Seq(Cards) /\ mRequestQueue' # <<>>
        /\ IsInjective(mRequestQueue')
        /\ ToSet(mRequestQueue') \subseteq ToSet(queue)
        /\ mRequestLookup' = ToSet(mRequestQueue') \cup Loading
    <3>1. CASE Len(queue) > MaxRequests
      <4>1. PICK n \in Nat : n = Len(queue) - MaxRequests
        <5>1. Len(queue) \in Nat
          BY <2>3, LenProperties
        <5>2. Len(queue) - MaxRequests \in Nat
          BY <3>1, <5>1, LimitsAssumption
        <5>. QED
          BY <5>2
      <4>2. n < Len(queue)
        <5>1. Len(queue) \in Nat
          BY <2>3, LenProperties
        <5>. QED
          BY <4>1, <5>1, LimitsAssumption
      <4>3. /\ mRequestQueue' = SubSeq(queue, 1 + n, Len(queue))
            /\ mRequestLookup' = lookup \ {queue[i] : i \in 1..n}
        BY <1>2, <3>1, <4>1 DEF QueueRequest, Capped
      <4>4. /\ SubSeq(queue, 1 + n, Len(queue)) \in Seq(Cards)
            /\ SubSeq(queue, 1 + n, Len(queue)) # <<>>
            /\ ToSet(SubSeq(queue, 1 + n, Len(queue))) = ToSet(queue) \ {queue[i] : i \in 1..n}
            /\ IsInjective(SubSeq(queue, 1 + n, Len(queue)))
        BY <2>3, <4>2, Dropped
      <4>5. \A i \in 1..n : queue[i] \in ToSet(queue)
        <5>1. Len(queue) \in Nat /\ DOMAIN queue = 1..Len(queue)
          BY <2>3, LenProperties
        <5>2. \A i \in 1..n : i \in 1..Len(queue)
          BY <4>2, <5>1
        <5>. QED
          BY <5>1, <5>2 DEF ToSet
      <4>. QED
        BY <2>4, <4>3, <4>4, <4>5
    <3>2. CASE ~(Len(queue) > MaxRequests)
      <4>1. mRequestQueue' = queue /\ mRequestLookup' = lookup
        BY <1>2, <3>2 DEF QueueRequest
      <4>2. queue # <<>>
        BY <2>1, AppendProperties
      <4>. QED
        BY <2>3, <2>4, <4>1, <4>2
    <3>. QED
      BY <3>1, <3>2
  <2>7. InFlight' /\ RequestToPop'
    <3>1. LookupIsInFlight'
      BY <2>4, <2>6 DEF QueueRequest, workerVars, LookupIsInFlight, Loading
    <3>2. RequestInHand' /\ AskedIsAbsent'
      BY <2>5, <2>6 DEF QueueRequest, workerVars, store, IInv, InFlight, RequestInHand, AskedIsAbsent
    <3>3. RequestToPop'
      BY <2>6 DEF RequestToPop
    <3>. QED
      BY <3>1, <3>2, <3>3 DEF InFlight
  <2>8. TypeOK'
    <3>1. mRequestLookup' \subseteq Cards
      BY <2>1, <2>3, <2>6 DEF IInv, InFlight, LookupIsInFlight, TypeOK, Loading
    <3>. QED
      BY <2>6, <3>1 DEF QueueRequest, IInv, TypeOK, store, workerVars
  <2>9. MissedIsAbsent'
    BY DEF QueueRequest, MissedIsAbsent
  <2>. QED
    BY <2>7, <2>8, <2>9 DEF IInv
<1>. QED
  BY <1>1, <1>2

-----------------------------------------------------------------------------
(* The steps of the worker. *)

LEMMA PopKeeps ==
  ASSUME IInv, Pop
  PROVE  IInv'
<1>1. mRequestQueue \in Seq(Cards) /\ mRequestQueue # <<>> /\ IsInjective(mRequestQueue)
  BY DEF Pop, Go, IInv, TypeOK, RequestToPop, InFlight, LookupIsInFlight
<1>2. /\ request' \in Cards /\ mRequestQueue' \in Seq(Cards)
      /\ ToSet(mRequestQueue) = {request'} \cup ToSet(mRequestQueue')
      /\ request' \notin ToSet(mRequestQueue')
      /\ IsInjective(mRequestQueue')
  BY <1>1, Popped DEF Pop
<1>3. request = None /\ Loading = {} /\ request' # None
  BY <1>2, IdsAssumption DEF Pop, Go, IInv, InFlight, RequestInHand, Loading
<1>4. LookupIsInFlight'
  BY <1>2, <1>3 DEF Pop, IInv, InFlight, LookupIsInFlight, Loading
<1>5. RequestInHand' /\ AskedIsAbsent' /\ RequestToPop' /\ MissedIsAbsent'
  BY <1>2, <1>3 DEF Pop, Go, store, uiVars, IInv, InFlight, RequestInHand, AskedIsAbsent,
                    RequestToPop, MissedIsAbsent
<1>6. TypeOK'
  BY <1>2 DEF Pop, Go, IInv, TypeOK, store, uiVars
<1>. QED
  BY <1>4, <1>5, <1>6 DEF IInv, InFlight

LEMMA InsertKeeps ==
  ASSUME IInv, Insert
  PROVE  IInv'
<1>1. request \in Cards /\ request \in Ids /\ request \notin Others
  BY IdsAssumption DEF Insert, Go, IInv, TypeOK, InFlight, RequestInHand, Ids
<1>2. /\ cache' \in [Ids -> {"absent", "miss", "item"}]
      /\ \A id \in Ids : id # request => cache'[id] = cache[id]
  BY <1>1 DEF Insert, IInv, TypeOK
<1>3. request \notin ToSet(mRequestQueue) /\ ToSet(mRequestQueue) \subseteq Ids
  BY <1>1, IdsAssumption DEF IInv, TypeOK, InFlight, LookupIsInFlight, Loading, Ids
<1>4. \A id \in Others : id \in Ids /\ id # request
  BY <1>1 DEF Ids
<1>5. LookupIsInFlight' /\ RequestInHand' /\ RequestToPop'
  BY DEF Insert, Go, requests, IInv, InFlight, LookupIsInFlight, Loading, RequestInHand,
         RequestToPop
<1>6. AskedIsAbsent'
  BY <1>2, <1>3 DEF Insert, Go, requests, IInv, InFlight, AskedIsAbsent
<1>7. MissedIsAbsent'
  BY <1>2, <1>4 DEF Insert, uiVars, IInv, MissedIsAbsent
<1>8. TypeOK'
  BY <1>2, <1>4 DEF Insert, Go, requests, uiVars, IInv, TypeOK
<1>. QED
  BY <1>5, <1>6, <1>7, <1>8 DEF IInv, InFlight

LEMMA EraseKeeps ==
  ASSUME IInv, Erase
  PROVE  IInv'
<1>1. LookupIsInFlight'
  <2>1. request # None /\ Loading = {request} /\ Loading' = {}
    BY DEF Erase, Go, IInv, InFlight, RequestInHand, Loading
  <2>2. ToSet(mRequestQueue') = ToSet(mRequestQueue)
    BY DEF Erase
  <2>3. mRequestLookup' = ToSet(mRequestQueue')
    BY <2>1, <2>2 DEF Erase, IInv, InFlight, LookupIsInFlight
  <2>. QED
    BY <2>1, <2>3 DEF Erase, IInv, InFlight, LookupIsInFlight
<1>2. RequestInHand' /\ AskedIsAbsent' /\ RequestToPop' /\ MissedIsAbsent'
  BY DEF Erase, Go, store, uiVars, IInv, InFlight, RequestInHand, AskedIsAbsent,
         RequestToPop, MissedIsAbsent
<1>3. TypeOK'
  BY DEF Erase, Go, IInv, TypeOK, store, uiVars
<1>. QED
  BY <1>1, <1>2, <1>3 DEF IInv, InFlight

LEMMA ThreadProcKeeps ==
  ASSUME IInv, ThreadProc
  PROVE  IInv'
<1>. USE DEF Go, IInv, InFlight, RequestInHand, RequestToPop, TypeOK, store, requests, uiVars
<1>1. CASE OuterLoop
  BY <1>1, WorkerStep DEF OuterLoop
<1>2. CASE InnerLoop
  BY <1>2, WorkerStep DEF InnerLoop
<1>3. CASE Pop
  BY <1>3, PopKeeps
<1>4. CASE AttemptNew
  <2>1. mError' \in {"none", "404", "bad"} /\ loaded' \in BOOLEAN
    BY <1>4 DEF AttemptNew, Outcomes
  <2>. QED
    BY <1>4, <2>1, WorkerStep DEF AttemptNew
<1>5. CASE Decide
  BY <1>5, WorkerStep DEF Decide
<1>6. CASE Insert
  BY <1>6, InsertKeeps
<1>7. CASE Erase
  BY <1>7, EraseKeeps
<1>. QED
  BY <1>1, <1>2, <1>3, <1>4, <1>5, <1>6, <1>7 DEF ThreadProc

-----------------------------------------------------------------------------
(* What holds of every behaviour, fair or not. *)

LEMMA Unchanged ==
  ASSUME IInv, UNCHANGED vars
  PROVE  IInv'
BY DEF vars, store, requests, uiVars, workerVars, IInv, TypeOK, InFlight, LookupIsInFlight,
       Loading, RequestInHand, AskedIsAbsent, MissedIsAbsent, RequestToPop

\* The invariant holds initially and every step of either thread keeps it.
THEOREM Inductive == Spec => []IInv
<1>1. IInv /\ [Next]_vars => IInv'
  <2>. SUFFICES ASSUME IInv, [Next]_vars PROVE IInv'
    OBVIOUS
  <2>1. CASE \E id \in Ids : Retrieve(id)
    BY <2>1, RetrieveKeeps
  <2>2. CASE Proceed
    BY <2>2, CleanupKeeps, QueueRequestKeeps, LoadNowKeeps DEF Proceed
  <2>3. CASE Discard
    BY <2>3, DiscardKeeps
  <2>4. CASE TearDown
    BY <2>4, TearDownKeeps
  <2>5. CASE ThreadProc
    BY <2>5, ThreadProcKeeps
  <2>6. CASE Joined \/ UNCHANGED vars
    BY <2>6, Unchanged DEF Joined
  <2>. QED
    BY <2>1, <2>2, <2>3, <2>4, <2>5, <2>6 DEF Next
<1>. QED
  BY <1>1, Initially, PTL DEF Spec

\* A locked texture is in the cache, and the variables keep their types.
THEOREM LockedStaysCached == Spec => []TypeOK
<1>1. IInv => TypeOK
  BY DEF IInv
<1>. QED
  BY <1>1, Inductive, PTL

\* The lookup is the requests that wait, each once, and the one being loaded.
THEOREM NoImageForgotten == Spec => []LookupIsInFlight
<1>1. IInv => LookupIsInFlight
  BY DEF IInv, InFlight
<1>. QED
  BY <1>1, Inductive, PTL

\* The worker never puts an item where the cache already has one.
THEOREM NoItemLeaks == Spec => []NothingReplaced
<1>1. IInv => NothingReplaced
  BY DEF IInv, InFlight, AskedIsAbsent, NothingReplaced
<1>. QED
  BY <1>1, Inductive, PTL

\* The worker never takes a request from an empty queue, whatever the cap.
THEOREM PopFindsRequest == Spec => []RequestToPop
<1>1. IInv => RequestToPop
  BY DEF IInv
<1>. QED
  BY <1>1, Inductive, PTL
=============================================================================
