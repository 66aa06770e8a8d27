----------------------------- MODULE TextureCache -----------------------------
(***************************************************************************)
(* The two threads around the cache of textures: the main thread, which    *)
(* retrieves, cleans up, clears and releases (WCache in                    *)
(* WResourceManager.cpp), and the worker of ThreadedCardRetriever          *)
(* (CacheEngine.h), which loads the images of cards that were not there.   *)
(*                                                                         *)
(* Three mutexes: mMutex guards the queue of requests and the lookup,      *)
(* sLoadFunctionMutex the loading of a file, sCacheMutex some of the uses  *)
(* of the cache.  What runs under a mutex is one action, unless the other  *)
(* thread can see it in the middle; the steps between are pc's of the two. *)
(*                                                                         *)
(* cacheItems and cacheSize are written by both threads with no mutex, so  *)
(* that they may have any value: whether, and how far, Cleanup evicts is   *)
(* left open, and so is which of the items is the oldest.  Managed         *)
(* resources, which are not in the cache, are left out.                    *)
(***************************************************************************)
EXTENDS Integers, Sequences, SequencesExt

CONSTANTS
  Cards,        \* the ids of cards' images, which the worker loads
  Others,       \* the ids of other textures, which are loaded at once and locked
  Failing,      \* those whose file is missing or cannot be read
  MaxRequests,  \* the number of queued requests QueueRequest allows: 7
  MaxLocks,     \* bound: how often a texture is locked at the same time
  None          \* no id

ASSUME IdsAssumption ==
  /\ Cards \cap Others = {} /\ None \notin Cards \cup Others
  /\ Failing \subseteq Cards \cup Others
ASSUME LimitsAssumption == MaxRequests \in Nat \ {0} /\ MaxLocks \in Nat \ {0}

Ids == Cards \cup Others

VARIABLES
  cache,           \* what the map has for an id: an item, nullptr, or no entry
  locks,           \* WResource::locks of the other textures
  mError,          \* WCache::mError, shared by the threads
  mRequestQueue, mRequestLookup,
  mProcessing,
  ui, wanted,      \* the main thread: where it is, for which id
  worker, request, \* the worker: where it is, with which request
  loaded           \* whether AttemptNew has returned an item to the worker

store == <<cache, locks>>
requests == <<mRequestQueue, mRequestLookup>>
uiVars == <<ui, wanted>>
workerVars == <<worker, request, loaded>>
vars == <<store, mError, requests, mProcessing, uiVars, workerVars>>

\* The worker is inside LoadIntoCache.
HoldsLoadFunctionMutex == worker \in {"loaded", "inserting"}

HoldsCacheMutex == worker = "inserting"

\* How an attempt to load may end: what Attempt says of the file.
Outcomes(id) == IF id \in Failing THEN {"404", "bad"} ELSE {"none"}

-----------------------------------------------------------------------------
(* The main thread. *)

\* Retrieve, as far as Get finds the id: cards are shown, others locked.
RetrieveHit(id) ==
  /\ ui = "idle" /\ ~HoldsCacheMutex
  /\ cache[id] # "absent"
  /\ mError' = IF cache[id] = "miss" THEN "404" ELSE "none"
  /\ IF id \in Others /\ cache[id] = "item"
     THEN locks[id] < MaxLocks /\ locks' = [locks EXCEPT ![id] = @ + 1]
     ELSE UNCHANGED locks
  /\ UNCHANGED <<cache, requests, mProcessing, uiVars, workerVars>>

RetrieveMissing(id) ==
  /\ ui = "idle" /\ ~HoldsCacheMutex
  /\ cache[id] = "absent"
  /\ mError' = "none"
  /\ ui' = "missed" /\ wanted' = id
  /\ UNCHANGED <<store, requests, mProcessing, workerVars>>

Unlocked == {id \in Ids : id \in Others => locks[id] = 0}

Without(S) == [id \in Ids |-> IF id \in S THEN "absent" ELSE cache[id]]

\* RemoveOldest, as often as the counters ask for it: nullptr entries stay.
Cleanup ==
  /\ ui = "missed" /\ ~HoldsCacheMutex
  /\ \E S \in SUBSET {id \in Unlocked : cache[id] = "item"} : cache' = Without(S)
  /\ ui' = IF wanted \in Cards THEN "queueing" ELSE "loading"
  /\ UNCHANGED <<locks, mError, requests, mProcessing, wanted, workerVars>>

\* Mutant: the ids of the requests dropped at the cap stay in the lookup.
CappedInQueueOnly(queue, lookup) ==
  /\ mRequestQueue' = SubSeq(queue, 1 + Len(queue) - MaxRequests, Len(queue))
  /\ mRequestLookup' = lookup

\* Mutant: at the cap everything is dropped.
CappedToNothing(queue, lookup) ==
  /\ mRequestQueue' = <<>>
  /\ mRequestLookup' = lookup \ ToSet(queue)

\* The oldest requests beyond the cap are dropped.
Capped(queue, lookup) ==
  LET dropped == Len(queue) - MaxRequests
  IN /\ mRequestQueue' = SubSeq(queue, 1 + dropped, Len(queue))
     /\ mRequestLookup' = lookup \ {queue[i] : i \in 1..dropped}

QueueRequest ==
  /\ ui = "queueing"
  /\ IF wanted \in mRequestLookup \/ cache[wanted] # "absent" THEN UNCHANGED requests
     ELSE LET queue == Append(mRequestQueue, wanted)
              lookup == mRequestLookup \cup {wanted}
          IN IF Len(queue) > MaxRequests THEN Capped(queue, lookup)
             ELSE mRequestQueue' = queue /\ mRequestLookup' = lookup
  /\ ui' = "idle" /\ wanted' = None
  /\ UNCHANGED <<store, mError, mProcessing, workerVars>>

\* LoadIntoCache for the main thread, and the lock Retrieve then takes.
LoadNow ==
  /\ ui = "loading" /\ ~HoldsLoadFunctionMutex
  /\ mError' \in Outcomes(wanted)
  /\ \/ /\ mError' = "none"
        /\ cache' = [cache EXCEPT ![wanted] = "item"]
        /\ locks' = [locks EXCEPT ![wanted] = 1]
     \/ mError' = "404" /\ cache' = [cache EXCEPT ![wanted] = "miss"] /\ UNCHANGED locks
     \/ mError' = "bad" /\ UNCHANGED store
  /\ ui' = "idle" /\ wanted' = None
  /\ UNCHANGED <<requests, mProcessing, workerVars>>

\* ClearUnlocked walks the map with no mutex: of the cards, those that the
\* worker adds meanwhile may be passed by.
ClearUnlocked ==
  \/ /\ ui = "idle"
     /\ ui' = "clearing"
     /\ UNCHANGED store
  \/ /\ ui = "clearing"
     /\ \E added \in SUBSET Cards : cache' = Without(Unlocked \ added)
     /\ ui' = "idle"
     /\ UNCHANGED locks

\* Mutant: one lock less or not, the texture goes.
ReleasedAtOnce(id) == TRUE

Released(id) == locks[id] = 1

\* Release, by who has locked the texture.
Release(id) ==
  /\ ui = "idle"
  /\ locks[id] > 0
  /\ locks' = [locks EXCEPT ![id] = @ - 1]
  /\ cache' = IF Released(id) THEN Without({id}) ELSE cache

\* Terminate: ~ThreadedCardRetriever waits for the worker.
TearDown ==
  /\ ui = "idle"
  /\ mProcessing' = FALSE
  /\ ui' = "joining"
  /\ UNCHANGED <<store, mError, requests, wanted, workerVars>>

-----------------------------------------------------------------------------
(* ThreadProc. *)

Go(from, to) == worker = from /\ worker' = to

OuterLoop ==
  /\ Go("idle", IF mProcessing THEN "scanning" ELSE "ended")
  /\ UNCHANGED <<store, mError, requests, mProcessing, uiVars, request, loaded>>

\* empty() is called without the mutex that front() and pop() are called with.
InnerLoop ==
  /\ Go("scanning", IF mRequestQueue = <<>> THEN "idle" ELSE "popping")
  /\ UNCHANGED <<store, mError, requests, mProcessing, uiVars, request, loaded>>

\* Mutant: the id leaves the lookup with its request.
PopBoth ==
  /\ Go("popping", "popped")
  /\ request' = Head(mRequestQueue)
  /\ mRequestQueue' = Tail(mRequestQueue)
  /\ mRequestLookup' = mRequestLookup \ {request'}
  /\ UNCHANGED <<store, mError, mProcessing, uiVars, loaded>>

Pop ==
  /\ Go("popping", "popped")
  /\ request' = Head(mRequestQueue)
  /\ mRequestQueue' = Tail(mRequestQueue)
  /\ UNCHANGED <<store, mError, mRequestLookup, mProcessing, uiVars, loaded>>

AttemptNew ==
  /\ Go("popped", "loaded")
  /\ mError' \in Outcomes(request)
  /\ loaded' = (mError' = "none")
  /\ UNCHANGED <<store, requests, mProcessing, uiVars, request>>

\* mError may be the main thread's by now: a failure is recorded, or is not.
Recorded == loaded \/ mError = "404"

Decide ==
  /\ Go("loaded", IF Recorded THEN "inserting" ELSE "erasing")
  /\ UNCHANGED <<store, mError, requests, mProcessing, uiVars, request, loaded>>

Insert ==
  /\ Go("inserting", "erasing")
  /\ cache' = [cache EXCEPT ![request] = IF loaded THEN "item" ELSE "miss"]
  /\ mError' = IF loaded THEN "none" ELSE mError
  /\ UNCHANGED <<locks, requests, mProcessing, uiVars, request, loaded>>

Erase ==
  /\ Go("erasing", "scanning")
  /\ request' = None
  /\ mRequestLookup' = mRequestLookup \ {request}
  /\ UNCHANGED <<store, mError, mRequestQueue, mProcessing, uiVars, loaded>>

-----------------------------------------------------------------------------
Init ==
  /\ cache = [id \in Ids |-> "absent"] /\ locks = [id \in Others |-> 0]
  /\ mError = "none"
  /\ mRequestQueue = <<>> /\ mRequestLookup = {}
  /\ mProcessing = TRUE
  /\ ui = "idle" /\ wanted = None
  /\ worker = "idle" /\ request = None /\ loaded = FALSE

Retrieve(id) == RetrieveHit(id) \/ RetrieveMissing(id)

\* What the main thread goes on with.
Proceed == Cleanup \/ QueueRequest \/ LoadNow

Discard ==
  /\ ClearUnlocked \/ ((\E id \in Others : Release(id)) /\ UNCHANGED ui)
  /\ UNCHANGED <<mError, requests, mProcessing, wanted, workerVars>>

ThreadProc == OuterLoop \/ InnerLoop \/ Pop \/ AttemptNew \/ Decide \/ Insert \/ Erase

\* The program ends when the main thread has joined the worker.
Joined == ui = "joining" /\ worker = "ended" /\ UNCHANGED vars

Next == \/ \E id \in Ids : Retrieve(id)
        \/ Proceed \/ Discard \/ TearDown
        \/ ThreadProc
        \/ Joined

Spec == Init /\ [][Next]_vars

\* Both threads run, and a card on the screen is retrieved in every frame.
Fairness ==
  /\ WF_vars(ThreadProc) /\ WF_vars(Proceed) /\ WF_vars(ui = "clearing" /\ Discard)
  /\ \A id \in Cards : SF_vars(Retrieve(id))

FairSpec == Spec /\ Fairness

-----------------------------------------------------------------------------
\* A texture that is locked is in the cache, among any other locks, releases
\* and clean-ups; everything else is of its type.
TypeOK ==
  /\ cache \in [Ids -> {"absent", "miss", "item"}]
  /\ locks \in [Others -> 0..MaxLocks]
  /\ \A id \in Others : locks[id] > 0 => cache[id] = "item"
  /\ mError \in {"none", "404", "bad"}
  /\ mRequestQueue \in Seq(Cards) /\ mRequestLookup \subseteq Cards
  /\ mProcessing \in BOOLEAN
  /\ ui \in {"idle", "missed", "queueing", "loading", "clearing", "joining"}
  /\ wanted \in Ids \cup {None}
  /\ worker \in {"idle", "scanning", "popping", "popped", "loaded", "inserting", "erasing", "ended"}
  /\ request \in Cards \cup {None}
  /\ loaded \in BOOLEAN

\* The request that the worker has taken and not finished.
Loading == {request} \ {None}

(***************************************************************************)
(* "mRequestLookup is used to prevent duplicate requests for the same id": *)
(* the lookup has the ids that wait in the queue, each of them once, and   *)
(* the one being loaded, so that a card's image is never forgotten.        *)
(***************************************************************************)
LookupIsInFlight ==
  /\ mRequestLookup = ToSet(mRequestQueue) \cup Loading
  /\ ToSet(mRequestQueue) \cap Loading = {}
  /\ IsInjective(mRequestQueue)

\* An item the worker puts in the cache never replaces another, which would
\* leak: the queue is asked and filled under one mutex, the cache filled under
\* another, and the lookup emptied last.
NothingReplaced == worker = "inserting" => cache[request] = "absent"

\* When the worker, having found the queue not empty, comes to take a request,
\* there is one: the requests the main thread dropped meanwhile left some.
RequestToPop == worker = "popping" => mRequestQueue # <<>>

NothingEvicted == [][\A id \in Cards : cache[id] = "item" => cache'[id] = "item"]_vars

NothingFails == [][worker = "popped" => request \notin Failing]_vars

\* Cards that are drawn in every frame are shown in the end, although the cap
\* drops requests, unless images are evicted, or fail to load, again and again.
DrawnCardsArrive ==
  (<>NothingEvicted /\ <>NothingFails /\ []mProcessing) =>
     \A id \in Cards \ Failing : <>(cache[id] = "item")

\* The destructor's join returns.
TearDownEnds == ~mProcessing ~> worker = "ended"

\* The worker serves what is asked for as long as the game runs, and then ends.
WorkerServes == DrawnCardsArrive /\ TearDownEnds

\* Where a thread uses the cache, and where it changes it.
UiUsesCache == ui \in {"queueing", "clearing"}

\* "So I moved the cache mutex to lock specifically only attempts to touch the
\* shared cache container": the map is not read while the worker changes it.
MutexGuardsCache == ~(UiUsesCache /\ worker = "inserting")
=============================================================================
