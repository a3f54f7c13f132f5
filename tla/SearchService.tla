--------------------------- MODULE SearchService ---------------------------
(***************************************************************************)
(* The HTTP server of backend/src/main.cpp as its worker threads run it:   *)
(* the handlers of /search and /stats, the query cache they share, and the *)
(* two mutexes, search_cache_mutex and engine_mutex.                       *)
(*                                                                         *)
(* Crow runs each handler on one of several threads, so every step of a    *)
(* handler that reads or writes shared state is an action of its own, also *)
(* inside a critical section: it is the mutexes of the model that keep     *)
(* them apart, as in the program.  What a handler does with its own        *)
(* locals only is part of the step before or after.                        *)
(*                                                                         *)
(* The index and the document store do not change once the server runs, so *)
(* QueryEngine::search is a function of the key: the constant Search.      *)
(***************************************************************************)
EXTENDS LRUCache, RequestParams, FiniteSets

CONSTANTS
  Threads,       \* Crow's worker threads
  NoThread,      \* the holder of a free mutex
  Requests,      \* the query strings clients send
  Search,        \* QueryEngine::search, a function of SearchKeys
  Answers,       \* the result lists
  NoResults,     \* the empty one
  MaxArrivals    \* bound: requests a run serves in all

ASSUME ServiceAssumption ==
  /\ IsFiniteSet(Threads) /\ NoThread \notin Threads
  /\ Requests \subseteq [q : Texts \cup {Absent}, limit : RawSizes, offset : RawSizes]
  /\ Search \in [SearchKeys -> Answers] /\ NoResults \in Answers
  /\ Capacity > 0                                  \* kSearchCacheCapacity
  /\ MaxArrivals \in Nat

\* The tokenizer sees the same words in a text and in its normalized form.
ASSUME SameWordsAssumption ==
  \A k \in SearchKeys : Search[[k EXCEPT !.query = Normalize[@]]] = Search[k]

VARIABLES
  pc,            \* where the handler of each thread stands
  request,       \* the query string it serves
  results,       \* executeSharedCachedSearch: cached or results
  cache_size,    \* /stats: the first of its three locals
  reply,         \* the last response each thread sent
  cache,         \* search_cache
  hits, misses,  \* search_cache_stats
  cache_mutex,   \* the thread that holds search_cache_mutex
  engine_mutex,  \* the thread that holds engine_mutex
  arrivals       \* requests so far, for MaxArrivals

vars == <<pc, request, results, cache_size, reply, cache, hits, misses,
          cache_mutex, engine_mutex, arrivals>>

\* The responses: badRequest, buildSearchResponse and the body of /stats.
Refused(why) == [status |-> 400, body |-> [error |-> why]]

\* A result whose document the store does not have is left out (if (!doc) continue).
\* The store no longer changes, so what is left is a function of the answer, and an
\* answer stands for it (ServedDocumentsKnown of ArtifactLifecycle: nothing is left out).
Found(answer) == [status |-> 200, body |-> [results |-> answer]]

Counters(size, h, m) ==
  [status |-> 200, body |-> [query_cache_size   |-> size,
                             query_cache_hits   |-> h,
                             query_cache_misses |-> m]]

NoReply == [status |-> 0, body |-> [error |-> "none"]]

NoRequest == [q |-> Absent, limit |-> Absent, offset |-> Absent]

Key(t) == KeyOf(request[t])

Goto(t, label) == pc' = [pc EXCEPT ![t] = label]

\* std::scoped_lock lock(search_cache_mutex): it waits for the mutex and takes
\* it; the end of the block gives it back.
AcquireWithoutWaiting(t) == cache_mutex' = t                          \* mutant

Acquire(t) == cache_mutex = NoThread /\ cache_mutex' = t

NeverRelease(t) == UNCHANGED cache_mutex                              \* mutant

Release(t) == cache_mutex' = NoThread

Init ==
  /\ pc = [t \in Threads |-> "idle"]
  /\ request = [t \in Threads |-> NoRequest]
  /\ results = [t \in Threads |-> NoResults]
  /\ cache_size = [t \in Threads |-> 0]
  /\ reply = [t \in Threads |-> NoReply]
  /\ cache = Empty
  /\ hits = 0 /\ misses = 0
  /\ cache_mutex = NoThread /\ engine_mutex = NoThread
  /\ arrivals = 0

-----------------------------------------------------------------------------
(* A request arrives at an idle thread.  The checks of a /search handler   *)
(* touch nothing shared, so they are part of the arrival.                  *)

Arrives(t) ==
  /\ pc[t] = "idle"
  /\ arrivals < MaxArrivals
  /\ arrivals' = arrivals + 1

SearchRefused(t, r) ==
  /\ Arrives(t)
  /\ Refusal(r) # "none"
  /\ reply' = [reply EXCEPT ![t] = Refused(Refusal(r))]
  /\ UNCHANGED <<pc, request, results, cache_size, cache, hits, misses,
                 cache_mutex, engine_mutex>>

SearchUnchecked(t, r) ==                                              \* mutant
  /\ Arrives(t)
  /\ request' = [request EXCEPT ![t] = r]
  /\ Goto(t, "lock_get")
  /\ UNCHANGED <<results, cache_size, reply, cache, hits, misses,
                 cache_mutex, engine_mutex>>

SearchAccepted(t, r) ==
  /\ Arrives(t)
  /\ Refusal(r) = "none"
  /\ request' = [request EXCEPT ![t] = r]
  /\ Goto(t, "lock_get")
  /\ UNCHANGED <<results, cache_size, reply, cache, hits, misses,
                 cache_mutex, engine_mutex>>

StatsArrives(t) ==
  /\ Arrives(t)
  /\ Goto(t, "lock_stats")
  /\ UNCHANGED <<request, results, cache_size, reply, cache, hits, misses,
                 cache_mutex, engine_mutex>>

-----------------------------------------------------------------------------
(* The three places that lock search_cache_mutex.                          *)

LockCache(t) ==
  /\ Acquire(t)
  /\ \/ pc[t] = "lock_get"   /\ Goto(t, "get")
     \/ pc[t] = "lock_put"   /\ Goto(t, "put")
     \/ pc[t] = "lock_stats" /\ Goto(t, "read_size")
  /\ UNCHANGED <<request, results, cache_size, reply, cache, hits, misses,
                 engine_mutex, arrivals>>

\* The first critical section: cache.get(key), then one of the counters.
GetHit(t) ==
  /\ pc[t] = "get"
  /\ Has(cache, Key(t))
  /\ cache' = Touch(cache, Key(t))
  /\ results' = [results EXCEPT ![t] = ValueOf(cache, Key(t))]
  /\ Goto(t, "count_hit")
  /\ UNCHANGED <<request, cache_size, reply, hits, misses, cache_mutex,
                 engine_mutex, arrivals>>

GetMiss(t) ==
  /\ pc[t] = "get"
  /\ ~Has(cache, Key(t))
  /\ Goto(t, "count_miss")
  /\ UNCHANGED <<request, results, cache_size, reply, cache, hits, misses,
                 cache_mutex, engine_mutex, arrivals>>

CountHit(t) ==
  /\ pc[t] = "count_hit"
  /\ hits' = hits + 1
  /\ Release(t)
  /\ Goto(t, "respond")
  /\ UNCHANGED <<request, results, cache_size, reply, cache, misses,
                 engine_mutex, arrivals>>

CountMissAsHit(t) ==                                                 \* mutant
  /\ pc[t] = "count_miss"
  /\ hits' = hits + 1
  /\ Release(t)
  /\ Goto(t, "lock_engine")
  /\ UNCHANGED <<request, results, cache_size, reply, cache, misses,
                 engine_mutex, arrivals>>

CountMiss(t) ==
  /\ pc[t] = "count_miss"
  /\ misses' = misses + 1
  /\ Release(t)
  /\ Goto(t, "lock_engine")
  /\ UNCHANGED <<request, results, cache_size, reply, cache, hits,
                 engine_mutex, arrivals>>

-----------------------------------------------------------------------------
(* The second critical section runs the engine, without the cache's mutex. *)

LockEngine(t) ==
  /\ pc[t] = "lock_engine"
  /\ engine_mutex = NoThread
  /\ engine_mutex' = t
  /\ Goto(t, "search")
  /\ UNCHANGED <<request, results, cache_size, reply, cache, hits, misses,
                 cache_mutex, arrivals>>

EngineAnswerOfDefaultLimit(k) == Search[[k EXCEPT !.limit = DefaultLimit]]  \* mutant

EngineAnswer(k) == Search[k]                                    \* executeSearch

ExecuteSearch(t) ==
  /\ pc[t] = "search"
  /\ results' = [results EXCEPT ![t] = EngineAnswer(Key(t))]
  /\ engine_mutex' = NoThread
  /\ Goto(t, "lock_put")
  /\ UNCHANGED <<request, cache_size, reply, cache, hits, misses,
                 cache_mutex, arrivals>>

-----------------------------------------------------------------------------
(* The third: cache.put(key, results), in the mutations it is made of (the *)
(* capacity is not 0).  Another thread may have put the key since this one *)
(* missed it.                                                              *)

NeverPresent(t) == FALSE                                              \* mutant

Present(t) == Has(cache, Key(t))

PutDone(t) == Release(t) /\ Goto(t, "respond")

PutRefresh(t) ==
  /\ pc[t] = "put"
  /\ Present(t)
  /\ cache' = Refresh(cache, Key(t), results[t])
  /\ PutDone(t)
  /\ UNCHANGED <<request, results, cache_size, reply, hits, misses,
                 engine_mutex, arrivals>>

PutEvict(t) ==
  /\ pc[t] = "put"
  /\ ~Present(t) /\ Full(cache)
  /\ cache' = Evict(cache)
  /\ Goto(t, "insert_after_evict")
  /\ UNCHANGED <<request, results, cache_size, reply, hits, misses,
                 cache_mutex, engine_mutex, arrivals>>

PutInsert(t) ==
  /\ \/ pc[t] = "insert_after_evict"
     \/ pc[t] = "put" /\ ~Present(t) /\ ~Full(cache)
  /\ cache' = Insert(cache, Key(t), results[t])
  /\ PutDone(t)
  /\ UNCHANGED <<request, results, cache_size, reply, hits, misses,
                 engine_mutex, arrivals>>

Respond(t) ==
  /\ pc[t] = "respond"
  /\ reply' = [reply EXCEPT ![t] = Found(results[t])]
  /\ Goto(t, "idle")
  /\ UNCHANGED <<request, results, cache_size, cache, hits, misses,
                 cache_mutex, engine_mutex, arrivals>>

-----------------------------------------------------------------------------
(* The /stats handler's critical section.                                  *)

ReadSizeAndUnlock(t) ==                                               \* mutant
  /\ pc[t] = "read_size"
  /\ cache_size' = [cache_size EXCEPT ![t] = Len(cache.order)]
  /\ Release(t)
  /\ Goto(t, "read_counters")
  /\ UNCHANGED <<request, results, reply, cache, hits, misses,
                 engine_mutex, arrivals>>

ReadSize(t) ==
  /\ pc[t] = "read_size"
  /\ cache_size' = [cache_size EXCEPT ![t] = Len(cache.order)]
  /\ Goto(t, "read_counters")
  /\ UNCHANGED <<request, results, reply, cache, hits, misses, cache_mutex,
                 engine_mutex, arrivals>>

ReadCounters(t) ==
  /\ pc[t] = "read_counters"
  /\ reply' = [reply EXCEPT ![t] = Counters(cache_size[t], hits, misses)]
  /\ Release(t)
  /\ Goto(t, "idle")
  /\ UNCHANGED <<request, results, cache_size, cache, hits, misses,
                 engine_mutex, arrivals>>

-----------------------------------------------------------------------------
\* One step of the handler that thread t is running.
Handler(t) ==
  \/ LockCache(t)
  \/ GetHit(t) \/ GetMiss(t) \/ CountHit(t) \/ CountMiss(t)
  \/ LockEngine(t) \/ ExecuteSearch(t)
  \/ PutRefresh(t) \/ PutEvict(t) \/ PutInsert(t)
  \/ Respond(t)
  \/ ReadSize(t) \/ ReadCounters(t)

\* Nothing to do: the server waits for the next request.
Waiting ==
  /\ arrivals = MaxArrivals
  /\ \A t \in Threads : pc[t] = "idle"
  /\ UNCHANGED vars

Next ==
  \/ \E t \in Threads :
       \/ \E r \in Requests : SearchRefused(t, r) \/ SearchAccepted(t, r)
       \/ StatsArrives(t)
       \/ Handler(t)
  \/ Waiting

Spec == Init /\ [][Next]_vars

\* The operating system runs every thread that can run.  Weak fairness is
\* enough for the locks because the arrivals of a run end: std::mutex promises
\* no waiter its turn while others keep coming.
FairSpec == Spec /\ \A t \in Threads : WF_vars(Handler(t))

-----------------------------------------------------------------------------
GetSection == {"get", "count_hit", "count_miss"}
PutSection == {"put", "insert_after_evict"}
StatsSection == {"read_size", "read_counters"}

\* A search that has been counted as a miss and has not stored its answer yet.
Searching == {"lock_engine", "search", "lock_put"} \cup PutSection

Labels == {"idle", "lock_get", "lock_stats", "respond"}
            \cup GetSection \cup StatsSection \cup Searching

Serving == {"lock_get", "respond"} \cup GetSection \cup Searching

Replies ==
  {NoReply}
    \cup [status : {400}, body : [error : {"missing_q", "blank_q", "long_q",
                                          "bad_limit", "bad_offset"}]]
    \cup [status : {200}, body : [results : Answers]]
    \cup [status : {200}, body : [query_cache_size   : Nat,
                                 query_cache_hits   : Nat,
                                 query_cache_misses : Nat]]

\* A search that is being served has passed the checks of its handler.
RequestsChecked ==
  \A t \in Threads :
    pc[t] \in Serving => request[t] \in Requests /\ Refusal(request[t]) = "none"

\* The type of the state.
TypeOK ==
  /\ pc \in [Threads -> Labels]
  /\ cache_mutex \in Threads \cup {NoThread}
  /\ engine_mutex \in Threads \cup {NoThread}
  /\ request \in [Threads -> Requests \cup {NoRequest}]
  /\ RequestsChecked
  /\ results \in [Threads -> Answers]
  /\ cache_size \in [Threads -> Nat]
  /\ reply \in [Threads -> Replies]
  /\ cache \in Caches(SearchKeys, Answers)
  /\ hits \in Nat /\ misses \in Nat /\ arrivals \in Nat

\* The critical sections exclude each other: a thread is inside one exactly
\* while it holds the mutex (the scoped_locks of executeSharedCachedSearch and
\* of the /stats handler).
LocksHeld ==
  \A t \in Threads :
    /\ pc[t] \in GetSection \cup PutSection \cup StatsSection <=> cache_mutex = t
    /\ pc[t] = "search" <=> engine_mutex = t

\* However the lookups and the insertions of the threads interleave, the list
\* and the map of search_cache stay in step and within the capacity, also
\* between the eviction and the insertion of one put (lru_cache.h, put).
CacheIntact == WellFormed(cache)

\* An entry of the cache holds what the engine answers to that very key, the
\* limit and the offset included, whichever thread stored it.
CachedAnswersRight ==
  \A i \in DOMAIN cache.order : cache.order[i].value = Search[cache.order[i].key]

\* A client gets the answer to the text, the limit and the offset it sent,
\* although the cache is searched for the normalized text and the answer may
\* come from the cache, from the engine, or be evicted or stored again by other
\* threads meanwhile.
AnswersAsAsked ==
  \A t \in Threads :
    pc[t] = "respond" => results[t] = Search[AsAsked(request[t])]

\* No entry without a miss: the entries of the cache and the searches under way
\* together are never more than the misses counted, so query_cache_size never
\* exceeds query_cache_misses in /stats, even when two threads miss the same key
\* and both put it.
EntriesPaidByMisses ==
  Len(cache.order) + Cardinality({t \in Threads : pc[t] \in Searching}) <= misses

\* Every search and every /stats request is answered: no handler waits for ever
\* for a mutex.
EveryRequestAnswered == \A t \in Threads : pc[t] # "idle" ~> pc[t] = "idle"

\* The server keeps the promises of its API.  Between the eviction and the
\* insertion of one put the entry on its way counts as stored.
Phase(t) ==
  IF pc[t] \in {"lock_get"} \cup GetSection THEN "looking"
  ELSE IF pc[t] \in Searching THEN "searching"
  ELSE IF pc[t] = "respond" THEN "found"
  ELSE IF pc[t] \in {"lock_stats"} \cup StatsSection THEN "stats"
  ELSE "idle"

Stored ==
  Len(cache.order) + Cardinality({t \in Threads : pc[t] = "insert_after_evict"})

Api == INSTANCE SearchApi WITH
         Clients <- Threads, phase <- [t \in Threads |-> Phase(t)], stored <- Stored

ImplementsApi == Api!Spec
=============================================================================
