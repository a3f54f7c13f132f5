------------------------ MODULE SearchServiceProofs ------------------------
(***************************************************************************)
(* The safety of SearchService for any number of threads, any capacity,    *)
(* any engine and any number of requests.                                  *)
(*                                                                         *)
(* Three inductive invariants, each resting on the one before: Control     *)
(* says where the threads and the mutexes stand, Data what the cache and   *)
(* the results hold, EntriesPaidByMisses counts.                           *)
(***************************************************************************)
EXTENDS SearchService, LRUCacheProofs, FiniteSetTheorems

\* Where the threads stand, and who holds the mutexes.
Control ==
  /\ pc \in [Threads -> Labels]
  /\ cache_mutex \in Threads \cup {NoThread}
  /\ engine_mutex \in Threads \cup {NoThread}
  /\ LocksHeld

\* The mutexes keep the critical sections apart: whoever is inside one holds its
\* mutex (executeSharedCachedSearch and the /stats handler).
THEOREM ControlInvariant == Spec => []Control
<1> USE DEF Labels, Searching, GetSection, PutSection, StatsSection
<1>1. Init => Control
  BY ServiceAssumption DEF Init, Control, LocksHeld
<1>2. Control /\ [Next]_vars => Control'
  <2> SUFFICES ASSUME Control, [Next]_vars PROVE Control'
    OBVIOUS
  <2> USE ServiceAssumption DEF Control, LocksHeld, Goto
  <2>1. ASSUME NEW t \in Threads, NEW r \in Requests, SearchRefused(t, r)
        PROVE  Control'
    BY <2>1 DEF SearchRefused
  <2>2. ASSUME NEW t \in Threads, NEW r \in Requests, SearchAccepted(t, r)
        PROVE  Control'
    BY <2>2 DEF SearchAccepted, Arrives
  <2>3. ASSUME NEW t \in Threads, StatsArrives(t) PROVE Control'
    BY <2>3 DEF StatsArrives, Arrives
  <2>4. ASSUME NEW t \in Threads, LockCache(t) PROVE Control'
    BY <2>4 DEF LockCache, Acquire
  <2>5. ASSUME NEW t \in Threads, GetHit(t) PROVE Control'
    BY <2>5 DEF GetHit
  <2>6. ASSUME NEW t \in Threads, GetMiss(t) PROVE Control'
    BY <2>6 DEF GetMiss
  <2>7. ASSUME NEW t \in Threads, CountHit(t) PROVE Control'
    BY <2>7 DEF CountHit, Release
  <2>8. ASSUME NEW t \in Threads, CountMiss(t) PROVE Control'
    BY <2>8 DEF CountMiss, Release
  <2>9. ASSUME NEW t \in Threads, LockEngine(t) PROVE Control'
    BY <2>9 DEF LockEngine
  <2>10. ASSUME NEW t \in Threads, ExecuteSearch(t) PROVE Control'
    BY <2>10 DEF ExecuteSearch
  <2>11. ASSUME NEW t \in Threads, PutRefresh(t) PROVE Control'
    BY <2>11 DEF PutRefresh, PutDone, Release
  <2>12. ASSUME NEW t \in Threads, PutEvict(t) PROVE Control'
    BY <2>12 DEF PutEvict
  <2>13. ASSUME NEW t \in Threads, PutInsert(t) PROVE Control'
    BY <2>13 DEF PutInsert, PutDone, Release
  <2>14. ASSUME NEW t \in Threads, Respond(t) PROVE Control'
    BY <2>14 DEF Respond
  <2>15. ASSUME NEW t \in Threads, ReadSize(t) PROVE Control'
    BY <2>15 DEF ReadSize
  <2>16. ASSUME NEW t \in Threads, ReadCounters(t) PROVE Control'
    BY <2>16 DEF ReadCounters, Release
  <2>17. CASE UNCHANGED vars
    BY <2>17 DEF vars
  <2> QED
    BY <2>1, <2>2, <2>3, <2>4, <2>5, <2>6, <2>7, <2>8, <2>9, <2>10, <2>11,
       <2>12, <2>13, <2>14, <2>15, <2>16, <2>17 DEF Next, Handler, Waiting
<1> QED  BY <1>1, <1>2, PTL DEF Spec

-----------------------------------------------------------------------------
\* A request the handler accepts has a limit and an offset in range, so its key
\* is one the engine knows, and the engine answers the key as it would answer
\* the client's own words.
LEMMA AcceptedRequest ==
  ASSUME NEW r \in Requests, Refusal(r) = "none"
  PROVE  /\ AsAsked(r) \in SearchKeys
         /\ KeyOf(r) \in SearchKeys
         /\ Search[KeyOf(r)] = Search[AsAsked(r)]
<1>1. r.q \in Texts /\ LimitOf(r) # {} /\ OffsetOf(r) # {}
  BY ServiceAssumption DEF Refusal
<1>2. LimitOf(r) \subseteq 1..MaxLimit
  BY ParamsAssumption DEF LimitOf, BoundedSize, ParseSize
<1>3. OffsetOf(r) \subseteq 0..SizeMax
  BY ParamsAssumption DEF OffsetOf, BoundedSize, ParseSize
<1>4. (CHOOSE n \in LimitOf(r) : TRUE) \in 1..MaxLimit
  BY <1>1, <1>2
<1>5. (CHOOSE n \in OffsetOf(r) : TRUE) \in 0..SizeMax
  BY <1>1, <1>3
<1>6. AsAsked(r) \in SearchKeys
  BY <1>1, <1>4, <1>5 DEF AsAsked, SearchKeys
<1>7. AsAsked(r).query = r.q /\ Normalize[r.q] \in Texts
  BY <1>1, ParamsAssumption DEF AsAsked
<1>8. KeyOf(r) \in SearchKeys
  BY <1>6, <1>7 DEF KeyOf, SearchKeys
<1>9. Search[KeyOf(r)] = Search[AsAsked(r)]
  BY <1>6, SameWordsAssumption DEF KeyOf
<1> QED  BY <1>6, <1>8, <1>9

\* The values of the variables.
Types ==
  /\ request \in [Threads -> Requests \cup {NoRequest}]
  /\ RequestsChecked
  /\ results \in [Threads -> Answers]
  /\ cache_size \in [Threads -> Nat]
  /\ reply \in [Threads -> Replies]
  /\ cache \in Caches(SearchKeys, Answers)
  /\ hits \in Nat /\ misses \in Nat /\ arrivals \in Nat

\* CachedAnswersRight, of the entries rather than their places.
EntriesRight == \A e \in Entries(cache.order) : e.value = Search[e.key]

\* A thread holds the answer to its own key from the moment it has one.
HasResults ==
  {"count_hit", "lock_put", "respond"} \cup PutSection

ResultsRight ==
  \A t \in Threads : pc[t] \in HasResults => results[t] = Search[Key(t)]

\* Nobody fills the place a put has made free, or puts its key, before it does.
RoomLeft ==
  \A t \in Threads :
    pc[t] = "insert_after_evict" =>
      ~Has(cache, Key(t)) /\ Len(cache.order) < Capacity

Data ==
  /\ Types
  /\ WellFormed(cache)
  /\ EntriesRight
  /\ ResultsRight
  /\ RoomLeft

LEMMA DataInit == Init => Data
<1> SUFFICES ASSUME Init PROVE Data
  OBVIOUS
<1>1. Types
  <2>1. NoReply \in Replies
    BY DEF Replies
  <2>2. cache \in Caches(SearchKeys, Answers)
    BY DEF Init, Empty, Caches
  <2> QED  BY <2>1, <2>2, ServiceAssumption
           DEF Init, Types, RequestsChecked, Serving, Searching, GetSection, PutSection
<1>2. cache.order = << >> /\ cache.items = {}
  BY DEF Init, Empty
<1>3. WellFormed(cache)
  BY <1>2, CapacityAssumption DEF WellFormed, Consistent, KeysOf
<1>4. EntriesRight
  BY <1>2 DEF EntriesRight, Entries
<1>5. ResultsRight /\ RoomLeft
  BY DEF Init, ResultsRight, RoomLeft, HasResults, PutSection
<1> QED  BY <1>1, <1>3, <1>4, <1>5 DEF Data

\* A step that leaves the cache, the requests and the results alone, and lets no
\* thread claim an answer or a free place it did not have.
LEMMA DataUndisturbed ==
  ASSUME Data, Types', UNCHANGED <<cache, request, results>>,
         \A u \in Threads : pc'[u] \in HasResults => pc[u] \in HasResults,
         \A u \in Threads : pc'[u] = "insert_after_evict" => pc[u] = "insert_after_evict"
  PROVE  Data'
  BY DEF Data, EntriesRight, ResultsRight, RoomLeft, Key

\* The same for a step of t inside a critical section that changes the cache:
\* no other thread is between an eviction and an insertion.
LEMMA OthersHaveNoRoom ==
  ASSUME Control, NEW t \in Threads, cache_mutex = t,
         \A u \in Threads \ {t} : pc'[u] = pc[u]
  PROVE  \A u \in Threads \ {t} : pc'[u] # "insert_after_evict"
  BY DEF Control, LocksHeld, PutSection

\* Every step keeps the data right.  Steps that leave the cache and the results
\* alone fall under DataUndisturbed; the others are taken one part at a time.
LEMMA DataStep == Control /\ Data /\ [Next]_vars => Data'
<1> SUFFICES ASSUME Control, Data, [Next]_vars PROVE Data'
  OBVIOUS
<1> USE DEF Labels, Searching, GetSection, PutSection, StatsSection, Serving,
            HasResults, Goto
<1>0. /\ pc \in [Threads -> Labels] /\ Types /\ WellFormed(cache)
      /\ Len(cache.order) \in Nat /\ Capacity \in Nat
  BY CacheParts, CapacityAssumption DEF Control, Data, Types
<1>a. \A t \in Threads : pc[t] \in Serving => Key(t) \in SearchKeys
  BY <1>0, AcceptedRequest DEF Types, RequestsChecked, Key
<1>1. ASSUME NEW t \in Threads, NEW r \in Requests, SearchRefused(t, r)
      PROVE  Data'
  <2>1. Refused(Refusal(r)) \in Replies
    BY <1>1 DEF SearchRefused, Refusal, Refused, Replies
  <2>2. Types'
    BY <1>0, <1>1, <2>1 DEF SearchRefused, Arrives, Types, RequestsChecked
  <2> QED  BY <1>1, <2>2, DataUndisturbed DEF SearchRefused
<1>2. ASSUME NEW t \in Threads, NEW r \in Requests, SearchAccepted(t, r)
      PROVE  Data'
  <2>1. Types'
    BY <1>0, <1>2 DEF SearchAccepted, Arrives, Types, RequestsChecked
  <2>2. ResultsRight' /\ RoomLeft'
    BY <1>0, <1>2 DEF SearchAccepted, Arrives, Data, ResultsRight, RoomLeft, Key, Types
  <2> QED  BY <1>2, <2>1, <2>2 DEF SearchAccepted, Data, EntriesRight
<1>3. ASSUME NEW t \in Threads, StatsArrives(t) PROVE Data'
  <2>1. Types'
    BY <1>0, <1>3 DEF StatsArrives, Arrives, Types, RequestsChecked
  <2> QED  BY <1>0, <1>3, <2>1, DataUndisturbed DEF StatsArrives
<1>4. ASSUME NEW t \in Threads, LockCache(t) PROVE Data'
  <2>1. Types'
    BY <1>0, <1>4 DEF LockCache, Types, RequestsChecked
  <2> QED  BY <1>0, <1>4, <2>1, DataUndisturbed DEF LockCache
<1>5. ASSUME NEW t \in Threads, GetHit(t) PROVE Data'
  <2>1. cache_mutex = t /\ \A u \in Threads \ {t} : pc'[u] # "insert_after_evict"
    BY <1>0, <1>5, OthersHaveNoRoom DEF GetHit, Control, LocksHeld
  <2>2. /\ cache' \in Caches(SearchKeys, Answers) /\ WellFormed(cache')
        /\ Entries(cache'.order) = Entries(cache.order)
    BY <1>0, <1>5, TouchPreserves DEF GetHit, Types
  <2>3. [key |-> Key(t), value |-> ValueOf(cache, Key(t))] \in Entries(cache.order)
    BY <1>0, <1>5, ValueOfEntry DEF GetHit, Types
  <2>4. results'[t] = Search[Key(t)] /\ results'[t] \in Answers
    BY <1>0, <1>5, <1>a, <2>3, ServiceAssumption DEF GetHit, Data, EntriesRight, Types
  <2>5. Types'
    BY <1>0, <1>5, <2>2, <2>4 DEF GetHit, Types, RequestsChecked
  <2>6. ResultsRight'
    BY <1>0, <1>5, <2>4 DEF GetHit, Data, ResultsRight, Types, Key
  <2>7. RoomLeft'
    BY <1>0, <1>5, <2>1 DEF GetHit, RoomLeft
  <2> QED  BY <2>2, <2>5, <2>6, <2>7 DEF Data, EntriesRight
<1>6. ASSUME NEW t \in Threads, GetMiss(t) PROVE Data'
  <2>1. Types'
    BY <1>0, <1>6 DEF GetMiss, Types, RequestsChecked
  <2> QED  BY <1>0, <1>6, <2>1, DataUndisturbed DEF GetMiss
<1>7. ASSUME NEW t \in Threads, CountHit(t) PROVE Data'
  <2>1. Types'
    BY <1>0, <1>7 DEF CountHit, Types, RequestsChecked
  <2> QED  BY <1>0, <1>7, <2>1, DataUndisturbed DEF CountHit
<1>8. ASSUME NEW t \in Threads, CountMiss(t) PROVE Data'
  <2>1. Types'
    BY <1>0, <1>8 DEF CountMiss, Types, RequestsChecked
  <2> QED  BY <1>0, <1>8, <2>1, DataUndisturbed DEF CountMiss
<1>9. ASSUME NEW t \in Threads, LockEngine(t) PROVE Data'
  <2>1. Types'
    BY <1>0, <1>9 DEF LockEngine, Types, RequestsChecked
  <2> QED  BY <1>0, <1>9, <2>1, DataUndisturbed DEF LockEngine
<1>10. ASSUME NEW t \in Threads, ExecuteSearch(t) PROVE Data'
  <2>1. results'[t] = Search[Key(t)] /\ results'[t] \in Answers
    BY <1>0, <1>10, <1>a, ServiceAssumption DEF ExecuteSearch, EngineAnswer, Types
  <2>2. Types'
    BY <1>0, <1>10, <2>1 DEF ExecuteSearch, Types, RequestsChecked
  <2>3. ResultsRight' /\ RoomLeft'
    BY <1>0, <1>10, <2>1 DEF ExecuteSearch, Data, ResultsRight, RoomLeft, Types, Key
  <2> QED  BY <1>10, <2>2, <2>3 DEF ExecuteSearch, Data, EntriesRight
<1>11. ASSUME NEW t \in Threads, PutRefresh(t) PROVE Data'
  <2>1. cache_mutex = t /\ \A u \in Threads \ {t} : pc'[u] # "insert_after_evict"
    BY <1>0, <1>11, OthersHaveNoRoom DEF PutRefresh, PutDone, Control, LocksHeld
  <2>2. results[t] = Search[Key(t)] /\ results[t] \in Answers
    BY <1>0, <1>11 DEF PutRefresh, Data, ResultsRight, Types
  <2>3. /\ cache' \in Caches(SearchKeys, Answers) /\ WellFormed(cache')
        /\ Entries(cache'.order)
             \subseteq Entries(cache.order) \cup {[key |-> Key(t), value |-> results[t]]}
    BY <1>0, <1>11, <2>2, RefreshPreserves DEF PutRefresh, Present, Types
  <2>4. EntriesRight'
    BY <2>2, <2>3 DEF Data, EntriesRight
  <2>5. Types'
    BY <1>0, <1>11, <2>3 DEF PutRefresh, PutDone, Types, RequestsChecked
  <2>6. ResultsRight' /\ RoomLeft'
    BY <1>0, <1>11, <2>1 DEF PutRefresh, PutDone, Data, ResultsRight, RoomLeft, Key
  <2> QED  BY <2>3, <2>4, <2>5, <2>6 DEF Data
<1>12. ASSUME NEW t \in Threads, PutEvict(t) PROVE Data'
  <2>1. cache_mutex = t /\ \A u \in Threads \ {t} : pc'[u] # "insert_after_evict"
    BY <1>0, <1>12, OthersHaveNoRoom DEF PutEvict, Control, LocksHeld
  <2>2. /\ cache' \in Caches(SearchKeys, Answers) /\ Consistent(cache')
        /\ Entries(cache'.order) \subseteq Entries(cache.order)
        /\ cache'.items \subseteq cache.items
        /\ Len(cache'.order) < Capacity
    BY <1>0, <1>12, ServiceAssumption, EvictPreserves DEF PutEvict, Types
  <2>3. WellFormed(cache')
    <3>1. Len(cache'.order) \in Nat
      BY <2>2, CacheParts
    <3> QED  BY <1>0, <2>2, <3>1 DEF WellFormed
  <2>4. EntriesRight'
    BY <2>2 DEF Data, EntriesRight
  <2>5. Types'
    BY <1>0, <1>12, <2>2 DEF PutEvict, Types, RequestsChecked
  <2>6. ResultsRight'
    BY <1>0, <1>12 DEF PutEvict, Data, ResultsRight, Key
  <2>7. RoomLeft'
    <3>1. ~Has(cache', Key(t)')
      BY <1>12, <2>2 DEF PutEvict, Present, Has, Key
    <3> QED  BY <2>1, <2>2, <3>1 DEF RoomLeft
  <2> QED  BY <2>3, <2>4, <2>5, <2>6, <2>7 DEF Data
<1>13. ASSUME NEW t \in Threads, PutInsert(t) PROVE Data'
  <2>1. cache_mutex = t /\ \A u \in Threads \ {t} : pc'[u] # "insert_after_evict"
    BY <1>0, <1>13, OthersHaveNoRoom DEF PutInsert, PutDone, Control, LocksHeld
  <2>2. results[t] = Search[Key(t)] /\ results[t] \in Answers
    BY <1>0, <1>13 DEF PutInsert, Data, ResultsRight, Types
  <2>3. ~Has(cache, Key(t)) /\ Len(cache.order) < Capacity
    BY <1>0, <1>13 DEF PutInsert, Present, Full, Data, RoomLeft
  <2>4. /\ cache' \in Caches(SearchKeys, Answers) /\ WellFormed(cache')
        /\ Entries(cache'.order)
             \subseteq Entries(cache.order) \cup {[key |-> Key(t), value |-> results[t]]}
    <3>1. Key(t) \in SearchKeys /\ Consistent(cache)
      BY <1>0, <1>13, <1>a DEF PutInsert, WellFormed
    <3> QED  BY <1>0, <1>13, <2>2, <2>3, <3>1, InsertPreserves DEF PutInsert, Types
  <2>5. EntriesRight'
    BY <2>2, <2>4 DEF Data, EntriesRight
  <2>6. Types'
    BY <1>0, <1>13, <2>4 DEF PutInsert, PutDone, Types, RequestsChecked
  <2>7. ResultsRight' /\ RoomLeft'
    BY <1>0, <1>13, <2>1 DEF PutInsert, PutDone, Data, ResultsRight, RoomLeft, Key
  <2> QED  BY <2>4, <2>5, <2>6, <2>7 DEF Data
<1>14. ASSUME NEW t \in Threads, Respond(t) PROVE Data'
  <2>1. Found(results[t]) \in Replies
    BY <1>0 DEF Found, Replies, Types
  <2>2. Types'
    BY <1>0, <1>14, <2>1 DEF Respond, Types, RequestsChecked
  <2> QED  BY <1>0, <1>14, <2>2, DataUndisturbed DEF Respond
<1>15. ASSUME NEW t \in Threads, ReadSize(t) PROVE Data'
  <2>1. Types'
    BY <1>0, <1>15 DEF ReadSize, Types, RequestsChecked
  <2> QED  BY <1>0, <1>15, <2>1, DataUndisturbed DEF ReadSize
<1>16. ASSUME NEW t \in Threads, ReadCounters(t) PROVE Data'
  <2>1. Counters(cache_size[t], hits, misses) \in Replies
    BY <1>0 DEF Counters, Replies, Types
  <2>2. Types'
    BY <1>0, <1>16, <2>1 DEF ReadCounters, Types, RequestsChecked
  <2> QED  BY <1>0, <1>16, <2>2, DataUndisturbed DEF ReadCounters
<1>17. CASE UNCHANGED vars
  BY <1>17 DEF vars, Data, Types, RequestsChecked, EntriesRight, ResultsRight,
               RoomLeft, Key
<1> QED
  BY <1>1, <1>2, <1>3, <1>4, <1>5, <1>6, <1>7, <1>8, <1>9, <1>10, <1>11, <1>12,
     <1>13, <1>14, <1>15, <1>16, <1>17 DEF Next, Handler, Waiting

LEMMA DataInvariant == Spec => []Data
  BY DataInit, DataStep, ControlInvariant, PTL DEF Spec

-----------------------------------------------------------------------------
\* Type correctness, with the checks every request in service has passed.
THEOREM TypeCorrect == Spec => []TypeOK
<1>1. Control /\ Data => TypeOK
  BY DEF Control, Data, Types, TypeOK
<1> QED  BY <1>1, ControlInvariant, DataInvariant, PTL

\* Mutual exclusion of the critical sections.
THEOREM MutualExclusion == Spec => []LocksHeld
<1>1. Control => LocksHeld
  BY DEF Control
<1> QED  BY <1>1, ControlInvariant, PTL

\* The list and the map of search_cache agree and stay within the capacity.
THEOREM CacheStaysIntact == Spec => []CacheIntact
<1>1. Data => CacheIntact
  BY DEF Data, CacheIntact
<1> QED  BY <1>1, DataInvariant, PTL

\* Every cached entry is the engine's answer to its key.
THEOREM CachedAnswersStayRight == Spec => []CachedAnswersRight
<1>1. Data => CachedAnswersRight
  BY DEF Data, EntriesRight, Entries, CachedAnswersRight
<1> QED  BY <1>1, DataInvariant, PTL

\* Every response is the engine's answer to what that client asked.
THEOREM ClientsGetTheirAnswers == Spec => []AnswersAsAsked
<1>1. Data => AnswersAsAsked
  <2> SUFFICES ASSUME Data, NEW t \in Threads, pc[t] = "respond"
               PROVE  results[t] = Search[AsAsked(request[t])]
    BY DEF AnswersAsAsked
  <2>1. results[t] = Search[KeyOf(request[t])]
    BY DEF Data, ResultsRight, HasResults, Key
  <2>2. request[t] \in Requests /\ Refusal(request[t]) = "none"
    BY DEF Data, Types, RequestsChecked, Serving
  <2> QED  BY <2>1, <2>2, AcceptedRequest
<1> QED  BY <1>1, DataInvariant, PTL

-----------------------------------------------------------------------------
InFlight == {t \in Threads : pc[t] \in Searching}

\* A finite set that gains, keeps or loses one element.
LEMMA CountsOfInFlight ==
  /\ IsFiniteSet(InFlight) /\ Cardinality(InFlight) \in Nat
  /\ InFlight' = InFlight => Cardinality(InFlight') = Cardinality(InFlight)
  /\ \A t \in Threads :
       /\ t \notin InFlight /\ InFlight' = InFlight \cup {t} =>
            Cardinality(InFlight') = Cardinality(InFlight) + 1
       /\ t \in InFlight /\ InFlight' = InFlight \ {t} =>
            Cardinality(InFlight') = Cardinality(InFlight) - 1
<1>1. IsFiniteSet(InFlight)
  BY ServiceAssumption, FS_Subset DEF InFlight
<1>2. Cardinality(InFlight) \in Nat
  BY <1>1, FS_CardinalityType
<1> QED  BY <1>1, <1>2, FS_AddElement, FS_RemoveElement

\* The miss is counted before the search starts, and a search that has missed
\* adds at most one entry, at its end (executeSharedCachedSearch).
THEOREM MissesPayForEntries == Spec => []EntriesPaidByMisses
<1> USE DEF Labels, Searching, GetSection, PutSection, StatsSection, Goto
<1>1. Init => EntriesPaidByMisses
  <2> SUFFICES ASSUME Init PROVE EntriesPaidByMisses
    OBVIOUS
  <2>1. {t \in Threads : pc[t] \in Searching} = {} /\ Len(cache.order) = 0 /\ misses = 0
    BY DEF Init, Empty
  <2> QED  BY <2>1, FS_EmptySet DEF EntriesPaidByMisses
<1>2. Control /\ Data /\ EntriesPaidByMisses /\ [Next]_vars => EntriesPaidByMisses'
  <2> SUFFICES ASSUME Control, Data, EntriesPaidByMisses, [Next]_vars
               PROVE  EntriesPaidByMisses'
    OBVIOUS
  <2>0. /\ pc \in [Threads -> Labels] /\ misses \in Nat /\ WellFormed(cache)
        /\ cache \in Caches(SearchKeys, Answers) /\ Len(cache.order) \in Nat
    BY CacheParts DEF Control, Data, Types
  <2>a. Len(cache.order) + Cardinality(InFlight) <= misses
    BY DEF EntriesPaidByMisses, InFlight
  <2>b. ASSUME Len(cache'.order) + Cardinality(InFlight') <= misses'
        PROVE  EntriesPaidByMisses'
    BY <2>b DEF EntriesPaidByMisses, InFlight
  <2>1. ASSUME InFlight' = InFlight, misses' = misses,
               Len(cache'.order) = Len(cache.order) \/ Len(cache'.order) = Len(cache.order) - 1
        PROVE  EntriesPaidByMisses'
    BY <2>0, <2>1, <2>a, <2>b, CountsOfInFlight
  <2>2. ASSUME NEW t \in Threads, CountMiss(t) PROVE EntriesPaidByMisses'
    <3>1. t \notin InFlight /\ InFlight' = InFlight \cup {t}
      BY <2>0, <2>2 DEF CountMiss, InFlight
    <3>2. Cardinality(InFlight') = Cardinality(InFlight) + 1
      BY <3>1, CountsOfInFlight
    <3>3. misses' = misses + 1 /\ cache' = cache /\ Cardinality(InFlight) \in Nat
      BY <2>2, CountsOfInFlight DEF CountMiss
    <3> QED  BY <2>0, <2>a, <2>b, <3>2, <3>3
  <2>3. ASSUME NEW t \in Threads, PutRefresh(t) PROVE EntriesPaidByMisses'
    <3>1. t \in InFlight /\ InFlight' = InFlight \ {t}
      BY <2>0, <2>3 DEF PutRefresh, PutDone, InFlight
    <3>2. results[t] \in Answers
      BY DEF Data, Types
    <3>3. Len(cache'.order) = Len(cache.order) /\ misses' = misses
      BY <2>0, <2>3, <3>2, RefreshPreserves DEF PutRefresh, Present
    <3>4. Cardinality(InFlight') = Cardinality(InFlight) - 1 /\ Cardinality(InFlight) \in Nat
      BY <3>1, CountsOfInFlight
    <3> QED  BY <2>0, <2>a, <2>b, <3>3, <3>4
  <2>4. ASSUME NEW t \in Threads, PutEvict(t) PROVE EntriesPaidByMisses'
    <3>1. InFlight' = InFlight
      BY <2>0, <2>4 DEF PutEvict, InFlight
    <3>2. Len(cache'.order) = Len(cache.order) - 1 /\ misses' = misses
      BY <2>0, <2>4, ServiceAssumption, EvictPreserves DEF PutEvict
    <3> QED  BY <2>1, <3>1, <3>2
  <2>5. ASSUME NEW t \in Threads, PutInsert(t) PROVE EntriesPaidByMisses'
    <3>1. t \in InFlight /\ InFlight' = InFlight \ {t}
      BY <2>0, <2>5 DEF PutInsert, PutDone, InFlight
    <3>2. cache.order \in Seq(Nodes(SearchKeys, Answers))
      BY <2>0, CacheParts
    <3>3. cache' = Insert(cache, Key(t), results[t]) /\ misses' = misses
      BY <2>5 DEF PutInsert
    <3>4. results[t] \in Answers /\ Key(t) \in SearchKeys
      BY <2>0, <2>5, AcceptedRequest
         DEF PutInsert, Data, Types, RequestsChecked, Serving, Key
    <3>5. ~Has(cache, Key(t)) /\ Len(cache.order) < Capacity
      BY <2>0, <2>5, CapacityAssumption DEF PutInsert, Present, Full, Data, RoomLeft
    <3>6. Len(cache'.order) = Len(cache.order) + 1
      BY <2>0, <3>3, <3>4, <3>5, InsertPreserves DEF WellFormed
    <3>7. Cardinality(InFlight') = Cardinality(InFlight) - 1 /\ Cardinality(InFlight) \in Nat
      BY <3>1, CountsOfInFlight
    <3> QED  BY <2>0, <2>a, <2>b, <3>3, <3>6, <3>7
  <2>6. ASSUME NEW t \in Threads, GetHit(t) PROVE EntriesPaidByMisses'
    <3>1. InFlight' = InFlight /\ misses' = misses
      BY <2>0, <2>6 DEF GetHit, InFlight
    <3>2. Len(cache'.order) = Len(cache.order)
      BY <2>0, <2>6, TouchPreserves DEF GetHit
    <3> QED  BY <2>1, <3>1, <3>2
  <2>7. ASSUME NEW t \in Threads, NEW r \in Requests,
               SearchRefused(t, r) \/ SearchAccepted(t, r)
        PROVE  EntriesPaidByMisses'
    <3>1. InFlight' = InFlight /\ misses' = misses /\ cache' = cache
      BY <2>0, <2>7 DEF SearchRefused, SearchAccepted, Arrives, InFlight
    <3> QED  BY <2>1, <3>1
  <2>8. ASSUME NEW t \in Threads,
               \/ LockCache(t) \/ GetMiss(t) \/ CountHit(t) \/ LockEngine(t)
               \/ ExecuteSearch(t) \/ Respond(t) \/ ReadSize(t) \/ ReadCounters(t)
        PROVE  EntriesPaidByMisses'
    <3>1. InFlight' = InFlight
      BY <2>0, <2>8 DEF LockCache, GetMiss, CountHit, LockEngine, ExecuteSearch,
                        Respond, ReadSize, ReadCounters, InFlight
    <3>2. misses' = misses /\ cache' = cache
      BY <2>8 DEF LockCache, GetMiss, CountHit, LockEngine, ExecuteSearch,
                  Respond, ReadSize, ReadCounters
    <3> QED  BY <2>1, <3>1, <3>2
  <2>9. CASE UNCHANGED vars
    <3>1. InFlight' = InFlight /\ misses' = misses /\ cache' = cache
      BY <2>9 DEF vars, InFlight
    <3> QED  BY <2>1, <3>1
  <2>10. ASSUME NEW t \in Threads, StatsArrives(t) PROVE EntriesPaidByMisses'
    <3>1. InFlight' = InFlight /\ misses' = misses /\ cache' = cache
      BY <2>0, <2>10 DEF StatsArrives, Arrives, InFlight
    <3> QED  BY <2>1, <3>1
  <2> QED
    BY <2>2, <2>3, <2>4, <2>5, <2>6, <2>7, <2>8, <2>9, <2>10 DEF Next, Handler, Waiting
<1> QED  BY <1>1, <1>2, ControlInvariant, DataInvariant, PTL DEF Spec

-----------------------------------------------------------------------------
(* The refinement of SearchApi.                                            *)

\* While a /stats handler is between its two reads, the size it has read is that of
\* the cache: it holds the mutex, so nobody stores anything.
SizesRead ==
  \A t \in Threads : pc[t] = "read_counters" => cache_size[t] = Len(cache.order)

LEMMA SizesStayRead == Spec => []SizesRead
<1> USE DEF Labels, Searching, GetSection, PutSection, StatsSection, Goto
<1>1. Init => SizesRead
  BY DEF Init, SizesRead
<1>2. Control /\ Data /\ SizesRead /\ [Next]_vars => SizesRead'
  <2> SUFFICES ASSUME Control, Data, SizesRead, [Next]_vars PROVE SizesRead'
    OBVIOUS
  <2>0. pc \in [Threads -> Labels] /\ cache_size \in [Threads -> Nat] /\ LocksHeld
    BY DEF Control, Data, Types
  <2>1. ASSUME UNCHANGED <<cache, cache_size>>,
               \A t \in Threads : pc'[t] = "read_counters" => pc[t] = "read_counters"
        PROVE  SizesRead'
    BY <2>1 DEF SizesRead
  <2>2. ASSUME NEW t \in Threads, ReadSize(t) PROVE SizesRead'
    BY <2>0, <2>2 DEF ReadSize, SizesRead
  <2>3. ASSUME NEW t \in Threads, GetHit(t) \/ PutRefresh(t) \/ PutEvict(t) \/ PutInsert(t)
        PROVE  SizesRead'
    <3>1. pc[t] \in GetSection \cup PutSection
      BY <2>3 DEF GetHit, PutRefresh, PutEvict, PutInsert
    <3>2. \A u \in Threads : pc[u] # "read_counters"
      BY <2>0, <3>1 DEF LocksHeld
    <3>3. \A u \in Threads : pc'[u] # "read_counters"
      BY <2>0, <2>3, <3>2 DEF GetHit, PutRefresh, PutEvict, PutInsert, PutDone
    <3> QED  BY <3>3 DEF SizesRead
  <2>4. ASSUME NEW t \in Threads, NEW r \in Requests,
               SearchRefused(t, r) \/ SearchAccepted(t, r)
        PROVE  SizesRead'
    BY <2>0, <2>1, <2>4 DEF SearchRefused, SearchAccepted, Arrives
  <2>5. ASSUME NEW t \in Threads, StatsArrives(t) \/ LockCache(t) \/ GetMiss(t) \/ CountHit(t)
        PROVE  SizesRead'
    BY <2>0, <2>1, <2>5 DEF StatsArrives, Arrives, LockCache, GetMiss, CountHit
  <2>6. ASSUME NEW t \in Threads,
               \/ CountMiss(t) \/ LockEngine(t) \/ ExecuteSearch(t) \/ Respond(t)
               \/ ReadCounters(t)
        PROVE  SizesRead'
    BY <2>0, <2>1, <2>6 DEF CountMiss, LockEngine, ExecuteSearch, Respond, ReadCounters
  <2>7. CASE UNCHANGED vars
    BY <2>1, <2>7 DEF vars
  <2> QED  BY <2>2, <2>3, <2>4, <2>5, <2>6, <2>7 DEF Next, Handler, Waiting
<1> QED  BY <1>1, <1>2, ControlInvariant, DataInvariant, PTL DEF Spec

\* The helpers of the two specifications read a query string alike.
LEMMA SameHandling ==
  ASSUME NEW r
  PROVE  Api!Refusal(r) = Refusal(r) /\ Api!AsAsked(r) = AsAsked(r)
  BY DEF Api!Refusal, Refusal, Api!AsAsked, AsAsked, Api!LimitOf, LimitOf, Api!OffsetOf,
         OffsetOf, Api!BoundedSize, BoundedSize, Api!ParseSize, ParseSize

\* The phase that stands for a place of the handler.
PhaseAt(label) ==
  IF label \in {"lock_get"} \cup GetSection THEN "looking"
  ELSE IF label \in Searching THEN "searching"
  ELSE IF label = "respond" THEN "found"
  ELSE IF label \in {"lock_stats"} \cup StatsSection THEN "stats"
  ELSE "idle"

Phases == [t \in Threads |-> Phase(t)]

LEMMA PhaseGoes ==
  ASSUME Control, NEW t \in Threads, NEW label, Goto(t, label)
  PROVE  /\ Phases[t] = PhaseAt(pc[t])
         /\ Phases' = [Phases EXCEPT ![t] = PhaseAt(label)]
         /\ PhaseAt(label) = PhaseAt(pc[t]) => Phases' = Phases
<1>1. \A u \in Threads : pc'[u] = IF u = t THEN label ELSE pc[u]
  BY DEF Control, Goto
<1>2. Phases = [u \in Threads |-> PhaseAt(pc[u])]
  BY DEF Phases, Phase, PhaseAt
<1>3. Phases' = [u \in Threads |-> PhaseAt(pc'[u])]
  BY DEF Phases, Phase, PhaseAt
<1> QED  BY <1>1, <1>2, <1>3

\* The threads between the eviction and the insertion of a put: the holder of the
\* mutex, or nobody.
Between == {t \in Threads : pc[t] = "insert_after_evict"}

LEMMA BetweenHolds ==
  ASSUME Control, NEW t \in Threads, pc[t] \in GetSection \cup PutSection \cup StatsSection
  PROVE  Between = IF pc[t] = "insert_after_evict" THEN {t} ELSE {}
<1>1. ASSUME NEW u \in Between PROVE u = t
  BY <1>1 DEF Between, Control, LocksHeld, PutSection
<1> QED  BY <1>1 DEF Between

LEMMA StoredCounts ==
  /\ Stored = Len(cache.order) + Cardinality(Between)
  /\ Between = {} => Cardinality(Between) = 0
  /\ \A t : Between = {t} => Cardinality(Between) = 1
  /\ Stored' = Len(cache'.order) + Cardinality(Between')
  /\ Between' = {} => Cardinality(Between') = 0
  /\ \A t : Between' = {t} => Cardinality(Between') = 1
  BY FS_EmptySet, FS_Singleton DEF Stored, Between

\* A step that leaves the size of the cache alone and has nobody begin or end an
\* insertion.
LEMMA StoredStays ==
  ASSUME Between' = Between, Len(cache'.order) = Len(cache.order)
  PROVE  Stored' = Stored
  BY StoredCounts, Zenon DEF Stored, Between

LEMMA ApiInit == Init => Api!Init
<1> SUFFICES ASSUME Init PROVE Api!Init
  OBVIOUS
<1>1. Phases = [t \in Threads |-> "idle"]
  BY DEF Init, Phases, Phase, GetSection, StatsSection, Searching, PutSection
<1>2. Between = {} /\ Len(cache.order) = 0
  BY DEF Init, Between, Empty
<1>3. Stored = 0
  BY <1>2, StoredCounts
<1> QED  BY <1>1, <1>3 DEF Init, Api!Init, Phases, NoRequest, Api!NoRequest, NoReply, Api!NoReply

\* Every step of a thread is one of the API, or none.
LEMMA ApiStep ==
  ASSUME Control, Control', Data, SizesRead, AnswersAsAsked, [Next]_vars
  PROVE  [Api!Next]_(Api!vars)
<1> DEFINE apivars == <<Phases, request, reply, hits, misses, Stored>>
<1>0. /\ pc \in [Threads -> Labels] /\ WellFormed(cache) /\ Len(cache.order) \in Nat
      /\ cache \in Caches(SearchKeys, Answers) /\ results \in [Threads -> Answers]
      /\ Capacity \in Nat
  BY CacheParts, CapacityAssumption DEF Control, Data, Types
<1>1. ASSUME UNCHANGED apivars PROVE [Api!Next]_(Api!vars)
  BY <1>1 DEF Api!vars, Phases
<1>2. ASSUME NEW t \in Threads, NEW label, Goto(t, label), PhaseAt(label) = PhaseAt(pc[t]),
             UNCHANGED <<request, reply, hits, misses, Stored>>
      PROVE  [Api!Next]_(Api!vars)
  BY <1>1, <1>2, PhaseGoes
<1> HIDE DEF apivars
\* The arrivals.
<1>3. ASSUME NEW t \in Threads, NEW r \in Requests, SearchRefused(t, r) PROVE Api!Next
  <2>1. Phases' = Phases /\ Stored' = Stored /\ Phases[t] = "idle"
    BY <1>3 DEF SearchRefused, Arrives, Phases, Phase, Stored, GetSection, StatsSection,
                Searching, PutSection
  <2>2. Api!Refuse(t, r)
    BY <1>3, <2>1, SameHandling DEF SearchRefused, Api!Refuse, Phases, Refused, Api!Refused
  <2> QED  BY <2>2 DEF Api!Next
<1>4. ASSUME NEW t \in Threads, NEW label \in {"lock_get", "lock_stats"},
             Arrives(t), Goto(t, label), cache' = cache
      PROVE  /\ Phases[t] = "idle" /\ Phases' = [Phases EXCEPT ![t] = PhaseAt(label)]
             /\ Stored' = Stored
  <2>1. Phases[t] = "idle" /\ Phases' = [Phases EXCEPT ![t] = PhaseAt(label)]
    BY <1>4, PhaseGoes DEF Arrives, PhaseAt, GetSection, StatsSection, Searching, PutSection
  <2>2. Between' = Between
    BY <1>0, <1>4 DEF Between, Goto, Arrives
  <2> QED  BY <1>4, <2>1, <2>2, StoredStays
<1>5. ASSUME NEW t \in Threads, NEW r \in Requests, SearchAccepted(t, r) PROVE Api!Next
  <2>1. /\ Phases[t] = "idle" /\ Phases' = [Phases EXCEPT ![t] = "looking"]
        /\ Stored' = Stored
    BY <1>4, <1>5 DEF SearchAccepted, PhaseAt
  <2>2. Api!AskSearch(t, r)
    BY <1>5, <2>1, SameHandling DEF SearchAccepted, Api!AskSearch, Phases
  <2> QED  BY <2>2 DEF Api!Next
<1>6. ASSUME NEW t \in Threads, StatsArrives(t) PROVE Api!Next
  <2>1. /\ Phases[t] = "idle" /\ Phases' = [Phases EXCEPT ![t] = "stats"]
        /\ Stored' = Stored
    BY <1>4, <1>6 DEF StatsArrives, PhaseAt, GetSection, StatsSection, Searching, PutSection
  <2>2. Api!AskStats(t)
    BY <1>6, <2>1 DEF StatsArrives, Api!AskStats, Phases
  <2> QED  BY <2>2 DEF Api!Next
\* The steps nobody outside sees.
<1>7. ASSUME NEW t \in Threads, LockCache(t) \/ GetMiss(t) \/ LockEngine(t) \/ ExecuteSearch(t)
                                  \/ ReadSize(t)
      PROVE  [Api!Next]_(Api!vars)
  <2>1. PICK label : Goto(t, label) /\ PhaseAt(label) = PhaseAt(pc[t])
                       /\ label # "insert_after_evict" /\ pc[t] # "insert_after_evict"
    BY <1>7 DEF LockCache, GetMiss, LockEngine, ExecuteSearch, ReadSize, PhaseAt,
                GetSection, StatsSection, Searching, PutSection
  <2>2. UNCHANGED <<request, reply, hits, misses, cache>>
    BY <1>7 DEF LockCache, GetMiss, LockEngine, ExecuteSearch, ReadSize
  <2>3. Between' = Between
    BY <1>0, <2>1 DEF Between, Goto
  <2> QED  BY <1>2, <2>1, <2>2, <2>3, StoredStays
<1>8. ASSUME NEW t \in Threads, GetHit(t) PROVE [Api!Next]_(Api!vars)
  <2>1. Goto(t, "count_hit") /\ PhaseAt("count_hit") = PhaseAt(pc[t])
    BY <1>8 DEF GetHit, PhaseAt, GetSection
  <2>2. Between' = Between
    BY <1>0, <1>8 DEF GetHit, Between, Goto
  <2>3. Len(cache'.order) = Len(cache.order)
    BY <1>0, <1>8, TouchPreserves DEF GetHit
  <2>4. UNCHANGED <<request, reply, hits, misses>>
    BY <1>8 DEF GetHit
  <2> QED  BY <1>2, <2>1, <2>2, <2>3, <2>4, StoredStays
<1>9. ASSUME NEW t \in Threads, PutEvict(t) PROVE [Api!Next]_(Api!vars)
  <2>1. /\ Goto(t, "insert_after_evict") /\ PhaseAt("insert_after_evict") = PhaseAt(pc[t])
        /\ pc'[t] = "insert_after_evict" /\ pc[t] = "put"
    BY <1>0, <1>9 DEF PutEvict, PhaseAt, Goto, Searching, PutSection, GetSection
  <2>2. Between = {} /\ Between' = {t}
    <3>1. Between = {}
      BY <2>1, BetweenHolds DEF PutSection
    <3> QED  BY <1>0, <2>1, <3>1 DEF Between, Goto
  <2>3. Len(cache'.order) = Len(cache.order) - 1
    BY <1>0, <1>9, ServiceAssumption, EvictPreserves DEF PutEvict
  <2>4. Stored = Len(cache.order) + 0 /\ Stored' = Len(cache'.order) + 1
    BY <2>2, StoredCounts
  <2>5. UNCHANGED <<request, reply, hits, misses>>
    BY <1>9 DEF PutEvict
  <2> QED  BY <1>0, <1>2, <2>1, <2>3, <2>4, <2>5
\* The lookup is counted.
<1>10. ASSUME NEW t \in Threads, CountHit(t) \/ CountMiss(t)
       PROVE  Stored' = Stored /\ Phases[t] = "looking"
  <2>1. Between' = Between
    BY <1>0, <1>10 DEF CountHit, CountMiss, Between, Goto
  <2>2. pc[t] \in GetSection /\ cache' = cache
    BY <1>10 DEF CountHit, CountMiss, GetSection
  <2> QED  BY <2>1, <2>2, StoredStays DEF Phases, Phase
<1>11. ASSUME NEW t \in Threads, CountHit(t) PROVE Api!Next
  <2>1. Phases' = [Phases EXCEPT ![t] = "found"]
    BY <1>11, PhaseGoes DEF CountHit, PhaseAt, GetSection, Searching, PutSection
  <2>2. Api!CountedHit(t)
    BY <1>10, <1>11, <2>1 DEF CountHit, Api!CountedHit, Phases
  <2> QED  BY <2>2 DEF Api!Next
<1>12. ASSUME NEW t \in Threads, CountMiss(t) PROVE Api!Next
  <2>1. Phases' = [Phases EXCEPT ![t] = "searching"]
    BY <1>12, PhaseGoes DEF CountMiss, PhaseAt, GetSection, Searching, PutSection
  <2>2. Api!CountedMiss(t)
    BY <1>10, <1>12, <2>1 DEF CountMiss, Api!CountedMiss, Phases
  <2> QED  BY <2>2 DEF Api!Next
\* The answer is stored: a new entry, or no more than before.
<1>13. ASSUME NEW t \in Threads, PutRefresh(t) \/ PutInsert(t)
       PROVE  /\ Phases[t] = "searching" /\ Phases' = [Phases EXCEPT ![t] = "found"]
              /\ Between' = {} /\ pc[t] \in PutSection
              /\ UNCHANGED <<request, reply, hits, misses>>
  <2>1. pc[t] \in PutSection /\ Goto(t, "respond") /\ cache_mutex' = NoThread
    BY <1>13 DEF PutRefresh, PutInsert, PutDone, Release, PutSection
  <2>2. Phases[t] = "searching" /\ Phases' = [Phases EXCEPT ![t] = "found"]
    BY <2>1, PhaseGoes DEF PhaseAt, Searching, PutSection, GetSection
  <2>3. Between' = {}
    BY <2>1, ServiceAssumption DEF Between, Control, LocksHeld, PutSection
  <2>4. UNCHANGED <<request, reply, hits, misses>>
    BY <1>13 DEF PutRefresh, PutInsert
  <2> QED  BY <2>1, <2>2, <2>3, <2>4
<1>14. ASSUME NEW t \in Threads, PutRefresh(t) \/ PutInsert(t),
              Stored' \in {Stored} \cup ({Stored + 1} \cap 0..Capacity)
       PROVE  Api!Next
  <2>1. Api!Remembered(t)
    BY <1>13, <1>14 DEF Api!Remembered, Phases
  <2> QED  BY <2>1 DEF Api!Next
<1>15. ASSUME NEW t \in Threads, PutRefresh(t) PROVE Api!Next
  <2>1. Between = {} /\ Between' = {}
    BY <1>13, <1>15, BetweenHolds DEF PutRefresh, PutSection
  <2>2. Len(cache'.order) = Len(cache.order)
    BY <1>0, <1>15, RefreshPreserves DEF PutRefresh, Present
  <2> QED  BY <1>14, <1>15, <2>1, <2>2, StoredStays
<1>16. ASSUME NEW t \in Threads, PutInsert(t) PROVE Api!Next
  <2>1. results[t] \in Answers /\ Key(t) \in SearchKeys
    BY <1>0, <1>16, AcceptedRequest
       DEF PutInsert, Data, Types, RequestsChecked, Serving, Searching, PutSection, Key
  <2>2. ~Has(cache, Key(t)) /\ Len(cache.order) < Capacity
    BY <1>0, <1>16 DEF PutInsert, Present, Full, Data, RoomLeft
  <2>3. cache' = Insert(cache, Key(t), results[t])
    BY <1>16 DEF PutInsert
  <2>4. Len(cache'.order) = Len(cache.order) + 1
    BY <1>0, <2>1, <2>2, <2>3, InsertPreserves DEF WellFormed
  <2>5. Stored' = Len(cache'.order) + 0
    BY <1>13, <1>16, StoredCounts
  <2>6. CASE pc[t] = "insert_after_evict"
    <3>1. Between = {t}
      BY <2>6, BetweenHolds DEF PutSection
    <3>2. Stored = Len(cache.order) + 1
      BY <3>1, StoredCounts
    <3> QED  BY <1>0, <1>14, <1>16, <2>4, <2>5, <3>2
  <2>7. CASE pc[t] # "insert_after_evict"
    <3>1. Between = {}
      BY <1>13, <1>16, <2>7, BetweenHolds
    <3>2. Stored = Len(cache.order) + 0
      BY <3>1, StoredCounts
    <3>3. Stored' = Stored + 1 /\ Stored + 1 \in 0..Capacity
      BY <1>0, <2>2, <2>4, <2>5, <3>2
    <3> QED  BY <1>14, <1>16, <3>3
  <2> QED  BY <2>6, <2>7
\* The responses.
<1>17. ASSUME NEW t \in Threads, Respond(t) PROVE Api!Next
  <2>1. Phases[t] = "found" /\ Phases' = [Phases EXCEPT ![t] = "idle"]
    BY <1>17, PhaseGoes DEF Respond, PhaseAt, GetSection, Searching, PutSection, StatsSection
  <2>2. Between' = Between /\ cache' = cache
    BY <1>0, <1>17 DEF Respond, Between, Goto
  <2>3. Stored' = Stored
    BY <2>2, StoredStays
  <2>4. results[t] = Search[AsAsked(request[t])]
    BY <1>17 DEF Respond, AnswersAsAsked
  <2>5. Found(results[t]) = Api!Found(Search[Api!AsAsked(request[t])])
    BY <2>4, SameHandling DEF Found, Api!Found
  <2>6. Api!Answer(t)
    BY <1>17, <2>1, <2>3, <2>5 DEF Respond, Api!Answer, Phases
  <2> QED  BY <2>6 DEF Api!Next
<1>18. ASSUME NEW t \in Threads, ReadCounters(t) PROVE Api!Next
  <2>1. Phases[t] = "stats" /\ Phases' = [Phases EXCEPT ![t] = "idle"]
    BY <1>18, PhaseGoes DEF ReadCounters, PhaseAt, GetSection, Searching, PutSection, StatsSection
  <2>2. Between' = Between /\ cache' = cache
    BY <1>0, <1>18 DEF ReadCounters, Between, Goto
  <2>3. Stored' = Stored
    BY <2>2, StoredStays
  <2>4. Between = {}
    BY <1>18, BetweenHolds DEF ReadCounters, StatsSection
  <2>5. cache_size[t] = Stored
    <3>1. Stored = Len(cache.order) + 0
      BY <2>4, StoredCounts
    <3>2. cache_size[t] = Len(cache.order)
      BY <1>18 DEF ReadCounters, SizesRead
    <3> QED  BY <1>0, <3>1, <3>2
  <2>6. Api!ReportStats(t)
    BY <1>18, <2>1, <2>3, <2>5
       DEF ReadCounters, Api!ReportStats, Phases, Counters, Api!Counters
  <2> QED  BY <2>6 DEF Api!Next
<1>19. CASE UNCHANGED vars
  <2>1. UNCHANGED apivars
    BY <1>19 DEF vars, apivars, Phases, Phase, Stored
  <2> QED  BY <1>1, <2>1 DEF apivars
<1> QED
  BY <1>3, <1>5, <1>6, <1>7, <1>8, <1>9, <1>11, <1>12, <1>15, <1>16, <1>17, <1>18, <1>19
     DEF Next, Handler, Waiting

\* What the clients see of the threads, the cache and the mutexes is what the API
\* promises: each search is answered for the words, the limit and the offset sent,
\* counted once before its answer, and /stats reports three numbers of one instant.
THEOREM ServiceImplementsApi == Spec => ImplementsApi
  BY ApiInit, ApiStep, ControlInvariant, DataInvariant, SizesStayRead,
     ClientsGetTheirAnswers, PTL DEF Spec, ImplementsApi, Api!Spec
=============================================================================
