---------------------------- MODULE LRUCacheUse ----------------------------
(***************************************************************************)
(* Any use of one LRUCache by one thread, get and put called in any order, *)
(* and what it has to do with LRUPolicy.                                   *)
(***************************************************************************)
EXTENDS LRUCache, SequencesExt

CONSTANTS Keys, Values

VARIABLES
  cache,
  got,       \* what the last get returned, an optional value
  used       \* history: the entries ever put, the last use first

vars == <<cache, got, used>>

LastUse(e) ==
  \/ \E i \in DOMAIN used : used[i].key = e.key /\ used' = <<e>> \o RemoveAt(used, i)
  \/ (\A i \in DOMAIN used : used[i].key # e.key) /\ used' = <<e>> \o used

Init == cache = Empty /\ got = {} /\ used = << >>

Get(k) ==
  IF Has(cache, k)
  THEN /\ got' = {ValueOf(cache, k)}
       /\ cache' = Touch(cache, k)
       /\ LastUse([key |-> k, value |-> ValueOf(cache, k)])
  ELSE got' = {} /\ UNCHANGED <<cache, used>>

Store(k, v) ==
  /\ cache' = Put(cache, k, v)
  /\ LastUse([key |-> k, value |-> v])
  /\ UNCHANGED got

Next == \E k \in Keys : Get(k) \/ \E v \in Values : Store(k, v)

Spec == Init /\ [][Next]_vars

-----------------------------------------------------------------------------
\* The cache is a cache, and the history has each key once.
TypeOK ==
  /\ cache \in Caches(Keys, Values)
  /\ WellFormed(cache)
  /\ used \in Seq(Nodes(Keys, Values))
  /\ \A i, j \in DOMAIN used : used[i].key = used[j].key => i = j

\* The list holds exactly the entries used last, in the order of their use: an
\* eviction takes the entry that has gone unused the longest, and no other way
\* leads out of the cache.
HoldsTheLastUsed ==
  cache.order =
    SubSeq(used, 1, IF Len(used) <= Capacity THEN Len(used) ELSE Capacity)

\* get and put are those of an LRU cache.
Policy == INSTANCE LRUPolicy

ImplementsPolicy == Policy!Spec
=============================================================================
