--------------------------- MODULE LRUCacheProofs ---------------------------
(***************************************************************************)
(* What the operations of LRUCache preserve, for every key and value set,  *)
(* every capacity and every cache.  A client cites these lemmas and never  *)
(* looks inside a list.                                                    *)
(***************************************************************************)
EXTENDS LRUCache, Integers, TLAPS

Entries(s) == {s[i] : i \in DOMAIN s}

\* No key twice in a list.
DistinctKeys(s) == \A i, j \in DOMAIN s : s[i].key = s[j].key => i = j

\* In a consistent cache the iterator of a key that is present points to a node
\* with that key.
LEMMA NodeFound ==
  ASSUME NEW c, Consistent(c), NEW k, Has(c, k)
  PROVE  Node(c, k) \in DOMAIN c.order /\ c.order[Node(c, k)].key = k
  BY DEF Consistent, KeysOf, Has, Node

\* Splicing a node to the front permutes the list: same length, same entries,
\* no key twice if there was none, and the node is in front.
LEMMA MoveToFrontPermutes ==
  ASSUME NEW S, NEW s \in Seq(S), NEW n \in DOMAIN s
  PROVE  /\ MoveToFront(s, n) \in Seq(S)
         /\ Len(MoveToFront(s, n)) = Len(s)
         /\ MoveToFront(s, n)[1] = s[n]
         /\ Entries(MoveToFront(s, n)) = Entries(s)
         /\ DistinctKeys(s) => DistinctKeys(MoveToFront(s, n))
<1> DEFINE m == MoveToFront(s, n)
           from(j) == IF j = 1 THEN n ELSE IF j <= n THEN j - 1 ELSE j
           to(i) == IF i = n THEN 1 ELSE IF i < n THEN i + 1 ELSE i
<1>1. Len(s) \in Nat /\ DOMAIN s = 1..Len(s) /\ n \in 1..Len(s) /\ 1 \in 1..Len(s)
  OBVIOUS
<1>2. \A j \in 1..Len(s) : from(j) \in 1..Len(s) /\ to(from(j)) = j
  BY <1>1
<1>3. \A i \in 1..Len(s) : to(i) \in 1..Len(s) /\ from(to(i)) = i
  BY <1>1
<1>4. m = [j \in 1..Len(s) |-> s[from(j)]]
  <2>1. \A j \in 1..Len(s) :
          s[from(j)] = IF j = 1 THEN s[n] ELSE IF j <= n THEN s[j - 1] ELSE s[j]
    OBVIOUS
  <2> QED  BY <1>1, <2>1 DEF MoveToFront
<1> HIDE DEF m, from, to
<1>5. m \in Seq(S) /\ Len(m) = Len(s) /\ DOMAIN m = 1..Len(s)
  BY <1>1, <1>2, <1>4, SMTT(30)
<1>6. m[1] = s[n]
  BY <1>1, <1>4 DEF from
<1>7. Entries(m) = Entries(s)
  <2>1. ASSUME NEW j \in DOMAIN m PROVE m[j] \in Entries(s)
    BY <1>1, <1>2, <1>4, <1>5 DEF Entries
  <2>2. ASSUME NEW i \in DOMAIN s PROVE s[i] \in Entries(m)
    <3>1. m[to(i)] = s[i]
      BY <1>1, <1>3, <1>4
    <3> QED  BY <1>1, <1>3, <1>5, <3>1 DEF Entries
  <2> QED  BY <2>1, <2>2 DEF Entries
<1>8. ASSUME DistinctKeys(s) PROVE DistinctKeys(m)
  <2> SUFFICES ASSUME NEW i \in DOMAIN m, NEW j \in DOMAIN m, m[i].key = m[j].key
               PROVE  i = j
    BY DEF DistinctKeys
  <2>1. from(i) = from(j)
    BY <1>1, <1>2, <1>4, <1>5, <1>8 DEF DistinctKeys
  <2> QED  BY <1>1, <1>2, <1>5, <2>1
<1> QED  BY <1>5, <1>6, <1>7, <1>8 DEF m

-----------------------------------------------------------------------------
\* The parts of a cache value.
LEMMA CacheParts ==
  ASSUME NEW Keys, NEW Values, NEW c \in Caches(Keys, Values)
  PROVE  /\ c.order \in Seq(Nodes(Keys, Values)) /\ c.items \in SUBSET Keys
         /\ Len(c.order) \in Nat /\ DOMAIN c.order = 1..Len(c.order)
         /\ \A i \in DOMAIN c.order : c.order[i] \in Nodes(Keys, Values)
<1>1. c.order \in Seq(Nodes(Keys, Values)) /\ c.items \in SUBSET Keys
  BY DEF Caches
<1> QED  BY <1>1

LEMMA CacheOf ==
  ASSUME NEW Keys, NEW Values, NEW s \in Seq(Nodes(Keys, Values)),
         NEW I \in SUBSET Keys
  PROVE  [order |-> s, items |-> I] \in Caches(Keys, Values)
  BY DEF Caches

\* Consistent in terms of the list alone.
LEMMA ConsistentKeys ==
  ASSUME NEW c
  PROVE  Consistent(c) <=> c.items = KeysOf(c.order) /\ DistinctKeys(c.order)
  BY DEF Consistent, DistinctKeys

\* The keys of a list are those of its entries.
LEMMA KeysOfEntries ==
  ASSUME NEW s PROVE KeysOf(s) = {e.key : e \in Entries(s)}
  BY DEF KeysOf, Entries

\* get of a present key: nothing but the order changes.
LEMMA TouchPreserves ==
  ASSUME NEW Keys, NEW Values, NEW c \in Caches(Keys, Values), WellFormed(c),
         NEW k, Has(c, k)
  PROVE  /\ Touch(c, k) \in Caches(Keys, Values)
         /\ WellFormed(Touch(c, k))
         /\ Entries(Touch(c, k).order) = Entries(c.order)
         /\ Len(Touch(c, k).order) = Len(c.order)
<1> DEFINE S == Nodes(Keys, Values)
           n == Node(c, k)
           m == MoveToFront(c.order, n)
<1>1. c.order \in Seq(S) /\ c.items \in SUBSET Keys
  BY CacheParts
<1>2. n \in DOMAIN c.order
  BY NodeFound DEF WellFormed
<1>3. /\ m \in Seq(S) /\ Len(m) = Len(c.order)
      /\ Entries(m) = Entries(c.order)
      /\ DistinctKeys(c.order) => DistinctKeys(m)
  BY <1>1, <1>2, MoveToFrontPermutes
<1>4. Touch(c, k) = [order |-> m, items |-> c.items]
  BY DEF Touch
<1>5. KeysOf(m) = KeysOf(c.order)
  BY <1>3, KeysOfEntries
<1> HIDE DEF m, n
<1>6. Consistent(Touch(c, k))
  BY <1>3, <1>4, <1>5, ConsistentKeys DEF WellFormed
<1> QED  BY <1>1, <1>3, <1>4, <1>6, CacheOf DEF WellFormed

\* The value get returns is that of an entry with the key.
LEMMA ValueOfEntry ==
  ASSUME NEW Keys, NEW Values, NEW c \in Caches(Keys, Values), WellFormed(c),
         NEW k, Has(c, k)
  PROVE  [key |-> k, value |-> ValueOf(c, k)] \in Entries(c.order)
<1>1. Node(c, k) \in DOMAIN c.order /\ c.order[Node(c, k)].key = k
  BY NodeFound DEF WellFormed
<1>2. c.order[Node(c, k)] \in Nodes(Keys, Values)
  BY <1>1, CacheParts
<1> QED  BY <1>1, <1>2 DEF ValueOf, Entries, Nodes

\* put of a present key: the same keys, and the key's entry is the new one.
LEMMA RefreshPreserves ==
  ASSUME NEW Keys, NEW Values, NEW c \in Caches(Keys, Values), WellFormed(c),
         NEW k, Has(c, k), NEW v \in Values
  PROVE  /\ Refresh(c, k, v) \in Caches(Keys, Values)
         /\ WellFormed(Refresh(c, k, v))
         /\ Entries(Refresh(c, k, v).order)
              \subseteq Entries(c.order) \cup {[key |-> k, value |-> v]}
         /\ Len(Refresh(c, k, v).order) = Len(c.order)
<1> DEFINE S == Nodes(Keys, Values)
           n == Node(c, k)
           e == [key |-> k, value |-> v]
           r == [c.order EXCEPT ![n] = e]
           m == MoveToFront(r, n)
<1>1. c.order \in Seq(S) /\ c.items \in SUBSET Keys
  BY CacheParts
<1>2. n \in DOMAIN c.order /\ c.order[n].key = k
  BY NodeFound DEF WellFormed
<1>3. e \in S
  BY <1>1, <1>2, CacheParts DEF Nodes
<1>4. /\ r \in Seq(S) /\ Len(r) = Len(c.order) /\ DOMAIN r = DOMAIN c.order
      /\ \A i \in DOMAIN r : r[i] = IF i = n THEN e ELSE c.order[i]
  BY <1>1, <1>2, <1>3
<1> HIDE DEF n, r, e
<1>5. \A i \in DOMAIN r : r[i].key = c.order[i].key
  BY <1>2, <1>4 DEF e
<1>6. KeysOf(r) = KeysOf(c.order) /\ (DistinctKeys(c.order) => DistinctKeys(r))
  BY <1>4, <1>5 DEF KeysOf, DistinctKeys
<1>7. Entries(r) \subseteq Entries(c.order) \cup {e}
  BY <1>4 DEF Entries
<1>8. /\ m \in Seq(S) /\ Len(m) = Len(r) /\ Entries(m) = Entries(r)
      /\ DistinctKeys(r) => DistinctKeys(m)
  BY <1>2, <1>4, MoveToFrontPermutes
<1>9. KeysOf(m) = KeysOf(r)
  BY <1>8, KeysOfEntries
<1>10. Refresh(c, k, v) = [order |-> m, items |-> c.items]
  BY DEF Refresh, m, r, n, e
<1> HIDE DEF m
<1>11. Consistent(Refresh(c, k, v))
  BY <1>6, <1>8, <1>9, <1>10, ConsistentKeys DEF WellFormed
<1> QED  BY <1>1, <1>4, <1>7, <1>8, <1>10, <1>11, CacheOf DEF WellFormed, e

\* The eviction of a full cache: the last entry goes, from both parts.
LEMMA EvictPreserves ==
  ASSUME NEW Keys, NEW Values, NEW c \in Caches(Keys, Values), WellFormed(c),
         Full(c), Capacity > 0
  PROVE  /\ Evict(c) \in Caches(Keys, Values)
         /\ Consistent(Evict(c))
         /\ Entries(Evict(c).order) \subseteq Entries(c.order)
         /\ Evict(c).items \subseteq c.items
         /\ Len(Evict(c).order) = Len(c.order) - 1
         /\ Len(Evict(c).order) < Capacity
<1> DEFINE S == Nodes(Keys, Values)
           last == Len(c.order)
           m == SubSeq(c.order, 1, last - 1)
<1>1. c.order \in Seq(S) /\ c.items \in SUBSET Keys
  BY CacheParts
<1>2. last \in Nat /\ last > 0 /\ last = Capacity /\ DOMAIN c.order = 1..last
  BY <1>1, CacheParts, CapacityAssumption DEF Full, WellFormed
<1>3. /\ m \in Seq(S) /\ Len(m) = last - 1 /\ DOMAIN m = 1..(last - 1)
      /\ \A i \in 1..(last - 1) : m[i] = c.order[i]
  BY <1>1, <1>2
<1>4. Evict(c) = [order |-> m, items |-> c.items \ {c.order[last].key}]
  BY DEF Evict
<1> HIDE DEF m, last
<1>5. DistinctKeys(m) /\ Entries(m) \subseteq Entries(c.order)
  BY <1>2, <1>3, SMTT(30) DEF WellFormed, Consistent, DistinctKeys, Entries
<1>6. KeysOf(m) = c.items \ {c.order[last].key}
  <2>1. c.items = {c.order[i].key : i \in 1..last}
    BY <1>2 DEF WellFormed, Consistent, KeysOf
  <2>2. \A i \in 1..last : c.order[i].key = c.order[last].key => i = last
    BY <1>2 DEF WellFormed, Consistent
  <2>3. KeysOf(m) = {c.order[i].key : i \in 1..(last - 1)}
    BY <1>3 DEF KeysOf
  <2>4. \A i \in 1..(last - 1) : i \in 1..last /\ i # last
    BY <1>2
  <2>5. \A i \in 1..last : i = last \/ i \in 1..(last - 1)
    BY <1>2
  <2> QED  BY <2>1, <2>2, <2>3, <2>4, <2>5
<1>7. Consistent(Evict(c))
  BY <1>4, <1>5, <1>6, ConsistentKeys
<1> QED  BY <1>1, <1>2, <1>3, <1>4, <1>5, <1>7, CacheOf DEF last

\* The insertion of an absent key: one entry more, the new one.
LEMMA InsertPreserves ==
  ASSUME NEW Keys, NEW Values, NEW c \in Caches(Keys, Values), Consistent(c),
         Len(c.order) < Capacity,
         NEW k \in Keys, ~Has(c, k), NEW v \in Values
  PROVE  /\ Insert(c, k, v) \in Caches(Keys, Values)
         /\ WellFormed(Insert(c, k, v))
         /\ Entries(Insert(c, k, v).order)
              \subseteq Entries(c.order) \cup {[key |-> k, value |-> v]}
         /\ Len(Insert(c, k, v).order) = Len(c.order) + 1
<1> DEFINE S == Nodes(Keys, Values)
           e == [key |-> k, value |-> v]
           m == <<e>> \o c.order
<1>1. c.order \in Seq(S) /\ c.items \in SUBSET Keys 
      /\ Len(c.order) \in Nat /\ DOMAIN c.order = 1..Len(c.order)
  BY CacheParts
<1>2. /\ m \in Seq(S) /\ Len(m) = Len(c.order) + 1
      /\ DOMAIN m = 1..(Len(c.order) + 1) /\ m[1] = e
      /\ \A i \in 2..(Len(c.order) + 1) : m[i] = c.order[i - 1]
  <2>1. e \in S
    BY DEF Nodes
  <2> HIDE DEF e, S
  <2> QED  BY <1>1, <2>1
<1>3. Insert(c, k, v) = [order |-> m, items |-> c.items \cup {k}]
  BY DEF Insert
<1> HIDE DEF m, e, S
<1>4. \A i \in 2..(Len(c.order) + 1) : i - 1 \in DOMAIN c.order
  BY <1>1
<1>5. \A i \in DOMAIN c.order : i + 1 \in 2..(Len(c.order) + 1) /\ m[i + 1] = c.order[i]
  BY <1>1, <1>2
<1>6. Entries(m) = Entries(c.order) \cup {e}
  <2>1. \A i \in DOMAIN m : m[i] \in Entries(c.order) \cup {e}
    <3> SUFFICES ASSUME NEW i \in DOMAIN m PROVE m[i] \in Entries(c.order) \cup {e}
      OBVIOUS
    <3>1. CASE i = 1
      BY <1>2, <3>1
    <3>2. CASE i # 1
      <4>1. i \in 2..(Len(c.order) + 1)
        BY <1>1, <1>2, <3>2
      <4> QED  BY <1>2, <1>4, <4>1 DEF Entries
    <3> QED  BY <3>1, <3>2
  <2>2. \A i \in DOMAIN c.order : c.order[i] \in Entries(m)
    BY <1>1, <1>2, <1>5 DEF Entries
  <2>3. e \in Entries(m)
    BY <1>1, <1>2 DEF Entries
  <2> QED  BY <2>1, <2>2, <2>3 DEF Entries
<1>7. KeysOf(m) = c.items \cup {k}
  <2>1. c.items = {x.key : x \in Entries(c.order)}
    BY KeysOfEntries DEF Consistent
  <2>2. KeysOf(m) = {x.key : x \in Entries(c.order) \cup {e}}
    BY <1>6, KeysOfEntries
  <2>3. e.key = k
    BY DEF e
  <2> QED  BY <2>1, <2>2, <2>3
<1>8. DistinctKeys(m)
  <2>1. \A i \in DOMAIN c.order : c.order[i].key # k
    BY DEF Consistent, Has, KeysOf
  <2> SUFFICES ASSUME NEW i \in DOMAIN m, NEW j \in DOMAIN m, m[i].key = m[j].key
               PROVE  i = j
    BY DEF DistinctKeys
  <2>2. m[1].key = k
    BY <1>2 DEF e
  <2>3. \A x \in DOMAIN m : x # 1 => x \in 2..(Len(c.order) + 1)
    BY <1>1, <1>2
  <2>4. \A x \in 2..(Len(c.order) + 1) : m[x].key # k
    BY <1>2, <1>4, <2>1
  <2>5. CASE i = 1 \/ j = 1
    BY <2>2, <2>3, <2>4, <2>5
  <2>6. CASE i # 1 /\ j # 1
    <3>1. i \in 2..(Len(c.order) + 1) /\ j \in 2..(Len(c.order) + 1)
      BY <2>3, <2>6
    <3>2. c.order[i - 1].key = c.order[j - 1].key
      BY <1>2, <3>1
    <3>3. i - 1 = j - 1
      BY <1>4, <3>1, <3>2 DEF Consistent
    <3> QED  BY <3>1, <3>3
  <2> QED  BY <2>5, <2>6
<1>9. Consistent(Insert(c, k, v))
  <2>1. Insert(c, k, v).order = m /\ Insert(c, k, v).items = c.items \cup {k}
    BY <1>3
  <2> QED  BY <1>7, <1>8, <2>1, ConsistentKeys
<1> QED  BY <1>1, <1>2, <1>3, <1>6, <1>9, CacheOf, CapacityAssumption DEF WellFormed, e, S

\* put as a whole keeps a cache well formed, whatever its capacity.
THEOREM PutKeepsWellFormed ==
  ASSUME NEW Keys, NEW Values, NEW c \in Caches(Keys, Values), WellFormed(c),
         NEW k \in Keys, NEW v \in Values
  PROVE  Put(c, k, v) \in Caches(Keys, Values) /\ WellFormed(Put(c, k, v))
<1>1. Len(c.order) \in Nat /\ Capacity \in Nat
  BY CacheParts, CapacityAssumption
<1>2. CASE Capacity = 0
  BY <1>2 DEF Put
<1>3. CASE Capacity # 0 /\ Has(c, k)
  BY <1>3, RefreshPreserves DEF Put
<1>4. CASE Capacity # 0 /\ ~Has(c, k) /\ Full(c)
  <2>1. ~Has(Evict(c), k)
    BY <1>1, <1>4, EvictPreserves DEF Has
  <2> QED  BY <1>1, <1>4, <2>1, EvictPreserves, InsertPreserves DEF Put
<1>5. CASE Capacity # 0 /\ ~Has(c, k) /\ ~Full(c)
  BY <1>1, <1>5, InsertPreserves DEF Put, Full, WellFormed
<1> QED  BY <1>2, <1>3, <1>4, <1>5
=============================================================================
