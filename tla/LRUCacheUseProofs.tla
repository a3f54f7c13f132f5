-------------------------- MODULE LRUCacheUseProofs --------------------------
(***************************************************************************)
(* For any keys, values and capacity, 0 included: the list and the map of  *)
(* LRUCache hold exactly the entries used last, in the order of their use, *)
(* and get and put are those of LRUPolicy.                                 *)
(***************************************************************************)
EXTENDS LRUCacheUse, LRUCacheProofs

Entry == Nodes(Keys, Values)

\* How many entries are in the cache.
Held(u) == IF Len(u) <= Capacity THEN Len(u) ELSE Capacity

-----------------------------------------------------------------------------
(* Lists.                                                                  *)

\* The entry of a place moves to the front with a new value: the same as taking it
\* out and putting the new one in front.
LEMMA RenewedInFront ==
  ASSUME NEW S, NEW u \in Seq(S), NEW i \in DOMAIN u, NEW e \in S
  PROVE  <<e>> \o RemoveAt(u, i) = MoveToFront([u EXCEPT ![i] = e], i)
<1> DEFINE n == Len(u)
           h == SubSeq(u, 1, i - 1)
           t == SubSeq(u, i + 1, n)
           v == <<e>> \o (h \o t)
<1>1. n \in Nat /\ i \in 1..n /\ DOMAIN u = 1..n
  OBVIOUS
<1>2. h \in Seq(S) /\ Len(h) = i - 1 /\ \A j \in 1..i - 1 : h[j] = u[j]
  BY <1>1
<1>3. t \in Seq(S) /\ Len(t) = n - i /\ \A j \in 1..n - i : t[j] = u[i + j]
  BY <1>1
<1>4. RemoveAt(u, i) = h \o t
  BY DEF RemoveAt
<1> HIDE DEF h, t, n
<1>5. h \o t \in Seq(S) /\ Len(h \o t) = n - 1
  <2> HIDE DEF v
  <2>0. h \in Seq(S) /\ t \in Seq(S)
    BY <1>2, <1>3
  <2>1. h \o t \in Seq(S) /\ Len(h \o t) = Len(h) + Len(t)
    BY <2>0
  <2>2. (i - 1) + (n - i) = n - 1
    BY <1>1
  <2> QED  BY <1>2, <1>3, <2>1, <2>2
<1>6. v \in Seq(S) /\ Len(v) = n /\ DOMAIN v = 1..n /\ v[1] = e
  BY <1>1, <1>5
<1>7. ASSUME NEW j \in 1..n
      PROVE  v[j] = IF j = 1 THEN e ELSE IF j <= i THEN u[j - 1] ELSE u[j]
  <2>1. CASE j = 1
    BY <1>6, <2>1
  <2>2. CASE j # 1 /\ j <= i
    <3>1. j - 1 \in 1..i - 1 /\ j - 1 \in 1..n - 1
      BY <1>1, <2>2
    <3>2. v[j] = (h \o t)[j - 1]
      BY <1>1, <1>5, <2>2, <3>1
    <3>3. (h \o t)[j - 1] = h[j - 1]
      BY <1>2, <1>3, <3>1
    <3> QED  BY <1>2, <2>2, <3>1, <3>2, <3>3
  <2>3. CASE ~(j <= i)
    <3>1. j - i \in 1..n - i /\ i + (j - i) = j /\ j # 1 /\ j - 1 \in 1..n - 1
      BY <1>1, <2>3
    <3>2. v[j] = (h \o t)[j - 1]
      BY <1>1, <1>5, <3>1
    <3>3. (h \o t)[j - 1] = t[j - i]
      BY <1>1, <1>2, <1>3, <2>3, <3>1, SMTT(30)
    <3> QED  BY <1>3, <2>3, <3>1, <3>2, <3>3
  <2> QED  BY <2>1, <2>2, <2>3
<1>8. MoveToFront([u EXCEPT ![i] = e], i) =
        [j \in 1..n |-> IF j = 1 THEN e ELSE IF j <= i THEN u[j - 1] ELSE u[j]]
  <2> DEFINE r == [u EXCEPT ![i] = e]
  <2>1. DOMAIN r = 1..n /\ \A j \in 1..n : r[j] = IF j = i THEN e ELSE u[j]
    BY <1>1
  <2> HIDE DEF r
  <2>2. \A j \in 1..n :
          (IF j = 1 THEN r[i] ELSE IF j <= i THEN r[j - 1] ELSE r[j])
            = IF j = 1 THEN e ELSE IF j <= i THEN u[j - 1] ELSE u[j]
    BY <1>1, <2>1
  <2>3. MoveToFront(r, i) = [j \in 1..n |-> IF j = 1 THEN r[i] ELSE IF j <= i THEN r[j - 1] ELSE r[j]]
    BY <2>1 DEF MoveToFront
  <2> QED  BY <2>2, <2>3 DEF r
<1>9. v = [j \in 1..n |-> v[j]]
  BY <1>6
<1> HIDE DEF v
<1>10. v = MoveToFront([u EXCEPT ![i] = e], i)
  BY <1>7, <1>8, <1>9
<1> QED  BY <1>4, <1>10 DEF v

\* The places of a list with an entry renewed in front.
LEMMA PlacesInFront ==
  ASSUME NEW S, NEW u \in Seq(S), NEW i \in DOMAIN u, NEW e \in S
  PROVE  LET v == MoveToFront([u EXCEPT ![i] = e], i)
         IN  /\ v \in Seq(S) /\ Len(v) = Len(u)
             /\ \A j \in 1..Len(u) : v[j] = IF j = 1 THEN e ELSE IF j <= i THEN u[j - 1] ELSE u[j]
             /\ DistinctKeys(u) /\ u[i].key = e.key => DistinctKeys(v)
<1> DEFINE r == [u EXCEPT ![i] = e]
           v == MoveToFront(r, i)
<1>1. /\ r \in Seq(S) /\ Len(r) = Len(u) /\ DOMAIN r = 1..Len(u) /\ Len(u) \in Nat
      /\ i \in 1..Len(u) /\ \A j \in 1..Len(u) : r[j] = IF j = i THEN e ELSE u[j]
  OBVIOUS
<1> HIDE DEF r
<1>2. v = MoveToFront(r, i)
  OBVIOUS
<1> HIDE DEF v
<1>3. v \in Seq(S) /\ Len(v) = Len(r) /\ (DistinctKeys(r) => DistinctKeys(v))
  BY <1>1, <1>2, MoveToFrontPermutes
<1>4. DistinctKeys(u) /\ u[i].key = e.key => DistinctKeys(r)
  BY <1>1 DEF DistinctKeys
<1>5. \A j \in 1..Len(u) : v[j] = IF j = 1 THEN e ELSE IF j <= i THEN u[j - 1] ELSE u[j]
  BY <1>1, <1>2 DEF MoveToFront
<1> QED  BY <1>1, <1>3, <1>4, <1>5 DEF v, r

\* A new entry in front.
LEMMA PlacesBehind ==
  ASSUME NEW S, NEW u \in Seq(S), NEW e \in S
  PROVE  /\ <<e>> \o u \in Seq(S) /\ Len(<<e>> \o u) = Len(u) + 1
         /\ \A j \in 1..Len(u) + 1 : (<<e>> \o u)[j] = IF j = 1 THEN e ELSE u[j - 1]
         /\ DistinctKeys(u) /\ (\A j \in DOMAIN u : u[j].key # e.key)
              => DistinctKeys(<<e>> \o u)
<1> DEFINE v == <<e>> \o u
<1>1. v \in Seq(S) /\ Len(v) = Len(u) + 1 /\ Len(u) \in Nat /\ DOMAIN v = 1..Len(u) + 1
  OBVIOUS
<1>2. \A j \in 1..Len(u) + 1 : v[j] = IF j = 1 THEN e ELSE u[j - 1]
  OBVIOUS
<1> HIDE DEF v
<1>3. ASSUME DistinctKeys(u), \A j \in DOMAIN u : u[j].key # e.key,
             NEW j \in DOMAIN v, NEW k \in DOMAIN v, v[j].key = v[k].key
      PROVE  j = k
  <2>1. CASE j = 1 \/ k = 1
    <3>1. \A x \in DOMAIN v : x # 1 => x - 1 \in DOMAIN u /\ v[x] = u[x - 1]
      BY <1>1, <1>2
    <3>2. v[1] = e
      BY <1>1, <1>2
    <3> QED  BY <1>3, <2>1, <3>1, <3>2
  <2>2. CASE j # 1 /\ k # 1
    <3>1. j - 1 \in DOMAIN u /\ k - 1 \in DOMAIN u /\ u[j - 1].key = u[k - 1].key
      BY <1>1, <1>2, <1>3, <2>2
    <3>2. j - 1 = k - 1
      BY <1>3, <3>1 DEF DistinctKeys
    <3> QED  BY <1>1, <3>2
  <2> QED  BY <2>1, <2>2
<1> QED  BY <1>1, <1>2, <1>3 DEF v, DistinctKeys

\* The beginning of a list.
LEMMA Shortened ==
  ASSUME NEW S, NEW s \in Seq(S), NEW k \in Nat, k <= Len(s)
  PROVE  /\ SubSeq(s, 1, k) \in Seq(S) /\ Len(SubSeq(s, 1, k)) = k
         /\ \A j \in 1..k : SubSeq(s, 1, k)[j] = s[j]
  OBVIOUS

\* A list is the beginning of another if it has the same entries at its places.
LEMMA BeginningOf ==
  ASSUME NEW S, NEW u \in Seq(S), NEW o \in Seq(S), Len(o) = Held(u),
         \A j \in 1..Len(o) : o[j] = u[j]
  PROVE  o = SubSeq(u, 1, Held(u))
<1>1. Len(u) \in Nat /\ Len(o) \in Nat /\ Len(o) <= Len(u)
  BY CapacityAssumption DEF Held
<1>2. SubSeq(u, 1, Held(u)) = [j \in 1..Len(o) |-> u[j]]
  BY <1>1
<1>3. o = [j \in 1..Len(o) |-> o[j]]
  OBVIOUS
<1> QED  BY <1>2, <1>3

-----------------------------------------------------------------------------
(* The cache and its history.                                              *)

Inv == TypeOK /\ HoldsTheLastUsed

\* What Inv says of the list, place by place.
LEMMA InvParts ==
  ASSUME Inv
  PROVE  /\ cache \in Caches(Keys, Values) /\ WellFormed(cache)
         /\ used \in Seq(Entry) /\ DistinctKeys(used)
         /\ cache.order \in Seq(Entry) /\ cache.items = KeysOf(cache.order)
         /\ Len(cache.order) = Held(used)
         /\ \A j \in 1..Held(used) : cache.order[j] = used[j]
         /\ Held(used) \in Nat /\ Held(used) <= Capacity /\ Held(used) <= Len(used)
<1>1. /\ cache \in Caches(Keys, Values) /\ WellFormed(cache)
      /\ used \in Seq(Entry) /\ DistinctKeys(used)
  BY DEF Inv, TypeOK, Entry, DistinctKeys
<1>2. cache.order \in Seq(Entry) /\ cache.items = KeysOf(cache.order)
  BY <1>1, CacheParts DEF WellFormed, Consistent, Entry
<1>3. Held(used) \in Nat /\ Held(used) <= Capacity /\ Held(used) <= Len(used)
  BY <1>1, CapacityAssumption DEF Held
<1>4. cache.order = SubSeq(used, 1, Held(used))
  BY DEF Inv, HoldsTheLastUsed, Held
<1>5. Len(cache.order) = Held(used) /\ \A j \in 1..Held(used) : cache.order[j] = used[j]
  BY <1>1, <1>3, <1>4
<1> QED  BY <1>1, <1>2, <1>3, <1>5

\* A key is in the cache if its entry is among those used last, and its node is at
\* the same place.
LEMMA WhereKeysAre ==
  ASSUME Inv, NEW k
  PROVE  /\ Has(cache, k) <=> \E j \in 1..Held(used) : used[j].key = k
         /\ \A j \in 1..Held(used) : used[j].key = k => Node(cache, k) = j
<1>1. DOMAIN cache.order = 1..Held(used)
  BY InvParts
<1>2. Has(cache, k) <=> \E j \in 1..Held(used) : used[j].key = k
  BY <1>1, InvParts DEF Has, KeysOf
<1>3. ASSUME NEW j \in 1..Held(used), used[j].key = k PROVE Node(cache, k) = j
  <2>1. Node(cache, k) \in DOMAIN cache.order /\ cache.order[Node(cache, k)].key = k
    BY <1>2, <1>3, NodeFound, InvParts DEF WellFormed
  <2>2. cache.order[j].key = k
    BY <1>3, InvParts
  <2> QED  BY <1>1, <1>3, <2>1, <2>2, InvParts DEF WellFormed, Consistent
<1> QED  BY <1>2, <1>3

\* The entry at place i, which is in the cache, is used again, with a value.
LEMMA UsedAgain ==
  ASSUME Inv, NEW i \in 1..Held(used), NEW e \in Entry, e.key = used[i].key,
         NEW u, u = <<e>> \o RemoveAt(used, i),
         NEW o, o = MoveToFront([cache.order EXCEPT ![i] = e], i)
  PROVE  u \in Seq(Entry) /\ DistinctKeys(u) /\ o = SubSeq(u, 1, Held(u))
<1>1. i \in DOMAIN used /\ i \in DOMAIN cache.order
  BY InvParts
<1>2. u = MoveToFront([used EXCEPT ![i] = e], i)
  BY <1>1, InvParts, RenewedInFront, ZenonT(60)
<1>3. /\ u \in Seq(Entry) /\ Len(u) = Len(used) /\ DistinctKeys(u)
      /\ \A j \in 1..Len(used) : u[j] = IF j = 1 THEN e ELSE IF j <= i THEN used[j - 1] ELSE used[j]
  <2>1. used \in Seq(Entry) /\ DistinctKeys(used) /\ used[i].key = e.key
    BY InvParts
  <2>2. LET v == MoveToFront([used EXCEPT ![i] = e], i)
        IN  /\ v \in Seq(Entry) /\ Len(v) = Len(used)
            /\ \A j \in 1..Len(used) :
                 v[j] = IF j = 1 THEN e ELSE IF j <= i THEN used[j - 1] ELSE used[j]
            /\ DistinctKeys(used) /\ used[i].key = e.key => DistinctKeys(v)
    BY <1>1, <2>1, PlacesInFront, Zenon
  <2> QED  BY <1>2, <2>1, <2>2, Zenon
<1>4. /\ o \in Seq(Entry) /\ Len(o) = Held(used)
      /\ \A j \in 1..Held(used) :
           o[j] = IF j = 1 THEN e ELSE IF j <= i THEN cache.order[j - 1] ELSE cache.order[j]
  <2>1. cache.order \in Seq(Entry) /\ Len(cache.order) = Held(used)
    BY InvParts
  <2>2. LET v == MoveToFront([cache.order EXCEPT ![i] = e], i)
        IN  /\ v \in Seq(Entry) /\ Len(v) = Len(cache.order)
            /\ \A j \in 1..Len(cache.order) :
                 v[j] = IF j = 1 THEN e ELSE IF j <= i THEN cache.order[j - 1] ELSE cache.order[j]
            /\ DistinctKeys(cache.order) /\ cache.order[i].key = e.key => DistinctKeys(v)
    BY <1>1, <2>1, PlacesInFront, Zenon
  <2> QED  BY <2>1, <2>2, Zenon
<1>5. ASSUME NEW j \in 1..Held(used) PROVE o[j] = u[j]
  <2>1. j \in 1..Len(used)
    BY InvParts
  <2>2. CASE j = 1
    BY <1>3, <1>4, <2>1, <2>2
  <2>3. CASE j # 1 /\ j <= i
    <3>1. j - 1 \in 1..Held(used)
      BY <2>3, InvParts
    <3> QED  BY <1>3, <1>4, <2>1, <2>3, <3>1, InvParts, ZenonT(60)
  <2>4. CASE ~(j <= i)
    <3>1. j # 1
      BY <2>4, InvParts
    <3> QED  BY <1>3, <1>4, <2>1, <2>4, <3>1, InvParts
  <2> QED  BY <2>2, <2>3, <2>4
<1>6. Held(u) = Held(used)
  BY <1>3 DEF Held
<1>7. Len(o) = Held(u) /\ \A j \in 1..Len(o) : o[j] = u[j]
  BY <1>4, <1>5, <1>6
<1>8. o = SubSeq(u, 1, Held(u))
  BY <1>3, <1>4, <1>7, BeginningOf
<1> QED  BY <1>3, <1>8

\* An entry that is not in the cache is used, by putting it there: if the cache is
\* full, its last entry goes.
LEMMA UsedNew ==
  ASSUME Inv, Capacity # 0, NEW e \in Entry, NEW u \in Seq(Entry), DistinctKeys(u),
         Len(u) \in {Len(used), Len(used) + 1}, Len(u) = Len(used) => Len(used) > Capacity,
         u[1] = e, \A j \in 2..Len(u) : j <= Capacity => u[j] = used[j - 1],
         NEW c, c = (IF Full(cache) THEN Evict(cache) ELSE cache),
         NEW o, o = <<e>> \o c.order
  PROVE  o = SubSeq(u, 1, Held(u))
<1> DEFINE n == Held(used)
           m == Held(u)
<1>1. /\ n \in Nat /\ n <= Capacity /\ n <= Len(used) /\ Len(used) \in Nat
      /\ Capacity \in Nat /\ cache.order \in Seq(Entry) /\ Len(cache.order) = n
      /\ \A j \in 1..n : cache.order[j] = used[j]
  BY InvParts, CapacityAssumption
<1>2. m \in Nat /\ m - 1 \in Nat /\ m <= Capacity /\ m <= Len(u)
  BY <1>1, CapacityAssumption DEF Held
<1>3. c.order \in Seq(Entry) /\ Len(c.order) = m - 1 /\ \A j \in 1..m - 1 : c.order[j] = used[j]
  <2>1. CASE Full(cache)
    <3>1. n = Capacity /\ m = Capacity
      BY <1>1, <2>1 DEF Full, Held
    <3>2. c.order = SubSeq(cache.order, 1, n - 1)
      BY <1>1, <2>1 DEF Evict
    <3> HIDE DEF n, m
    <3>3. n - 1 \in Nat /\ n - 1 <= n /\ m - 1 = n - 1
      BY <1>1, <3>1
    <3>4. /\ c.order \in Seq(Entry) /\ Len(c.order) = n - 1
          /\ \A j \in 1..n - 1 : c.order[j] = cache.order[j]
      <4>1. cache.order \in Seq(Entry) /\ n - 1 <= Len(cache.order)
        BY <1>1, <3>3
      <4>2. /\ SubSeq(cache.order, 1, n - 1) \in Seq(Entry)
            /\ Len(SubSeq(cache.order, 1, n - 1)) = n - 1
            /\ \A j \in 1..n - 1 : SubSeq(cache.order, 1, n - 1)[j] = cache.order[j]
        BY <3>3, <4>1, Shortened
      <4> QED  BY <3>2, <4>2
    <3> QED  BY <1>1, <3>3, <3>4
  <2>2. CASE ~Full(cache)
    <3>1. n < Capacity /\ m = n + 1
      BY <1>1, <2>2 DEF Full, Held
    <3>2. c = cache
      BY <2>2
    <3> HIDE DEF n, m
    <3> QED  BY <1>1, <3>1, <3>2
  <2> QED  BY <2>1, <2>2
<1> HIDE DEF n, m
<1>4. /\ o \in Seq(Entry) /\ Len(o) = Len(c.order) + 1
      /\ \A j \in 1..Len(c.order) + 1 : o[j] = IF j = 1 THEN e ELSE c.order[j - 1]
  BY <1>3, PlacesBehind
<1>5. Len(o) = m
  <2>1. Len(c.order) + 1 = m
    BY <1>2, <1>3
  <2> QED  BY <1>4, <2>1
<1>6. ASSUME NEW j \in 1..m PROVE o[j] = u[j]
  <2>1. CASE j = 1
    BY <1>2, <1>3, <1>4, <2>1
  <2>2. CASE j # 1
    <3>1. m \in Nat /\ Len(u) \in Nat
      BY <1>2
    <3>2. j - 1 \in 1..m - 1 /\ j \in 2..Len(u) /\ j <= Capacity
      BY <1>1, <1>2, <2>2, <3>1
    <3>3. j \in 1..Len(c.order) + 1
      BY <1>3, <3>1
    <3> QED  BY <1>3, <1>4, <2>2, <3>2, <3>3
  <2> QED  BY <2>1, <2>2
<1> QED  BY <1>4, <1>5, <1>6, BeginningOf DEF m

-----------------------------------------------------------------------------
(* The operations.                                                         *)

\* Inv, in the terms of the lemmas.
LEMMA InvAgain ==
  ASSUME cache' \in Caches(Keys, Values), WellFormed(cache'),
         used' \in Seq(Entry), DistinctKeys(used'),
         cache'.order = SubSeq(used', 1, Held(used'))
  PROVE  Inv'
<1>1. TypeOK'
  BY DEF TypeOK, Entry, DistinctKeys
<1>2. HoldsTheLastUsed'
  BY DEF HoldsTheLastUsed, Held
<1> QED  BY <1>1, <1>2 DEF Inv

\* The entry that get finds is the history's.
LEMMA FoundEntry ==
  ASSUME Inv, NEW k, Has(cache, k)
  PROVE  \E i \in 1..Held(used) :
           /\ used[i].key = k /\ Node(cache, k) = i
           /\ used[i] \in Entry /\ cache.order[i] = used[i]
           /\ used[i] = [key |-> k, value |-> ValueOf(cache, k)]
<1>1. PICK i \in 1..Held(used) : used[i].key = k
  BY WhereKeysAre
<1>2. Node(cache, k) = i
  BY <1>1, WhereKeysAre
<1>3. cache.order[i] = used[i] /\ used[i] \in Entry
  BY InvParts
<1>4. ValueOf(cache, k) = used[i].value
  BY <1>2, <1>3 DEF ValueOf
<1>5. used[i] = [key |-> k, value |-> ValueOf(cache, k)]
  BY <1>1, <1>3, <1>4 DEF Entry, Nodes
<1> QED  BY <1>1, <1>2, <1>3, <1>5

\* The history of an entry that is in it.
LEMMA LastUseOfHeld ==
  ASSUME Inv, NEW i \in 1..Held(used), NEW e, e.key = used[i].key, LastUse(e)
  PROVE  used' = <<e>> \o RemoveAt(used, i)
<1>1. i \in DOMAIN used
  BY InvParts
<1>2. \A j \in DOMAIN used : used[j].key = e.key => j = i
  BY <1>1, InvParts DEF DistinctKeys
<1> QED  BY <1>1, <1>2 DEF LastUse

LEMMA GetPreserves ==
  ASSUME Inv, NEW k \in Keys, Get(k) PROVE Inv'
<1>1. CASE ~Has(cache, k)
  BY <1>1 DEF Get, Inv, TypeOK, HoldsTheLastUsed
<1>2. CASE Has(cache, k)
  <2> DEFINE e == [key |-> k, value |-> ValueOf(cache, k)]
  <2>1. cache' = Touch(cache, k) /\ LastUse(e)
    BY <1>2 DEF Get
  <2>2. PICK i \in 1..Held(used) :
          /\ used[i].key = k /\ Node(cache, k) = i
          /\ used[i] \in Entry /\ cache.order[i] = used[i] /\ used[i] = e
    BY <1>2, FoundEntry
  <2>3. e.key = used[i].key /\ e \in Entry
    BY <2>2
  <2> HIDE DEF e
  <2>4. used' = <<e>> \o RemoveAt(used, i)
    BY <2>1, <2>3, LastUseOfHeld
  <2>5. cache'.order = MoveToFront(cache.order, i)
    BY <2>1, <2>2 DEF Touch
  <2>6. [cache.order EXCEPT ![i] = e] = cache.order
    BY <2>2, InvParts
  <2>7. cache'.order = MoveToFront([cache.order EXCEPT ![i] = e], i)
    BY <2>5, <2>6
  <2>8. /\ used' \in Seq(Entry) /\ DistinctKeys(used')
        /\ cache'.order = SubSeq(used', 1, Held(used'))
    BY <2>3, <2>4, <2>7, UsedAgain
  <2>9. cache' \in Caches(Keys, Values) /\ WellFormed(cache')
    BY <1>2, <2>1, InvParts, TouchPreserves
  <2> QED  BY <2>8, <2>9, InvAgain
<1> QED  BY <1>1, <1>2

\* The history of an entry that is not in the cache: it gets longer, or loses an
\* entry beyond the capacity.
LEMMA LastUseOfOther ==
  ASSUME Inv, NEW e \in Entry, ~Has(cache, e.key), LastUse(e)
  PROVE  /\ used' \in Seq(Entry) /\ DistinctKeys(used') /\ used'[1] = e
         /\ Len(used') \in {Len(used), Len(used) + 1}
         /\ Len(used') = Len(used) => Len(used) > Capacity
         /\ \A j \in 2..Len(used') : j <= Capacity => used'[j] = used[j - 1]
<1>0. /\ used \in Seq(Entry) /\ DistinctKeys(used) /\ Len(used) \in Nat
      /\ Capacity \in Nat /\ DOMAIN used = 1..Len(used)
  BY InvParts, CapacityAssumption
<1>1. CASE \E i \in DOMAIN used : used[i].key = e.key /\ used' = <<e>> \o RemoveAt(used, i)
  <2>1. PICK i \in DOMAIN used : used[i].key = e.key /\ used' = <<e>> \o RemoveAt(used, i)
    BY <1>1
  <2>2. i \notin 1..Held(used)
    BY <2>1, WhereKeysAre
  <2>3. i > Capacity /\ Len(used) > Capacity /\ i \in 1..Len(used)
    BY <1>0, <2>2 DEF Held
  <2>4. used' = MoveToFront([used EXCEPT ![i] = e], i)
    <3>1. <<e>> \o RemoveAt(used, i) = MoveToFront([used EXCEPT ![i] = e], i)
      BY <1>0, RenewedInFront, ZenonT(60)
    <3> QED  BY <2>1, <3>1, Zenon
  <2>5. LET v == MoveToFront([used EXCEPT ![i] = e], i)
        IN  /\ v \in Seq(Entry) /\ Len(v) = Len(used)
            /\ \A j \in 1..Len(used) :
                 v[j] = IF j = 1 THEN e ELSE IF j <= i THEN used[j - 1] ELSE used[j]
            /\ DistinctKeys(used) /\ used[i].key = e.key => DistinctKeys(v)
    BY <1>0, PlacesInFront, Zenon
  <2>6. /\ used' \in Seq(Entry) /\ Len(used') = Len(used) /\ DistinctKeys(used')
        /\ \A j \in 1..Len(used) :
             used'[j] = IF j = 1 THEN e ELSE IF j <= i THEN used[j - 1] ELSE used[j]
    BY <1>0, <2>1, <2>4, <2>5, Zenon
  <2>7. \A j \in 2..Len(used') : j <= Capacity => used'[j] = used[j - 1]
    BY <1>0, <2>3, <2>6
  <2>8. used'[1] = e
    BY <1>0, <2>3, <2>6
  <2> QED  BY <2>3, <2>6, <2>7, <2>8
<1>2. CASE (\A i \in DOMAIN used : used[i].key # e.key) /\ used' = <<e>> \o used
  <2>1. /\ used' \in Seq(Entry) /\ Len(used') = Len(used) + 1 /\ DistinctKeys(used')
        /\ \A j \in 1..Len(used) + 1 : used'[j] = IF j = 1 THEN e ELSE used[j - 1]
    <3>1. /\ <<e>> \o used \in Seq(Entry) /\ Len(<<e>> \o used) = Len(used) + 1
          /\ \A j \in 1..Len(used) + 1 : (<<e>> \o used)[j] = IF j = 1 THEN e ELSE used[j - 1]
          /\ DistinctKeys(used) /\ (\A j \in DOMAIN used : used[j].key # e.key)
               => DistinctKeys(<<e>> \o used)
      BY <1>0, PlacesBehind, Zenon
    <3>2. used' = <<e>> \o used /\ \A j \in DOMAIN used : used[j].key # e.key
      BY <1>2
    <3> QED  BY <1>0, <3>1, <3>2, Zenon
  <2>2. Len(used') # Len(used) /\ used'[1] = e
    <3>0. Len(used) \in Nat
      BY <1>0
    <3>1. 1 \in 1..Len(used) + 1 /\ Len(used) + 1 # Len(used)
      <4> DEFINE n == Len(used)
      <4> HIDE DEF n
      <4>1. n \in Nat => 1 \in 1..n + 1 /\ n + 1 # n
        OBVIOUS
      <4> QED  BY <3>0, <4>1 DEF n
    <3> QED  BY <2>1, <3>1
  <2>3. \A j \in 2..Len(used') : used'[j] = used[j - 1]
    BY <1>0, <2>1
  <2> QED  BY <2>1, <2>2, <2>3
<1> QED  BY <1>1, <1>2 DEF LastUse

LEMMA StorePreserves ==
  ASSUME Inv, NEW k \in Keys, NEW v \in Values, Store(k, v) PROVE Inv'
<1> DEFINE e == [key |-> k, value |-> v]
<1>1. e \in Entry /\ e.key = k
  BY DEF Entry, Nodes
<1>2. cache' = Put(cache, k, v) /\ LastUse(e)
  BY DEF Store
<1>3. cache' \in Caches(Keys, Values) /\ WellFormed(cache')
  BY <1>2, InvParts, PutKeepsWellFormed
<1>4. CASE Capacity # 0 /\ Has(cache, k)
  <2>1. PICK i \in 1..Held(used) : used[i].key = k /\ Node(cache, k) = i
    BY <1>4, FoundEntry
  <2>2. cache'.order = MoveToFront([cache.order EXCEPT ![i] = e], i)
    BY <1>2, <1>4, <2>1 DEF Put, Refresh
  <2> HIDE DEF e
  <2>3. used' = <<e>> \o RemoveAt(used, i)
    BY <1>1, <1>2, <2>1, LastUseOfHeld
  <2>4. /\ used' \in Seq(Entry) /\ DistinctKeys(used')
        /\ cache'.order = SubSeq(used', 1, Held(used'))
    BY <1>1, <2>1, <2>2, <2>3, UsedAgain
  <2> QED  BY <1>3, <2>4, InvAgain
<1>5. CASE ~Has(cache, k)
  <2>1. /\ used' \in Seq(Entry) /\ DistinctKeys(used') /\ used'[1] = e
        /\ Len(used') \in {Len(used), Len(used) + 1}
        /\ Len(used') = Len(used) => Len(used) > Capacity
        /\ \A j \in 2..Len(used') : j <= Capacity => used'[j] = used[j - 1]
    <3> HIDE DEF e
    <3> QED  BY <1>1, <1>2, <1>5, LastUseOfOther
  <2>2. CASE Capacity # 0
    <3> DEFINE c == IF Full(cache) THEN Evict(cache) ELSE cache
    <3>1. cache'.order = <<e>> \o c.order
      BY <1>2, <1>5, <2>2 DEF Put, Insert
    <3> HIDE DEF e, c
    <3>2. cache'.order = SubSeq(used', 1, Held(used'))
      BY <1>1, <2>1, <2>2, <3>1, UsedNew DEF c
    <3> QED  BY <1>3, <2>1, <3>2, InvAgain
  <2>3. CASE Capacity = 0
    <3>1. cache' = cache
      BY <1>2, <2>3 DEF Put
    <3>2. Held(used') = 0 /\ Held(used) = 0
      BY <2>1, <2>3, InvParts DEF Held
    <3>3. cache'.order \in Seq(Entry) /\ Len(cache'.order) = Held(used')
      BY <3>1, <3>2, InvParts
    <3>4. cache'.order = SubSeq(used', 1, Held(used'))
      BY <2>1, <3>2, <3>3, BeginningOf
    <3> QED  BY <1>3, <2>1, <3>4, InvAgain
  <2> QED  BY <2>2, <2>3
<1>6. CASE Capacity = 0 /\ Has(cache, k)
  BY <1>6, WhereKeysAre, InvParts
<1> QED  BY <1>4, <1>5, <1>6

LEMMA InvInductive ==
  /\ Init => Inv
  /\ Inv /\ [Next]_vars => Inv'
<1>1. ASSUME Init PROVE Inv
  <2>1. used = << >> /\ cache.order = << >> /\ cache.items = {}
    BY <1>1 DEF Init, Empty
  <2>2. TypeOK
    <3>1. cache \in Caches(Keys, Values) /\ used \in Seq(Nodes(Keys, Values))
      BY <1>1, <2>1 DEF Init, Empty, Caches
    <3>2. WellFormed(cache)
      BY <2>1, CapacityAssumption DEF WellFormed, Consistent, KeysOf
    <3> QED  BY <2>1, <3>1, <3>2 DEF TypeOK
  <2>3. HoldsTheLastUsed
    BY <2>1, CapacityAssumption DEF HoldsTheLastUsed
  <2> QED  BY <2>2, <2>3 DEF Inv
<1>2. ASSUME Inv, [Next]_vars PROVE Inv'
  <2>1. CASE UNCHANGED vars
    BY <1>2, <2>1 DEF vars, Inv, TypeOK, HoldsTheLastUsed
  <2>2. CASE Next
    BY <1>2, <2>2, GetPreserves, StorePreserves DEF Next
  <2> QED  BY <1>2, <2>1, <2>2
<1> QED  BY <1>1, <1>2

\* The list and the map of the cache describe the same entries, whatever is got and
\* put, and the history has each key once.
THEOREM TypeCorrect == Spec => []TypeOK
<1>1. Inv => TypeOK
  BY DEF Inv
<1> QED  BY <1>1, InvInductive, PTL DEF Spec

\* The list holds exactly the entries used last, in the order of their use.
THEOREM HoldsTheLast == Spec => []HoldsTheLastUsed
<1>1. Inv => HoldsTheLastUsed
  BY DEF Inv
<1> QED  BY <1>1, InvInductive, PTL DEF Spec

-----------------------------------------------------------------------------
(* The policy.                                                             *)

LEMMA GetIsPolicy ==
  ASSUME Inv, NEW k \in Keys, Get(k)
  PROVE  Policy!Hit(k) \/ Policy!Miss(k)
<1>1. CASE Has(cache, k)
  <2>1. PICK i \in 1..Held(used) :
          used[i].key = k /\ used[i] = [key |-> k, value |-> ValueOf(cache, k)]
    BY <1>1, FoundEntry
  <2>2. i \in DOMAIN used /\ i <= Capacity
    <3>1. /\ used \in Seq(Entry) /\ Held(used) \in Nat
          /\ Held(used) <= Capacity /\ Held(used) <= Len(used)
      BY InvParts
    <3>2. DOMAIN used = 1..Len(used) /\ Len(used) \in Nat /\ Capacity \in Nat
      BY <3>1, CapacityAssumption
    <3> QED  BY <3>1, <3>2
  <2>3. got' = {used[i].value} /\ LastUse(used[i])
    BY <1>1, <2>1 DEF Get
  <2>4. Policy!ToFront(used[i])
    BY <2>3 DEF LastUse, RemoveAt, Policy!ToFront, Policy!RemoveAt
  <2> QED  BY <2>1, <2>2, <2>3, <2>4 DEF Policy!Hit, Policy!Resident
<1>2. CASE ~Has(cache, k)
  <2>1. got' = {} /\ used' = used
    BY <1>2 DEF Get
  <2>2. ASSUME NEW i \in DOMAIN used, used[i].key = k, i <= Capacity PROVE FALSE
    <3>1. i \in 1..Held(used)
      BY <2>2, InvParts DEF Held
    <3> QED  BY <1>2, <2>2, <3>1, WhereKeysAre
  <2> QED  BY <2>1, <2>2 DEF Policy!Miss, Policy!Resident
<1> QED  BY <1>1, <1>2

\* get and put of LRUCache are those of an LRU cache: what get answers, and which
\* entry an eviction takes.
THEOREM CacheImplementsPolicy == Spec => ImplementsPolicy
<1>1. Init => Policy!Init
  BY DEF Init, Policy!Init
<1>2. Inv /\ [Next]_vars => [Policy!Next]_(Policy!vars)
  <2> SUFFICES ASSUME Inv, [Next]_vars PROVE [Policy!Next]_(Policy!vars)
    OBVIOUS
  <2>1. CASE UNCHANGED vars
    BY <2>1 DEF vars, Policy!vars
  <2>2. ASSUME NEW k \in Keys, Get(k) PROVE Policy!Next
    BY <2>2, GetIsPolicy DEF Policy!Next
  <2>3. ASSUME NEW k \in Keys, NEW v \in Values, Store(k, v) PROVE Policy!Next
    <3>1. LastUse([key |-> k, value |-> v]) /\ UNCHANGED got
      BY <2>3 DEF Store
    <3>2. Policy!ToFront([key |-> k, value |-> v])
      BY <3>1 DEF LastUse, RemoveAt, Policy!ToFront, Policy!RemoveAt
    <3> QED  BY <3>1, <3>2 DEF Policy!Next, Policy!Store
  <2> QED  BY <2>1, <2>2, <2>3 DEF Next
<1> QED  BY <1>1, <1>2, InvInductive, PTL DEF Spec, ImplementsPolicy, Policy!Spec
=============================================================================
