------------------------------ MODULE LRUCache ------------------------------
(***************************************************************************)
(* LRUCache<Key, Value, Hash, KeyEqual> of backend/include/lru_cache.h.    *)
(*                                                                         *)
(* The class keeps its entries twice: order_ is a doubly linked list, the  *)
(* most recently used entry first, and items_ maps a key to the node of    *)
(* order_ that holds it.  A cache value c has the same two parts:          *)
(*   c.order  the list, a sequence of [key, value] entries;                *)
(*   c.items  the keys that items_ has an iterator for.                    *)
(* A node never changes its key, so the node an iterator points to is the  *)
(* entry of c.order with that key.  Nothing here makes the two parts agree *)
(* : WellFormed states that they do, and every client has to keep it true. *)
(*                                                                         *)
(* put() is offered whole (Put) and as the three mutations it is made of   *)
(* (Refresh, Evict, Insert), for clients that interleave them.             *)
(***************************************************************************)
EXTENDS Naturals, Sequences

CONSTANT Capacity      \* capacity_, fixed by the constructor; 0 is allowed

ASSUME CapacityAssumption == Capacity \in Nat

Empty == [order |-> << >>, items |-> {}]

KeysOf(s) == {s[i].key : i \in DOMAIN s}

Has(c, k) == k \in c.items                         \* items_.find(key) != end()

Node(c, k) == CHOOSE i \in DOMAIN c.order : c.order[i].key = k   \* it->second

ValueOf(c, k) == c.order[Node(c, k)].value

\* order_.splice(order_.begin(), order_, it): entry i moves to the front.
MoveToFront(s, i) ==
  [j \in DOMAIN s |-> IF j = 1 THEN s[i] ELSE IF j <= i THEN s[j - 1] ELSE s[j]]

\* The state get(key) leaves behind when it finds the key; a miss changes
\* nothing.
Touch(c, k) ==
  [order |-> MoveToFront(c.order, Node(c, k)), items |-> c.items]

RefreshInPlace(c, k, v) ==                                            \* mutant
  [c EXCEPT !.order[Node(c, k)] = [key |-> k, value |-> v]]

\* put() of a key already present: new value, and the node moves to the front.
Refresh(c, k, v) ==
  LET n == Node(c, k)
  IN  [order |-> MoveToFront([c.order EXCEPT ![n] = [key |-> k, value |-> v]], n),
       items |-> c.items]

FullTooLate(c) == Len(c.order) > Capacity                             \* mutant

Full(c) == Len(c.order) >= Capacity

EvictFromListOnly(c) ==                                               \* mutant
  [c EXCEPT !.order = SubSeq(@, 1, Len(@) - 1)]

\* items_.erase(order_.back().first); order_.pop_back()
Evict(c) ==
  LET last == Len(c.order)
  IN  [order |-> SubSeq(c.order, 1, last - 1),
       items |-> c.items \ {c.order[last].key}]

\* order_.emplace_front(key, value); items_[key] = order_.begin()
Insert(c, k, v) ==
  [order |-> <<[key |-> k, value |-> v]>> \o c.order,
   items |-> c.items \cup {k}]

Put(c, k, v) ==
  IF Capacity = 0 THEN c
  ELSE IF Has(c, k) THEN Refresh(c, k, v)
  ELSE Insert(IF Full(c) THEN Evict(c) ELSE c, k, v)

-----------------------------------------------------------------------------
Nodes(Keys, Values) == [key : Keys, value : Values]

Caches(Keys, Values) == [order : Seq(Nodes(Keys, Values)), items : SUBSET Keys]

\* The list and the map describe the same entries, each key once: what makes
\* items_.find and the iterators safe to use.
Consistent(c) ==
  /\ c.items = KeysOf(c.order)
  /\ \A i, j \in DOMAIN c.order : c.order[i].key = c.order[j].key => i = j

WellFormed(c) == Consistent(c) /\ Len(c.order) <= Capacity
=============================================================================
