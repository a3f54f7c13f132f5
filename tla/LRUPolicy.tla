----------------------------- MODULE LRUPolicy -----------------------------
(***************************************************************************)
(* What "least recently used" means, without a list to splice or a map to  *)
(* keep in step: remember everything ever put, most recently used first.   *)
(* The first Capacity entries are the cache.  A key is used when it is put *)
(* and when a get finds it.                                                *)
(***************************************************************************)
EXTENDS Naturals, SequencesExt

CONSTANTS Keys, Values, Capacity

VARIABLES
  used,     \* all entries ever put, the most recently used first, a key once
  got       \* the answer to the last get, an optional value

vars == <<used, got>>

Resident(i) == i <= Capacity

\* The entry is the most recently used; an older one of its key goes.
ToFront(e) ==
  \/ \E i \in DOMAIN used : used[i].key = e.key /\ used' = <<e>> \o RemoveAt(used, i)
  \/ (\A i \in DOMAIN used : used[i].key # e.key) /\ used' = <<e>> \o used

Init == used = << >> /\ got = {}

Hit(k) ==
  \E i \in DOMAIN used :
    /\ used[i].key = k /\ Resident(i)
    /\ got' = {used[i].value}
    /\ ToFront(used[i])

Miss(k) ==
  /\ \A i \in DOMAIN used : used[i].key = k => ~Resident(i)
  /\ got' = {}
  /\ UNCHANGED used

Store(k, v) ==
  /\ ToFront([key |-> k, value |-> v])
  /\ UNCHANGED got

Next ==
  \E k \in Keys : Hit(k) \/ Miss(k) \/ \E v \in Values : Store(k, v)

Spec == Init /\ [][Next]_vars
=============================================================================
