--------------------------- MODULE PriorityQueue ---------------------------
(***************************************************************************)
(* std::priority_queue of the GNU library, as QueryEngine::search uses it: *)
(* an array that std::push_heap and std::pop_heap keep ordered as a binary *)
(* heap, here a sequence whose first entry is the top.  The comparison     *)
(* makes the smallest score the top.  Among equal scores it is the         *)
(* position in the array that decides: for the same pushes the queue gives *)
(* the same documents in the same order.                                   *)
(***************************************************************************)
EXTENDS Naturals, Sequences

Parent(i) == i \div 2

\* The place i, the one it hangs from, and so on up to the top: what every set has
\* that holds i and, of each of its places, the parent.
Above(i) ==
  {j \in 1..i : \A way \in SUBSET (1..i) :
     i \in way /\ (\A x \in way \ {1} : Parent(x) \in way) => j \in way}

\* __push_heap: document d, for which place hole is free, rises past every parent of
\* a larger score.
Place(queue, score, hole, d) ==
  CHOOSE i \in Above(hole) :
    /\ i = 1 \/ score[queue[Parent(i)]] <= score[d]
    /\ \A j \in Above(hole) : j > i => score[queue[Parent(j)]] > score[d]

Risen(queue, score, hole, d) ==
  LET place == Place(queue, score, hole, d)
  IN  [i \in DOMAIN queue \cup {hole} |->
         CASE i = place                       -> d
           [] i \in Above(hole) /\ i > place  -> queue[Parent(i)]
           [] OTHER                           -> queue[i]]

\* push: push_back and push_heap.
WithPushed(queue, score, d) == Risen(queue, score, Len(queue) + 1, d)

\* __adjust_heap: the free place at the top sinks to the smaller child each time, of
\* two equal ones to the second, until it has none; and the last entry rises from
\* there.
SmallerChild(queue, score, last, i) ==
  IF 2 * i < last /\ score[queue[2 * i + 1]] <= score[queue[2 * i]] THEN 2 * i + 1 ELSE 2 * i

SinksTo(queue, score, last, i) ==
  \A j \in Above(i) \ {1} : j = SmallerChild(queue, score, last, Parent(j))

Leaf(queue, score, last) ==
  CHOOSE i \in 1..last : 2 * i > last /\ SinksTo(queue, score, last, i)

Moved(queue, score, last, hole) ==
  [i \in 1..last |-> IF i \in Above(hole) \ {hole}
                     THEN queue[SmallerChild(queue, score, last, i)] ELSE queue[i]]

Sunk(queue, score, last) ==
  LET hole == Leaf(queue, score, last)
  IN  Risen(Moved(queue, score, last, hole), score, hole, queue[last + 1])

\* pop: pop_heap and pop_back.
WithoutTop(queue, score) ==
  IF Len(queue) = 1 THEN << >> ELSE Sunk(queue, score, Len(queue) - 1)
=============================================================================
