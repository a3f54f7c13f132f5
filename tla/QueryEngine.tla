---------------------------- MODULE QueryEngine ----------------------------
(***************************************************************************)
(* QueryEngine::search (backend/src/query_engine.cpp), asked for one page  *)
(* of a query after the other as the "Load more" button does.              *)
(*                                                                         *)
(* What the scorer gives is an unordered_map from documents to scores.     *)
(* Nothing it is made of changes while serving, so it is the same, in the  *)
(* same order, whenever the query is the same; which order is up to the    *)
(* library.  The heap compares scores alone, so of several documents of    *)
(* the smallest score any may be its top.  The library decides by where    *)
(* they stand in the heap: QueryEngineHeap, which implements this module.  *)
(***************************************************************************)
EXTENDS Naturals, Sequences, FiniteSets

CONSTANTS
  Docs,
  Scores,        \* the final scores, numbers
  MaxLimit,      \* kMaxLimit
  SizeMax,       \* the largest size_t
  MaxPages       \* bound: the pages asked for

\* Document ids are 32 bits wide and sizes 64: no offset near SizeMax has a
\* document to show.
ASSUME EngineAssumption ==
  /\ IsFiniteSet(Docs) /\ Scores \subseteq Nat
  /\ MaxLimit \in Nat \ {0} /\ SizeMax \in Nat /\ MaxPages \in Nat
  /\ Cardinality(Docs) + MaxLimit <= SizeMax

VARIABLES
  order, score,    \* the map: its documents in iteration order, their scores
  limit, offset,   \* the arguments
  step,            \* where search stands: "push", "drain" or "idle"
  seen,            \* how many documents the loop has seen
  heap,            \* the priority queue, a set of documents
  results,
  pages            \* the pages so far, [offset, docs] records

vars == <<order, score, limit, offset, step, seen, heap, results, pages>>

Matching == {order[i] : i \in DOMAIN order}

Pushed == {order[i] : i \in 1..seen}

\* A document is in the map once.
Orders ==
  UNION {{o \in [1..n -> Docs] : \A i, j \in 1..n : o[i] = o[j] => i = j} :
           n \in 0..Cardinality(Docs)}

Init ==
  /\ order \in Orders
  /\ score \in [Docs -> Scores]
  /\ limit \in 1..MaxLimit /\ offset \in 0..SizeMax
  /\ step = "push" /\ seen = 0 /\ heap = {} /\ results = << >>
  /\ pages = << >>

KeepLimit == limit                                                    \* mutant

\* limit + offset, in size_t: it wraps around.
Keep == IF limit + offset <= SizeMax THEN limit + offset
        ELSE limit + offset - (SizeMax + 1)

\* heap.top(): the comparison makes the smallest score the top.
BestOf(h) == {d \in h : \A e \in h : score[e] <= score[d]}            \* mutant

TopOf(h) == {d \in h : \A e \in h : score[d] <= score[e]}

\* heap.push, and heap.pop if that is one too many.
Push ==
  /\ step = "push"
  /\ seen < Len(order)
  /\ seen' = seen + 1
  /\ LET all == heap \cup {order[seen + 1]}
     IN  IF Cardinality(all) > Keep
         THEN \E top \in TopOf(all) : heap' = all \ {top}
         ELSE heap' = all
  /\ UNCHANGED <<order, score, limit, offset, step, results, pages>>

AllPushed ==
  /\ step = "push"
  /\ seen = Len(order)
  /\ step' = "drain"
  /\ UNCHANGED <<order, score, limit, offset, seen, heap, results, pages>>

\* results.push_back(heap.top()) and the final reverse.
Drain ==
  /\ step = "drain"
  /\ \E top \in TopOf(heap) :
       /\ results' = <<top>> \o results
       /\ heap' = heap \ {top}
  /\ UNCHANGED <<order, score, limit, offset, step, seen, pages>>

PageFromStart ==                                                      \* mutant
  IF offset >= Len(results) THEN << >>
  ELSE SubSeq(results, 1, IF limit < Len(results) THEN limit ELSE Len(results))

\* erase the first offset results, resize to limit.
Page ==
  IF offset >= Len(results) THEN << >>
  ELSE SubSeq(results, offset + 1, IF offset + limit < Len(results) THEN offset + limit
                                   ELSE Len(results))

Paginate ==
  /\ step = "drain"
  /\ heap = {}
  /\ step' = "idle"
  /\ pages' = Append(pages, [offset |-> offset, docs |-> Page])
  /\ UNCHANGED <<order, score, limit, offset, seen, heap, results>>

AskNextPageUnchecked ==                                               \* mutant
  /\ step = "idle"
  /\ Len(pages) < MaxPages
  /\ offset' = offset + limit
  /\ step' = "push" /\ seen' = 0 /\ heap' = {} /\ results' = << >>
  /\ UNCHANGED <<order, score, limit, pages>>

\* The client shows the page and asks for the one after it; the handler refuses
\* an offset that is no size_t.
AskNextPage ==
  /\ step = "idle"
  /\ Len(pages) < MaxPages
  /\ offset + limit <= SizeMax
  /\ offset' = offset + limit
  /\ step' = "push" /\ seen' = 0 /\ heap' = {} /\ results' = << >>
  /\ UNCHANGED <<order, score, limit, pages>>

Done ==
  /\ step = "idle"
  /\ Len(pages) >= MaxPages \/ offset + limit > SizeMax
  /\ UNCHANGED vars

Next ==
  \/ Push \/ AllPushed \/ Drain \/ Paginate
  \/ AskNextPage \/ Done

Spec == Init /\ [][Next]_vars

-----------------------------------------------------------------------------
\* The types, and what is whole between the steps.
TypeOK ==
  /\ order \in Orders /\ score \in [Docs -> Scores]
  /\ limit \in 1..MaxLimit /\ offset \in 0..SizeMax
  /\ step \in {"push", "drain", "idle"}
  /\ seen \in 0..Len(order) /\ heap \subseteq Pushed
  /\ results \in Seq(Docs)
  /\ pages \in Seq([offset : 0..SizeMax, docs : Seq(Docs)])

\* The bounded heap loses nothing a page could need: it never holds more than
\* limit + offset documents, none that was left out beats one that is kept, and
\* none is left out while there is room.
KeepsTheBest ==
  step = "push" =>
    /\ Cardinality(heap) <= Keep
    /\ \A d \in heap, e \in Pushed \ heap : score[e] <= score[d]
    /\ Cardinality(heap) < Keep => heap = Pushed

\* Could document d stand at place i if all matching documents were sorted?
HasRank(d, i) ==
  /\ Cardinality({e \in Matching : score[e] > score[d]}) < i
  /\ Cardinality({e \in Matching : score[e] >= score[d]}) >= i

PageLength(start) ==
  IF start >= Cardinality(Matching) THEN 0
  ELSE IF start + limit <= Cardinality(Matching) THEN limit
  ELSE Cardinality(Matching) - start

\* Each page is as long as it can be, shows no document twice, and has at each
\* place a document of that rank, also when limit + offset wraps around.
PagesOfRanking ==
  \A n \in DOMAIN pages :
    LET p == pages[n] IN
    /\ Len(p.docs) = PageLength(p.offset)
    /\ \A i, j \in DOMAIN p.docs : p.docs[i] = p.docs[j] => i = j
    /\ \A i \in DOMAIN p.docs : HasRank(p.docs[i], p.offset + i)

NoTies == \A d, e \in Matching : score[d] = score[e] => d = e

ShownOnce ==
  \A m, n \in DOMAIN pages : \A i \in DOMAIN pages[m].docs, j \in DOMAIN pages[n].docs :
    pages[m].docs[i] = pages[n].docs[j] => m = n

\* If no two scores are equal, no document is on two pages.
ShownOnceWithoutTies == NoTies => ShownOnce
=============================================================================
